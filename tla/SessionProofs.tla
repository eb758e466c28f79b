---------------------------- MODULE SessionProofs ----------------------------
(***************************************************************************)
(* Theorems about Session, for every MAX_SKIP, every cache cap, and any    *)
(* number of messages, losses, reorderings and duplicates.                 *)
(***************************************************************************)
EXTENDS Session, TLAPS, FiniteSetTheorems, SequenceTheorems, WellFoundedInduction

-----------------------------------------------------------------------------
(* Facts about sets of numbers.                                            *)

\* A non-empty set of integers below a bound has a largest element.
LEMMA LargestBelow ==
    ASSUME NEW S \in SUBSET Int, S # {}, NEW b \in Int, \A x \in S : x < b
    PROVE  \E m \in S : \A k \in S : k <= m
<1> DEFINE T == {m .. b : m \in S}
<1>1. IsWellFoundedOn(StrictSubsetOrdering(Int), FiniteSubsetsOf(Int))
  BY FS_StrictSubsetOrderingWellFounded
<1>2. T \subseteq FiniteSubsetsOf(Int) /\ T # {}
  <2>1. \A m \in S : m .. b \in FiniteSubsetsOf(Int)
    BY FS_Interval DEF FiniteSubsetsOf
  <2> QED BY <2>1
<1>3. PICK t \in T : \A y \in T : ~(<<y, t>> \in StrictSubsetOrdering(Int))
  <2> HIDE DEF T
  <2> QED BY <1>1, <1>2, WFMin
<1>4. PICK m \in S : t = m .. b
  OBVIOUS
<1>5. ASSUME NEW k \in S, ~(k <= m)
      PROVE  FALSE
  <2>1. k .. b \in T
    OBVIOUS
  <2>2. k .. b \subseteq t /\ k .. b # t
    <3>1. m \in t /\ m \notin k .. b
      BY <1>4, <1>5
    <3> QED BY <1>4, <1>5, <3>1
  <2>3. <<k .. b, t>> \in StrictSubsetOrdering(Int)
    BY <2>1, <2>2 DEF StrictSubsetOrdering
  <2> QED BY <1>3, <2>1, <2>3
<1> QED BY <1>5

\* A non-empty set of natural numbers has a smallest element.
LEMMA SmallestOf ==
    ASSUME NEW S \in SUBSET Nat, S # {}
    PROVE  \E m \in S : \A k \in S : m <= k
<1> DEFINE T == {0 - k : k \in S}
<1>1. T \in SUBSET Int /\ T # {} /\ \A x \in T : x < 1
  <2>1. \A k \in S : 0 - k \in Int /\ 0 - k < 1
    OBVIOUS
  <2>2. T # {}
    OBVIOUS
  <2>3. \A x \in T : x \in Int /\ x < 1
    BY <2>1
  <2> QED BY <2>2, <2>3
<1>2. PICK t \in T : \A x \in T : x <= t
  <2> HIDE DEF T
  <2> QED BY <1>1, LargestBelow
<1>3. PICK m \in S : t = 0 - m
  OBVIOUS
<1>4. \A k \in S : m <= k
  <2> SUFFICES ASSUME NEW k \in S
               PROVE  m <= k
    OBVIOUS
  <2>1. 0 - k <= 0 - m
    BY <1>2, <1>3
  <2> QED BY <2>1
<1> QED BY <1>4

-----------------------------------------------------------------------------
(* The ratchet's operators keep their states well-formed.                  *)

\* A well-formed ratchet: its fields have their types, a receiving chain has
\* a remote key, and the cache is within its cap.
WellFormed(r) ==
    /\ IsRatchetState(r)
    /\ r.chain_recv # None => r.dh_remote # None
    /\ Cardinality(DOMAIN r.skipped) <= MAX_SKIPPED_CACHE

\* Both initial ratchet states are well-formed.
LEMMA InitWellFormed ==
    ASSUME NEW a \in DhKey, NEW b \in DhKey
    PROVE  WellFormed(InitInitiator(a, b)) /\ WellFormed(InitResponder(a))
<1>1. IsSkippedMap(NoKeys) /\ Cardinality(DOMAIN NoKeys) <= MAX_SKIPPED_CACHE
  <2>1. DOMAIN NoKeys = {}
    BY DEF NoKeys
  <2>2. NoKeys = [e \in DOMAIN NoKeys |-> NoKeys[e]]
    BY DEF NoKeys
  <2> QED BY <2>1, <2>2, FS_EmptySet, SkipAssumption DEF IsSkippedMap
<1>2. <<>> \in RootKey /\ kdf_rk(<<>>, dh(b, a)) \in RootKey
  BY DEF kdf_rk, dh, RootKey, DhKey
<1>3. FirstChainKey(kdf_rk(<<>>, dh(b, a))) \in ChainKey
  BY <1>2 DEF FirstChainKey, ChainKey
<1>4. WellFormed(InitInitiator(a, b))
  BY <1>1, <1>2, <1>3 DEF InitInitiator, IsRatchetState, WellFormed, DhKey
<1>5. WellFormed(InitResponder(a))
  BY <1>1, <1>2 DEF InitResponder, IsRatchetState, WellFormed, DhKey
<1> QED
  BY <1>4, <1>5

\* The fields of r that s has, too.
SameSending(r, s) == s.chain_send = r.chain_send /\ s.n_send = r.n_send

SameKeys(r, s) ==
    s.root_key = r.root_key /\ s.dh_self = r.dh_self /\ s.dh_remote = r.dh_remote
      /\ s.pn = r.pn

\* Advancing a chain key moves its position only.
LEMMA AdvanceFields ==
    ASSUME NEW ck \in ChainKey, NEW k \in Nat
    PROVE  /\ Advance(ck, k) \in ChainKey
           /\ Advance(ck, k).id = ck.id
           /\ Advance(ck, k).pos = ck.pos + k
BY DEF Advance, ChainKey

\* encrypt advances the sending chain and leaves the rest of the state alone.
LEMMA EncryptFields ==
    ASSUME NEW r, WellFormed(r), CanEncrypt(r)
    PROVE  LET s == EncryptState(r)
           IN  /\ WellFormed(s) /\ SameKeys(r, s)
               /\ s.chain_recv = r.chain_recv /\ s.n_recv = r.n_recv
               /\ s.skipped = r.skipped
               /\ r.chain_send \in ChainKey
               /\ s.chain_send = NextChainKey(r.chain_send)
               /\ EncryptHeader(r) \in Header
               /\ KeyOf(r.chain_send) \in MessageKey
<1>1. r.chain_send \in ChainKey
  BY DEF WellFormed, IsRatchetState, CanEncrypt
<1> DEFINE ck == NextChainKey(r.chain_send)
           n == r.n_send + 1
<1>2. EncryptState(r) = [r EXCEPT !.chain_send = ck, !.n_send = n]
  BY DEF EncryptState
<1>3. IsRatchetState(r) /\ ck \in ChainKey /\ n \in Nat
  <2>1. ck \in ChainKey
    BY <1>1, AdvanceFields DEF NextChainKey
  <2> QED BY <2>1 DEF WellFormed, IsRatchetState
<1>4. EncryptHeader(r) \in Header /\ KeyOf(r.chain_send) \in MessageKey
  BY <1>1, <1>3 DEF EncryptHeader, Header, KeyOf, ChainKey, MessageKey, IsRatchetState
<1> HIDE DEF ck, n
<1>5. LET s == EncryptState(r)
      IN  /\ IsRatchetState(s) /\ SameKeys(r, s)
          /\ s.chain_recv = r.chain_recv /\ s.n_recv = r.n_recv
          /\ s.skipped = r.skipped /\ s.chain_send = ck
  BY <1>2, <1>3 DEF IsRatchetState, SameKeys
<1>6. WellFormed(EncryptState(r))
  BY <1>5 DEF WellFormed, SameKeys
<1> QED
  BY <1>1, <1>4, <1>5, <1>6 DEF ck

\* What the loop stores is a finite set of numbers from n_recv on, and storing
\* it does not take the cache over its cap.
LEMMA StoredFits ==
    ASSUME NEW r, WellFormed(r), r.chain_recv # None, NEW until \in Nat
    PROVE  LET nums == StoredNumbers(r, until)
           IN  /\ nums \in SUBSET (r.n_recv .. (until - 1))
               /\ IsFiniteSet(nums)
               /\ IsFiniteSet({r.dh_remote} \X nums)
               /\ Cardinality(DOMAIN r.skipped \cup ({r.dh_remote} \X nums))
                    <= MAX_SKIPPED_CACHE
<1> DEFINE nums == StoredNumbers(r, until)
           d == DOMAIN r.skipped
           upto(m) == d \cup ({r.dh_remote} \X (r.n_recv .. (m - 1)))
<1>1. r.n_recv \in Nat /\ IsFiniteSet(d) /\ Cardinality(d) <= MAX_SKIPPED_CACHE
  BY DEF WellFormed, IsRatchetState, IsSkippedMap
<1>2. nums \in SUBSET (r.n_recv .. (until - 1))
  BY DEF StoredNumbers
<1>3. IsFiniteSet(nums)
  <2>1. IsFiniteSet(r.n_recv .. (until - 1))
    BY <1>1, FS_Interval
  <2> QED BY <1>2, <2>1, FS_Subset
<1>4. IsFiniteSet({r.dh_remote} \X nums)
  BY <1>3, FS_Singleton, FS_Product
<1>5. CASE nums = {}
  <2>1. d \cup ({r.dh_remote} \X nums) = d
    BY <1>5
  <2> QED BY <1>1, <1>2, <1>3, <1>4, <2>1
<1>6. CASE nums # {}
  <2>1. PICK m \in nums : \A k \in nums : k <= m
    <3>1. nums \in SUBSET Int /\ until \in Int /\ \A x \in nums : x < until
      BY <1>1, <1>2
    <3> HIDE DEF nums
    <3> QED BY <1>6, <3>1, LargestBelow
  <2>2. IsFiniteSet(upto(m))
    <3>1. m \in Int
      BY <1>1, <1>2
    <3>2. IsFiniteSet(r.n_recv .. (m - 1))
      BY <1>1, <3>1, FS_Interval
    <3>3. IsFiniteSet({r.dh_remote} \X (r.n_recv .. (m - 1)))
      BY <3>2, FS_Singleton, FS_Product
    <3> QED BY <1>1, <3>3, FS_Union
  <2>3. Cardinality(upto(m)) < MAX_SKIPPED_CACHE
    <3>1. m \in StoredNumbers(r, until)
      BY <2>1
    <3> QED BY <3>1 DEF StoredNumbers
  <2>4. /\ IsFiniteSet(upto(m) \cup {<<r.dh_remote, m>>})
        /\ Cardinality(upto(m) \cup {<<r.dh_remote, m>>}) <= MAX_SKIPPED_CACHE
    <3> DEFINE u == upto(m)
               x == <<r.dh_remote, m>>
    <3> HIDE DEF u, x
    <3>1. IsFiniteSet(u) /\ Cardinality(u) < MAX_SKIPPED_CACHE /\ Cardinality(u) \in Nat
      BY <2>2, <2>3, FS_CardinalityType DEF u
    <3>2. IsFiniteSet(u \cup {x}) /\ Cardinality(u \cup {x}) <= MAX_SKIPPED_CACHE
      BY <3>1, FS_AddElement, SkipAssumption
    <3> QED BY <3>2 DEF u, x
  <2>5. d \cup ({r.dh_remote} \X nums) \subseteq upto(m) \cup {<<r.dh_remote, m>>}
    BY <1>1, <1>2, <2>1
  <2>6. Cardinality(d \cup ({r.dh_remote} \X nums))
          <= Cardinality(upto(m) \cup {<<r.dh_remote, m>>})
    BY <2>4, <2>5, FS_Subset
  <2>7. /\ Cardinality(d \cup ({r.dh_remote} \X nums)) \in Nat
        /\ Cardinality(upto(m) \cup {<<r.dh_remote, m>>}) \in Nat
    BY <1>1, <1>4, <2>4, FS_Union, FS_CardinalityType
  <2> QED BY <1>2, <1>3, <1>4, <2>4, <2>6, <2>7, SkipAssumption
<1> QED BY <1>5, <1>6

\* The loop stores fewer keys than asked for only when the cache is full.
LEMMA StoredLessIsFull ==
    ASSUME NEW r, WellFormed(r), r.chain_recv # None, NEW until \in Nat,
           StoredNumbers(r, until) # r.n_recv .. (until - 1)
    PROVE  Cardinality(DOMAIN r.skipped \cup ({r.dh_remote} \X StoredNumbers(r, until)))
             = MAX_SKIPPED_CACHE
<1> DEFINE nums == StoredNumbers(r, until)
           d == DOMAIN r.skipped
           upto(m) == d \cup ({r.dh_remote} \X (r.n_recv .. (m - 1)))
           left == (r.n_recv .. (until - 1)) \ nums
           all == d \cup ({r.dh_remote} \X nums)
<1>1. r.n_recv \in Nat /\ IsFiniteSet(d)
  BY DEF WellFormed, IsRatchetState, IsSkippedMap
<1>2. /\ nums \in SUBSET (r.n_recv .. (until - 1))
      /\ IsFiniteSet({r.dh_remote} \X nums)
      /\ Cardinality(all) <= MAX_SKIPPED_CACHE
  BY StoredFits
<1>3. left \in SUBSET Nat /\ left # {}
  <2>1. nums # r.n_recv .. (until - 1)
    OBVIOUS
  <2> HIDE DEF nums
  <2>2. left # {}
    BY <1>2, <2>1
  <2>3. \A k \in left : k \in Nat
    BY <1>1
  <2> QED BY <2>2, <2>3
<1>4. PICK m \in left : \A k \in left : m <= k
  <2> HIDE DEF left
  <2> QED BY <1>3, SmallestOf
<1>5. upto(m) \subseteq all
  <2>1. ASSUME NEW k \in r.n_recv .. (m - 1)
        PROVE  k \in nums
    <3>1. m \in Nat /\ m \in r.n_recv .. (until - 1)
      BY <1>3, <1>4
    <3>2. k \in r.n_recv .. (until - 1) /\ ~(m <= k)
      BY <1>1, <3>1
    <3>3. k \notin left
      BY <1>4, <3>2
    <3> QED BY <3>2, <3>3
  <2> HIDE DEF nums
  <2> QED BY <2>1
<1>6. Cardinality(upto(m)) >= MAX_SKIPPED_CACHE
  <2>1. IsFiniteSet(r.n_recv .. (m - 1))
    <3>1. r.n_recv \in Int /\ m - 1 \in Int
      <4>1. m \in Nat
        BY <1>3, <1>4
      <4> QED BY <1>1, <4>1
    <3> QED BY <3>1, FS_Interval
  <2>2. IsFiniteSet({r.dh_remote} \X (r.n_recv .. (m - 1)))
    BY <2>1, FS_Singleton, FS_Product
  <2>3. IsFiniteSet(upto(m))
    BY <1>1, <2>2, FS_Union
  <2>4. Cardinality(upto(m)) \in Nat
    BY <2>3, FS_CardinalityType
  <2>5. m \in r.n_recv .. (until - 1) /\ m \notin StoredNumbers(r, until)
    BY <1>4
  <2>6. ~(Cardinality(upto(m)) < MAX_SKIPPED_CACHE)
    BY <2>5 DEF StoredNumbers
  <2> QED BY <2>4, <2>6, SkipAssumption
<1>7. IsFiniteSet(all) /\ Cardinality(all) \in Nat
  BY <1>1, <1>2, FS_Union, FS_CardinalityType
<1>8. Cardinality(upto(m)) <= Cardinality(all) /\ Cardinality(upto(m)) \in Nat
  BY <1>5, <1>7, FS_Subset, FS_CardinalityType
<1> QED BY <1>2, <1>6, <1>7, <1>8, SkipAssumption

\* Adding stored keys to the cache gives a cache.
LEMMA CacheFields ==
    ASSUME NEW r, WellFormed(r), r.chain_recv # None, NEW until \in Nat
    PROVE  LET nums == StoredNumbers(r, until)
               f == CacheNumbers(r, nums)
           IN  /\ IsSkippedMap(f)
               /\ DOMAIN f = DOMAIN r.skipped \cup ({r.dh_remote} \X nums)
               /\ \A e \in DOMAIN f :
                    f[e] = IF e \in {r.dh_remote} \X nums
                             THEN KeyAhead(r.chain_recv, e[2] - r.n_recv)
                             ELSE r.skipped[e]
               /\ Cardinality(DOMAIN f) <= MAX_SKIPPED_CACHE
<1> DEFINE nums == StoredNumbers(r, until)
           new == {r.dh_remote} \X nums
           f == CacheNumbers(r, nums)
<1>1. /\ r.n_recv \in Nat /\ r.chain_recv \in ChainKey /\ r.dh_remote \in DhKey
      /\ IsSkippedMap(r.skipped)
  BY DEF WellFormed, IsRatchetState
<1>2. /\ nums \in SUBSET (r.n_recv .. (until - 1))
      /\ IsFiniteSet(new)
      /\ Cardinality(DOMAIN r.skipped \cup new) <= MAX_SKIPPED_CACHE
  BY StoredFits
<1>3. f = [e \in DOMAIN r.skipped \cup new |->
            IF e \in new THEN KeyAhead(r.chain_recv, e[2] - r.n_recv) ELSE r.skipped[e]]
  BY DEF CacheNumbers
<1> HIDE DEF nums
<1>4. IsFiniteSet(DOMAIN r.skipped \cup new)
  BY <1>1, <1>2, FS_Union DEF IsSkippedMap
<1>5. \A e \in new : /\ e \in DhKey \X Nat
                     /\ KeyAhead(r.chain_recv, e[2] - r.n_recv) \in MessageKey
  <2> SUFFICES ASSUME NEW e \in new
               PROVE  /\ e \in DhKey \X Nat
                      /\ KeyAhead(r.chain_recv, e[2] - r.n_recv) \in MessageKey
    OBVIOUS
  <2>1. e = <<r.dh_remote, e[2]>> /\ e[2] \in nums
    OBVIOUS
  <2>2. e[2] \in Nat /\ e[2] - r.n_recv \in Nat
    BY <1>1, <1>2, <2>1
  <2>3. r.chain_recv.id \in RootKey /\ r.chain_recv.pos \in Nat
    BY <1>1 DEF ChainKey
  <2> QED BY <1>1, <2>1, <2>2, <2>3 DEF KeyAhead, MessageKey
<1> HIDE DEF new, f
<1>6. DOMAIN f = DOMAIN r.skipped \cup new
  BY <1>3
<1>7. f = [e \in DOMAIN f |-> f[e]]
  BY <1>3
<1>8. \A e \in DOMAIN f : e \in DhKey \X Nat /\ f[e] \in MessageKey
  BY <1>1, <1>3, <1>5, <1>6 DEF IsSkippedMap
<1>9. IsSkippedMap(f)
  BY <1>4, <1>6, <1>7, <1>8 DEF IsSkippedMap
<1> QED BY <1>2, <1>3, <1>6, <1>9 DEF new, f, nums

\* The two ways out of the loop of skip_message_keys.
LEMMA SkipLoopFields ==
    ASSUME NEW r, WellFormed(r), r.chain_recv # None,
           NEW until \in Nat, r.n_recv <= until
    PROVE  LET nums == StoredNumbers(r, until)
               out == SkipLoop(r, until)
               s == out.state
           IN  /\ out.ok \in BOOLEAN
               /\ WellFormed(s) /\ SameKeys(r, s) /\ SameSending(r, s)
               /\ s.skipped = CacheNumbers(r, nums)
               /\ s.n_recv = r.n_recv + Cardinality(nums)
               /\ out.ok => /\ nums = r.n_recv .. (until - 1)
                           /\ s.n_recv = until
                           /\ s.chain_recv = Advance(r.chain_recv, until - r.n_recv)
               /\ ~out.ok => s.chain_recv = r.chain_recv
<1> DEFINE nums == StoredNumbers(r, until)
           done == nums = r.n_recv .. (until - 1)
           f == CacheNumbers(r, nums)
           n == r.n_recv + Cardinality(nums)
           far == Advance(r.chain_recv, until - r.n_recv)
           ck == IF done THEN far ELSE r.chain_recv
           s == [r EXCEPT !.skipped = f, !.n_recv = n, !.chain_recv = ck]
<1>1. IsRatchetState(r) /\ r.n_recv \in Nat /\ r.chain_recv \in ChainKey
  BY DEF WellFormed, IsRatchetState
<1>2. far \in ChainKey
  BY <1>1, AdvanceFields
<1>3. SkipLoop(r, until) = Outcome(s, done)
  BY DEF SkipLoop
<1>4. IsFiniteSet(nums) /\ Cardinality(nums) \in Nat
  BY StoredFits, FS_CardinalityType
<1>5. done => n = until
  <2> SUFFICES ASSUME done
               PROVE  n = until
    OBVIOUS
  <2>1. r.n_recv \in Int /\ until - 1 \in Int
    BY <1>1
  <2>2. Cardinality(r.n_recv .. (until - 1)) =
          IF r.n_recv > until - 1 THEN 0 ELSE until - 1 - r.n_recv + 1
    BY <2>1, FS_Interval
  <2> QED BY <1>1, <2>2
<1>6. IsSkippedMap(f) /\ Cardinality(DOMAIN f) <= MAX_SKIPPED_CACHE
  BY CacheFields
<1>7. ck \in ChainKey /\ n \in Nat /\ done \in BOOLEAN
  BY <1>1, <1>2, <1>4
<1>8. (done => ck = far) /\ (~done => ck = r.chain_recv)
  OBVIOUS
<1> HIDE DEF f, n, ck, done, far, nums
<1>9. /\ IsRatchetState(s) /\ SameKeys(r, s) /\ SameSending(r, s)
      /\ s.skipped = f /\ s.n_recv = n /\ s.chain_recv = ck
  BY <1>1, <1>6, <1>7 DEF IsRatchetState, SameKeys, SameSending
<1> HIDE DEF s
<1>10. WellFormed(s)
  BY <1>6, <1>9 DEF WellFormed, SameKeys
<1>11. SkipLoop(r, until).state = s /\ SkipLoop(r, until).ok = done
  BY <1>3 DEF Outcome
<1> QED
  BY <1>5, <1>7, <1>8, <1>9, <1>10, <1>11 DEF f, n, done, far, nums
\* dh_ratchet: two new roots, a receiving chain at the first of them and a
\* sending chain at the second.
LEMMA DhRatchetFields ==
    ASSUME NEW r, WellFormed(r), NEW remote \in DhKey, NEW fresh \in DhKey
    PROVE  LET s == DhRatchet(r, remote, fresh)
           IN  /\ WellFormed(s)
               /\ Len(s.root_key) = Len(r.root_key) + 2
               /\ s.chain_recv \in ChainKey
               /\ Len(s.chain_recv.id) = Len(r.root_key) + 1
               /\ s.chain_recv.pos = 0 /\ s.n_recv = 0
               /\ s.chain_send \in ChainKey
               /\ s.chain_send.id = s.root_key /\ s.chain_send.pos = 0
               /\ s.skipped = r.skipped
               /\ s.dh_self = fresh
<1> DEFINE recvRoot == kdf_rk(r.root_key, dh(r.dh_self, remote))
           sendRoot == kdf_rk(recvRoot, dh(fresh, remote))
           cr == FirstChainKey(recvRoot)
           cs == FirstChainKey(sendRoot)
           s == [r EXCEPT !.pn = r.n_send, !.n_send = 0, !.n_recv = 0,
                          !.dh_remote = remote, !.dh_self = fresh,
                          !.root_key = sendRoot, !.chain_recv = cr, !.chain_send = cs]
<1>1. IsRatchetState(r) /\ r.root_key \in RootKey /\ r.dh_self \in DhKey /\ r.n_send \in Nat
  BY DEF WellFormed, IsRatchetState
<1>2. /\ recvRoot \in RootKey /\ Len(recvRoot) = Len(r.root_key) + 1
      /\ sendRoot \in RootKey /\ Len(sendRoot) = Len(r.root_key) + 2
  BY <1>1 DEF kdf_rk, dh, RootKey, DhKey
<1>3. DhRatchet(r, remote, fresh) = s
  BY DEF DhRatchet
<1> HIDE DEF recvRoot, sendRoot
<1>4. /\ cr \in ChainKey /\ cr.id = recvRoot /\ cr.pos = 0
      /\ cs \in ChainKey /\ cs.id = sendRoot /\ cs.pos = 0
  BY <1>2 DEF FirstChainKey, ChainKey
<1> HIDE DEF cr, cs
<1>5. /\ IsRatchetState(s)
      /\ s.root_key = sendRoot /\ s.dh_self = fresh /\ s.dh_remote = remote
      /\ s.chain_recv = cr /\ s.n_recv = 0 /\ s.chain_send = cs
      /\ s.skipped = r.skipped
  BY <1>1, <1>2, <1>4 DEF IsRatchetState
<1> HIDE DEF s
<1>6. WellFormed(s)
  BY <1>5, NoneAssumption DEF WellFormed
<1> QED BY <1>2, <1>3, <1>4, <1>5, <1>6

\* decrypt with a cached key takes the entry out of the cache.
LEMMA OpenCachedFields ==
    ASSUME NEW r, WellFormed(r), NEW entry \in DOMAIN r.skipped, NEW key
    PROVE  LET out == OpenCached(r, entry, key)
               s == out.state
           IN  /\ out.ok \in BOOLEAN /\ out.ok = (r.skipped[entry] = key)
               /\ WellFormed(s) /\ SameKeys(r, s) /\ SameSending(r, s)
               /\ s.chain_recv = r.chain_recv /\ s.n_recv = r.n_recv
               /\ DOMAIN s.skipped = DOMAIN r.skipped \ {entry}
               /\ \A e \in DOMAIN s.skipped : s.skipped[e] = r.skipped[e]
<1> DEFINE f == [e \in DOMAIN r.skipped \ {entry} |-> r.skipped[e]]
           s == [r EXCEPT !.skipped = f]
<1>1. IsRatchetState(r) /\ IsSkippedMap(r.skipped)
  BY DEF WellFormed, IsRatchetState
<1>2. OpenCached(r, entry, key) = Outcome(s, r.skipped[entry] = key)
  BY DEF OpenCached
<1>3. DOMAIN f = DOMAIN r.skipped \ {entry} /\ \A e \in DOMAIN f : f[e] = r.skipped[e]
  OBVIOUS
<1>4. IsFiniteSet(DOMAIN f) /\ Cardinality(DOMAIN f) <= MAX_SKIPPED_CACHE
  <2>1. IsFiniteSet(DOMAIN r.skipped)
    BY <1>1 DEF IsSkippedMap
  <2>2. /\ IsFiniteSet(DOMAIN f)
        /\ Cardinality(DOMAIN f) <= Cardinality(DOMAIN r.skipped)
        /\ Cardinality(DOMAIN f) \in Nat /\ Cardinality(DOMAIN r.skipped) \in Nat
    BY <1>3, <2>1, FS_Subset, FS_CardinalityType
  <2>3. Cardinality(DOMAIN r.skipped) <= MAX_SKIPPED_CACHE
    BY DEF WellFormed
  <2> QED BY <2>2, <2>3, SkipAssumption
<1>5. IsSkippedMap(f)
  BY <1>1, <1>3, <1>4 DEF IsSkippedMap
<1> HIDE DEF f
<1>6. /\ IsRatchetState(s) /\ SameKeys(r, s) /\ SameSending(r, s)
      /\ s.chain_recv = r.chain_recv /\ s.n_recv = r.n_recv /\ s.skipped = f
  BY <1>1, <1>5 DEF IsRatchetState, SameKeys, SameSending
<1> HIDE DEF s
<1>7. WellFormed(s)
  BY <1>4, <1>6 DEF WellFormed, SameKeys
<1>8. OpenCached(r, entry, key).state = s /\ OpenCached(r, entry, key).ok = (r.skipped[entry] = key)
  BY <1>2 DEF Outcome
<1>9. (r.skipped[entry] = key) \in BOOLEAN
  OBVIOUS
<1> QED BY <1>3, <1>6, <1>7, <1>8, <1>9

\* decrypt with the next key of the chain advances the chain, opened or not.
LEMMA OpenNextFields ==
    ASSUME NEW r, WellFormed(r), r.chain_recv # None, NEW key
    PROVE  LET out == OpenNext(r, key)
               s == out.state
           IN  /\ out.ok \in BOOLEAN /\ out.ok = (KeyOf(r.chain_recv) = key)
               /\ WellFormed(s) /\ SameKeys(r, s) /\ SameSending(r, s)
               /\ s.chain_recv \in ChainKey
               /\ s.chain_recv.id = r.chain_recv.id
               /\ s.chain_recv.pos = r.chain_recv.pos + 1
               /\ s.n_recv = r.n_recv + 1
               /\ s.skipped = r.skipped
<1> DEFINE ck == NextChainKey(r.chain_recv)
           n == r.n_recv + 1
           s == [r EXCEPT !.chain_recv = ck, !.n_recv = n]
<1>1. IsRatchetState(r) /\ r.chain_recv \in ChainKey /\ n \in Nat
  BY DEF WellFormed, IsRatchetState
<1>2. ck \in ChainKey /\ ck.id = r.chain_recv.id /\ ck.pos = r.chain_recv.pos + 1
  BY <1>1, AdvanceFields DEF NextChainKey
<1>3. OpenNext(r, key) = Outcome(s, KeyOf(r.chain_recv) = key)
  BY DEF OpenNext
<1> HIDE DEF ck, n
<1>4. /\ IsRatchetState(s) /\ SameKeys(r, s) /\ SameSending(r, s)
      /\ s.chain_recv = ck /\ s.n_recv = n /\ s.skipped = r.skipped
  BY <1>1, <1>2 DEF IsRatchetState, SameKeys, SameSending
<1> HIDE DEF s
<1>5. WellFormed(s)
  BY <1>4 DEF WellFormed, SameKeys
<1>6. OpenNext(r, key).state = s /\ OpenNext(r, key).ok = (KeyOf(r.chain_recv) = key)
  BY <1>3 DEF Outcome
<1>7. (KeyOf(r.chain_recv) = key) \in BOOLEAN
  OBVIOUS
<1> QED BY <1>2, <1>4, <1>5, <1>6, <1>7 DEF n
-----------------------------------------------------------------------------
(* What a ratchet that never overflowed keeps true of its keys.  Chains are *)
(* told apart by the length of the root they come from: roots only grow, a  *)
(* receiving chain hangs one below the sending chain, and both grow by two  *)
(* at a DH ratchet, so the two directions have different parities.          *)

\* The receiving side has gone past this key.
Past(r, key) ==
    /\ key \in MessageKey
    /\ Len(key[1]) < Len(r.root_key)
    /\ Len(key[1]) % 2 # Len(r.root_key) % 2
    /\ r.chain_recv # None /\ key[1] = r.chain_recv.id => key[2] < r.chain_recv.pos

\* The sending side, with the keys it has sealed with.
SendSound(r, sealed) ==
    /\ r.chain_send # None => r.chain_send.id = r.root_key
    /\ \A k \in sealed :
         /\ k \in MessageKey
         /\ Len(k[1]) <= Len(r.root_key)
         /\ Len(k[1]) % 2 = Len(r.root_key) % 2
         /\ k[1] = r.root_key => r.chain_send # None /\ k[2] < r.chain_send.pos

\* The receiving side, with the keys it has opened messages with.
RecvSound(r, opened) ==
    /\ r.chain_recv # None => /\ Len(r.chain_recv.id) + 1 = Len(r.root_key)
                             /\ r.chain_recv.pos = r.n_recv
    /\ \A k \in opened : Past(r, k)
    /\ \A e \in DOMAIN r.skipped : Past(r, r.skipped[e]) /\ r.skipped[e] \notin opened
    /\ \A e, f \in DOMAIN r.skipped : r.skipped[e] = r.skipped[f] => e = f

\* Consecutive numbers have different parity.
LEMMA NextParity ==
    ASSUME NEW n \in Nat, NEW m, m = n + 1
    PROVE  n < m /\ n % 2 # m % 2
OBVIOUS

\* Numbers two apart have the same parity.
LEMMA SameParity ==
    ASSUME NEW n \in Nat, NEW m, m = n + 2
    PROVE  n < m /\ m % 2 = n % 2
OBVIOUS

\* Either the loop of skip_message_keys ends well and the receiving side stays
\* sound, or it stores nothing, or a full cache stops it in the middle.
LEMMA SkipLoopSound ==
    ASSUME NEW r, WellFormed(r), r.chain_recv # None, NEW opened, RecvSound(r, opened),
           NEW until \in Nat, r.n_recv <= until
    PROVE  LET out == SkipLoop(r, until)
           IN  \/ RecvSound(out.state, opened)
               \/ ~out.ok /\ StoppedMidGap(out.state)
<1> DEFINE nums == StoredNumbers(r, until)
           out == SkipLoop(r, until)
           s == out.state
           new == {r.dh_remote} \X nums
           ck == r.chain_recv
<1>1. /\ out.ok \in BOOLEAN
      /\ WellFormed(s) /\ SameKeys(r, s)
      /\ s.skipped = CacheNumbers(r, nums)
      /\ s.n_recv = r.n_recv + Cardinality(nums)
      /\ out.ok => /\ nums = r.n_recv .. (until - 1)
                  /\ s.n_recv = until
                  /\ s.chain_recv = Advance(ck, until - r.n_recv)
      /\ ~out.ok => s.chain_recv = ck
  BY SkipLoopFields
<1>2. LET f == CacheNumbers(r, nums)
      IN  /\ DOMAIN f = DOMAIN r.skipped \cup new
          /\ \A e \in DOMAIN f :
                f[e] = IF e \in new THEN KeyAhead(ck, e[2] - r.n_recv) ELSE r.skipped[e]
  BY CacheFields
<1>3. /\ r.n_recv \in Nat /\ ck \in ChainKey /\ ck.pos = r.n_recv /\ ck.pos \in Nat
      /\ ck.id \in RootKey /\ r.root_key \in RootKey
      /\ Len(ck.id) + 1 = Len(r.root_key) /\ Len(ck.id) \in Nat
  BY DEF WellFormed, IsRatchetState, RecvSound, ChainKey, RootKey
<1>4. IsFiniteSet(nums) /\ nums \in SUBSET (r.n_recv .. (until - 1))
  BY StoredFits
<1>5. s.root_key = r.root_key
  BY <1>1 DEF SameKeys
<1>14. ~out.ok => Cardinality(DOMAIN r.skipped \cup new) = MAX_SKIPPED_CACHE
  <2>1. out.ok = (nums = r.n_recv .. (until - 1))
    BY DEF SkipLoop, Outcome
  <2> QED BY <2>1, StoredLessIsFull
<1> HIDE DEF out, nums, s, new, ck
<1>12. /\ DOMAIN s.skipped = DOMAIN r.skipped \cup new
       /\ \A e \in DOMAIN s.skipped :
             s.skipped[e] = IF e \in new THEN KeyAhead(ck, e[2] - r.n_recv) ELSE r.skipped[e]
  BY <1>1, <1>2
<1>13. /\ \A k \in opened : Past(r, k)
       /\ \A e \in DOMAIN r.skipped : Past(r, r.skipped[e]) /\ r.skipped[e] \notin opened
       /\ \A e, f \in DOMAIN r.skipped : r.skipped[e] = r.skipped[f] => e = f
       /\ r.chain_recv = ck /\ ck # None
  BY DEF RecvSound, ck
<1>6. CASE out.ok
  <2>1. s.chain_recv.id = ck.id /\ s.chain_recv.pos = until /\ s.n_recv = until
    <3>1. until - r.n_recv \in Nat
      BY <1>3
    <3>2. /\ Advance(ck, until - r.n_recv).id = ck.id
          /\ Advance(ck, until - r.n_recv).pos = ck.pos + (until - r.n_recv)
      BY <1>3, <3>1, AdvanceFields
    <3> QED BY <1>1, <1>3, <1>6, <3>2
  <2>2. \A k : Past(r, k) => Past(s, k)
    <3> SUFFICES ASSUME NEW k, Past(r, k)
                 PROVE  Past(s, k)
      OBVIOUS
    <3>1. /\ Len(k[1]) < Len(s.root_key) /\ Len(k[1]) % 2 # Len(s.root_key) % 2
          /\ k[1] = ck.id => k[2] < ck.pos
          /\ k \in MessageKey /\ k[2] \in Nat
      BY <1>5, <1>13 DEF Past, MessageKey
    <3>2. k[1] = s.chain_recv.id => k[2] < s.chain_recv.pos
      BY <1>3, <2>1, <3>1
    <3> QED BY <3>1, <3>2 DEF Past
  <2>3. \A e \in new : /\ e[1] = r.dh_remote /\ e = <<e[1], e[2]>>
                       /\ e[2] \in Nat /\ r.n_recv <= e[2] /\ e[2] < until
                       /\ s.skipped[e] = <<ck.id, e[2]>>
    <3> SUFFICES ASSUME NEW e \in new
                 PROVE  /\ e[1] = r.dh_remote /\ e = <<e[1], e[2]>>
                        /\ e[2] \in Nat /\ r.n_recv <= e[2] /\ e[2] < until
                        /\ s.skipped[e] = <<ck.id, e[2]>>
      OBVIOUS
    <3>1. e[1] = r.dh_remote /\ e = <<e[1], e[2]>> /\ e[2] \in nums
      BY DEF new
    <3>2. e[2] \in Nat /\ r.n_recv <= e[2] /\ e[2] < until
      BY <1>3, <1>4, <3>1
    <3>3. ck.pos + (e[2] - r.n_recv) = e[2]
      BY <1>3, <3>2
    <3>4. s.skipped[e] = <<ck.id, e[2]>>
      BY <1>12, <3>3 DEF KeyAhead
    <3> QED BY <3>1, <3>2, <3>4
  <2>4. \A e \in new : Past(s, s.skipped[e])
    <3> SUFFICES ASSUME NEW e \in new
                 PROVE  Past(s, <<ck.id, e[2]>>)
      BY <2>3
    <3>1. <<ck.id, e[2]>> \in MessageKey
      BY <1>3, <2>3 DEF MessageKey
    <3>2. Len(ck.id) < Len(s.root_key) /\ Len(ck.id) % 2 # Len(s.root_key) % 2
      <4>1. Len(s.root_key) = Len(ck.id) + 1
        BY <1>3, <1>5
      <4> QED BY <1>3, <4>1, NextParity
    <3> QED BY <2>1, <2>3, <3>1, <3>2 DEF Past
  <2>5. \A e \in new : ~Past(r, s.skipped[e])
    <3> SUFFICES ASSUME NEW e \in new, Past(r, <<ck.id, e[2]>>)
                 PROVE  FALSE
      BY <2>3
    <3>1. e[2] < ck.pos
      BY <1>13 DEF Past
    <3> QED BY <1>3, <2>3, <3>1
  <2>6. \A e \in DOMAIN s.skipped \ new : e \in DOMAIN r.skipped /\ s.skipped[e] = r.skipped[e]
    BY <1>12
  <2>7. \A e \in new, f \in DOMAIN s.skipped \ new : s.skipped[e] # s.skipped[f]
    BY <1>13, <2>5, <2>6
  <2>8. \A e, f \in new : s.skipped[e] = s.skipped[f] => e = f
    BY <2>3
  <2>9. /\ s.chain_recv # None => Len(s.chain_recv.id) + 1 = Len(s.root_key)
                                 /\ s.chain_recv.pos = s.n_recv
        /\ \A k \in opened : Past(s, k)
    BY <1>3, <1>5, <1>13, <2>1, <2>2
  <2>10. \A e \in DOMAIN s.skipped : Past(s, s.skipped[e]) /\ s.skipped[e] \notin opened
    BY <1>13, <2>2, <2>4, <2>5, <2>6
  <2>11. \A e, f \in DOMAIN s.skipped : s.skipped[e] = s.skipped[f] => e = f
    BY <1>13, <2>6, <2>7, <2>8
  <2>12. RecvSound(s, opened)
    BY <2>9, <2>10, <2>11 DEF RecvSound
  <2> QED BY <2>12 DEF s, out
<1>7. CASE ~out.ok /\ nums = {}
  <2>1. new = {} /\ Cardinality(nums) = 0
    BY <1>7, FS_EmptySet DEF new
  <2>2. s.chain_recv = r.chain_recv /\ s.n_recv = r.n_recv
    BY <1>1, <1>3, <1>7, <1>13, <2>1
  <2>3. /\ DOMAIN s.skipped = DOMAIN r.skipped
        /\ \A e \in DOMAIN r.skipped : s.skipped[e] = r.skipped[e]
    BY <1>12, <2>1
  <2>4. \A k : Past(r, k) => Past(s, k)
    BY <1>5, <2>2 DEF Past
  <2>5. RecvSound(s, opened)
    BY <1>5, <2>2, <2>3, <2>4 DEF RecvSound
  <2> QED BY <2>5 DEF s, out
<1>8. CASE ~out.ok /\ nums # {}
  <2>1. Cardinality(nums) \in Nat /\ Cardinality(nums) # 0
    BY <1>4, <1>8, FS_EmptySet, FS_CardinalityType
  <2>2. s.chain_recv = ck /\ s.n_recv # ck.pos
    BY <1>1, <1>3, <1>8, <2>1
  <2>3. Cardinality(DOMAIN s.skipped) = MAX_SKIPPED_CACHE
    BY <1>8, <1>12, <1>14 DEF new
  <2>4. ~out.ok /\ StoppedMidGap(s)
    BY <1>8, <1>13, <2>2, <2>3 DEF StoppedMidGap
  <2> QED BY <2>4 DEF s, out
<1> QED BY <1>1, <1>6, <1>7, <1>8

\* skip_message_keys: its early returns and its loop.
LEMMA SkipSound ==
    ASSUME NEW r, WellFormed(r), NEW until \in Nat
    PROVE  LET out == SkipMessageKeys(r, until)
               s == out.state
           IN  /\ out.ok \in BOOLEAN
               /\ WellFormed(s) /\ SameKeys(r, s) /\ SameSending(r, s)
               /\ \A opened : RecvSound(r, opened) =>
                     RecvSound(s, opened) \/ (~out.ok /\ StoppedMidGap(s))
<1> DEFINE out == SkipMessageKeys(r, until)
<1>1. CASE r.chain_recv = None \/ until < r.n_recv
  <2>1. out.state = r /\ out.ok = TRUE
    BY <1>1 DEF SkipMessageKeys, Outcome
  <2>2. SameKeys(r, out.state) /\ SameSending(r, out.state)
    BY <2>1 DEF SameKeys, SameSending
  <2> HIDE DEF out
  <2>3. /\ out.ok \in BOOLEAN /\ WellFormed(out.state)
        /\ \A opened : RecvSound(r, opened) => RecvSound(out.state, opened)
    BY <2>1
  <2> QED BY <2>2, <2>3 DEF out
<1>2. CASE ~(r.chain_recv = None \/ until < r.n_recv) /\ until - r.n_recv > MAX_SKIP
  <2>1. out.state = r /\ out.ok = FALSE
    BY <1>2 DEF SkipMessageKeys, Outcome
  <2>2. SameKeys(r, out.state) /\ SameSending(r, out.state)
    BY <2>1 DEF SameKeys, SameSending
  <2> HIDE DEF out
  <2>3. /\ out.ok \in BOOLEAN /\ WellFormed(out.state)
        /\ \A opened : RecvSound(r, opened) => RecvSound(out.state, opened)
    BY <2>1
  <2> QED BY <2>2, <2>3 DEF out
<1>3. CASE ~(r.chain_recv = None \/ until < r.n_recv) /\ ~(until - r.n_recv > MAX_SKIP)
  <2>1. out = SkipLoop(r, until)
    BY <1>3 DEF SkipMessageKeys
  <2>2. r.chain_recv # None /\ r.n_recv <= until
    <3>1. r.n_recv \in Nat
      BY DEF WellFormed, IsRatchetState
    <3> QED BY <1>3, <3>1
  <2>3. /\ out.ok \in BOOLEAN
        /\ WellFormed(out.state) /\ SameKeys(r, out.state) /\ SameSending(r, out.state)
    BY <2>1, <2>2, SkipLoopFields
  <2>4. ASSUME NEW opened, RecvSound(r, opened)
        PROVE  RecvSound(out.state, opened) \/ (~out.ok /\ StoppedMidGap(out.state))
    BY <2>1, <2>2, <2>4, SkipLoopSound
  <2> QED BY <2>3, <2>4
<1> QED BY <1>1, <1>2, <1>3

\* A DH ratchet starts both chains afresh, beyond every key used before.
LEMMA DhRatchetSound ==
    ASSUME NEW r, WellFormed(r), NEW remote \in DhKey, NEW fresh \in DhKey
    PROVE  LET s == DhRatchet(r, remote, fresh)
           IN  /\ WellFormed(s)
               /\ Len(s.root_key) % 2 = Len(r.root_key) % 2
               /\ \A sealed : SendSound(r, sealed) => SendSound(s, sealed)
               /\ \A opened : RecvSound(r, opened) => RecvSound(s, opened)
<1> DEFINE s == DhRatchet(r, remote, fresh)
           n == Len(r.root_key)
<1>1. /\ WellFormed(s)
      /\ Len(s.root_key) = n + 2
      /\ Len(s.chain_recv.id) = n + 1
      /\ s.chain_recv.pos = 0 /\ s.n_recv = 0
      /\ s.chain_send \in ChainKey
      /\ s.chain_send.id = s.root_key
      /\ s.skipped = r.skipped
  BY DhRatchetFields
<1>2. n \in Nat
  BY DEF WellFormed, IsRatchetState, RootKey
<1>3. n < Len(s.root_key) /\ Len(s.root_key) % 2 = n % 2
  BY <1>1, <1>2, SameParity
<1> HIDE DEF s
<1>4. ASSUME NEW sealed, SendSound(r, sealed)
      PROVE  SendSound(s, sealed)
  <2>1. ASSUME NEW k \in sealed
        PROVE  /\ k \in MessageKey
               /\ Len(k[1]) <= Len(s.root_key)
               /\ Len(k[1]) % 2 = Len(s.root_key) % 2
               /\ k[1] # s.root_key
    <3>1. k \in MessageKey /\ Len(k[1]) <= n /\ Len(k[1]) % 2 = n % 2
      BY <1>4, <2>1 DEF SendSound
    <3>2. Len(k[1]) \in Nat
      BY <3>1 DEF MessageKey, RootKey
    <3>3. Len(k[1]) <= Len(s.root_key) /\ Len(k[1]) # Len(s.root_key)
      BY <1>1, <1>2, <3>1, <3>2
    <3> QED BY <1>3, <3>1, <3>3
  <2> QED BY <1>1, <2>1 DEF SendSound
<1>5. ASSUME NEW opened, RecvSound(r, opened)
      PROVE  RecvSound(s, opened)
  <2>1. ASSUME NEW k, Past(r, k)
        PROVE  Past(s, k)
    <3>1. k \in MessageKey /\ Len(k[1]) < n /\ Len(k[1]) % 2 # n % 2
      BY <2>1 DEF Past
    <3>2. Len(k[1]) \in Nat
      BY <3>1 DEF MessageKey, RootKey
    <3>3. Len(k[1]) < Len(s.root_key) /\ k[1] # s.chain_recv.id
      BY <1>1, <1>2, <3>1, <3>2
    <3> QED BY <1>3, <3>1, <3>3 DEF Past
  <2>2. Len(s.chain_recv.id) + 1 = Len(s.root_key) /\ s.chain_recv.pos = s.n_recv
    BY <1>1, <1>2
  <2> QED BY <1>1, <1>5, <2>1, <2>2 DEF RecvSound
<1>6. Len(s.root_key) % 2 = Len(r.root_key) % 2
  BY <1>3
<1> QED BY <1>1, <1>4, <1>5, <1>6 DEF s

\* A cached key opens at most one message: it leaves the cache.
LEMMA OpenCachedSound ==
    ASSUME NEW r, WellFormed(r), NEW entry \in DOMAIN r.skipped, NEW key,
           NEW opened, RecvSound(r, opened)
    PROVE  LET out == OpenCached(r, entry, key)
           IN  /\ out.ok => key \notin opened /\ RecvSound(out.state, opened \cup {key})
               /\ ~out.ok => RecvSound(out.state, opened)
<1> DEFINE out == OpenCached(r, entry, key)
           s == out.state
<1>1. /\ out.ok = (r.skipped[entry] = key)
      /\ SameKeys(r, s)
      /\ s.chain_recv = r.chain_recv /\ s.n_recv = r.n_recv
      /\ DOMAIN s.skipped = DOMAIN r.skipped \ {entry}
      /\ \A e \in DOMAIN s.skipped : s.skipped[e] = r.skipped[e]
  BY OpenCachedFields
<1> HIDE DEF out, s
<1>2. \A k : Past(r, k) => Past(s, k)
  BY <1>1 DEF Past, SameKeys
<1>3. RecvSound(s, opened)
  BY <1>1, <1>2 DEF RecvSound, SameKeys
<1>4. ASSUME out.ok
      PROVE  key \notin opened /\ RecvSound(s, opened \cup {key})
  <2>1. key = r.skipped[entry]
    BY <1>1, <1>4
  <2>2. key \notin opened /\ Past(s, key)
    BY <1>2, <2>1 DEF RecvSound
  <2>3. \A e \in DOMAIN s.skipped : s.skipped[e] # key
    BY <1>1, <2>1 DEF RecvSound
  <2> QED BY <1>3, <2>2, <2>3 DEF RecvSound
<1> QED BY <1>3, <1>4 DEF s, out

\* So does the next key of the receiving chain: the chain goes past it.
LEMMA OpenNextSound ==
    ASSUME NEW r, WellFormed(r), r.chain_recv # None, NEW key,
           NEW opened, RecvSound(r, opened)
    PROVE  LET out == OpenNext(r, key)
           IN  /\ out.ok => key \notin opened /\ RecvSound(out.state, opened \cup {key})
               /\ ~out.ok => RecvSound(out.state, opened)
<1> DEFINE out == OpenNext(r, key)
           s == out.state
           ck == r.chain_recv
<1>1. /\ out.ok = (KeyOf(ck) = key)
      /\ SameKeys(r, s)
      /\ s.chain_recv \in ChainKey
      /\ s.chain_recv.id = ck.id
      /\ s.chain_recv.pos = ck.pos + 1
      /\ s.n_recv = r.n_recv + 1
      /\ s.skipped = r.skipped
  BY OpenNextFields
<1>2. /\ ck \in ChainKey /\ ck.id \in RootKey /\ ck.pos \in Nat /\ Len(ck.id) \in Nat
      /\ Len(r.root_key) = Len(ck.id) + 1 /\ ck.pos = r.n_recv
  BY DEF WellFormed, IsRatchetState, RecvSound, ChainKey, RootKey
<1> HIDE DEF out, s
<1>3. s.root_key = r.root_key
  BY <1>1 DEF SameKeys
<1>4. ASSUME NEW k, Past(r, k)
      PROVE  Past(s, k) /\ k # KeyOf(ck)
  <2>1. /\ k \in MessageKey /\ k[2] \in Nat
        /\ Len(k[1]) < Len(s.root_key) /\ Len(k[1]) % 2 # Len(s.root_key) % 2
        /\ k[1] = ck.id => k[2] < ck.pos
    BY <1>3, <1>4 DEF Past, MessageKey
  <2>2. k[1] = s.chain_recv.id => k[2] < s.chain_recv.pos
    BY <1>1, <1>2, <2>1
  <2>3. k # KeyOf(ck)
    BY <1>2, <2>1 DEF KeyOf
  <2> QED BY <2>1, <2>2, <2>3 DEF Past
<1>5. Past(s, KeyOf(ck))
  <2>1. KeyOf(ck) \in MessageKey /\ KeyOf(ck)[1] = ck.id /\ KeyOf(ck)[2] = ck.pos
    BY <1>2 DEF KeyOf, MessageKey
  <2>2. Len(ck.id) < Len(s.root_key) /\ Len(ck.id) % 2 # Len(s.root_key) % 2
    BY <1>2, <1>3, NextParity
  <2>3. ck.pos < s.chain_recv.pos
    BY <1>1, <1>2
  <2> QED BY <2>1, <2>2, <2>3 DEF Past
<1>6. Len(s.chain_recv.id) + 1 = Len(s.root_key) /\ s.chain_recv.pos = s.n_recv
  BY <1>1, <1>2, <1>3
<1>7. RecvSound(s, opened)
  BY <1>1, <1>4, <1>6 DEF RecvSound
<1>8. ASSUME out.ok
      PROVE  key \notin opened /\ RecvSound(s, opened \cup {key})
  <2>1. key = KeyOf(ck)
    BY <1>1, <1>8
  <2>2. key \notin opened /\ \A e \in DOMAIN s.skipped : s.skipped[e] # key
    BY <1>1, <1>4, <2>1 DEF RecvSound
  <2> QED BY <1>5, <1>7, <2>1, <2>2 DEF RecvSound
<1> QED BY <1>7, <1>8 DEF s, out

\* What every call of decrypt keeps, whatever it returns: a well-formed state
\* in which the keys sealed before are still behind the sending chain.
Keeps(r, s) ==
    /\ WellFormed(s)
    /\ Len(s.root_key) % 2 = Len(r.root_key) % 2
    /\ \A sealed : SendSound(r, sealed) => SendSound(s, sealed)

\* A step that moves no chain and no counter of the sending side keeps it sound.
LEMMA SameKeeps ==
    ASSUME NEW r, NEW s, WellFormed(s), SameKeys(r, s), SameSending(r, s)
    PROVE  Keeps(r, s)
<1>1. ASSUME NEW sealed, SendSound(r, sealed)
      PROVE  SendSound(s, sealed)
  BY <1>1 DEF SendSound, SameKeys, SameSending
<1> QED BY <1>1 DEF Keeps, SameKeys

\* Step 2 of decrypt, with or without a DH ratchet.
LEMMA TurnRatchetSound ==
    ASSUME NEW r, WellFormed(r), NEW h \in Header, NEW fresh \in DhKey
    PROVE  LET out == TurnRatchet(r, h, fresh)
           IN  /\ out.ok \in BOOLEAN
               /\ Keeps(r, out.state)
               /\ \A opened : RecvSound(r, opened) =>
                     RecvSound(out.state, opened) \/ (~out.ok /\ StoppedMidGap(out.state))
<1> DEFINE out == TurnRatchet(r, h, fresh)
           skip == SkipMessageKeys(r, h.pn)
           s == DhRatchet(skip.state, h.dh_pub, fresh)
<1>1. h.pn \in Nat /\ h.dh_pub \in DhKey
  BY DEF Header
<1>2. /\ skip.ok \in BOOLEAN
      /\ WellFormed(skip.state) /\ SameKeys(r, skip.state) /\ SameSending(r, skip.state)
      /\ \A opened : RecvSound(r, opened) =>
            RecvSound(skip.state, opened) \/ (~skip.ok /\ StoppedMidGap(skip.state))
  BY <1>1, SkipSound
<1>3. Keeps(r, skip.state)
  BY <1>2, SameKeeps
<1>4. /\ Keeps(skip.state, s)
      /\ \A opened : RecvSound(skip.state, opened) => RecvSound(s, opened)
  BY <1>1, <1>2, DhRatchetSound DEF Keeps
<1>5. Keeps(r, s)
  BY <1>3, <1>4 DEF Keeps
<1>6. Keeps(r, r)
  BY SameKeeps DEF SameKeys, SameSending
<1>7. \/ out = Outcome(r, TRUE)
      \/ skip.ok /\ out = Outcome(s, TRUE)
      \/ ~skip.ok /\ out = skip
  BY DEF TurnRatchet
<1> HIDE DEF out, skip, s
<1>8. CASE out = Outcome(r, TRUE)
  <2>1. out.state = r /\ out.ok = TRUE
    BY <1>8 DEF Outcome
  <2> QED BY <1>6, <2>1 DEF out
<1>9. CASE skip.ok /\ out = Outcome(s, TRUE)
  <2>1. out.state = s /\ out.ok = TRUE
    BY <1>9 DEF Outcome
  <2>2. \A opened : RecvSound(r, opened) => RecvSound(s, opened)
    BY <1>2, <1>4, <1>9
  <2> QED BY <1>5, <2>1, <2>2 DEF out
<1>10. CASE ~skip.ok /\ out = skip
  BY <1>2, <1>3, <1>10 DEF out
<1> QED BY <1>7, <1>8, <1>9, <1>10

\* decrypt.  If it returns a plaintext the key was not one used before, and
\* the state knows it as used; if it fails the state is as sound as it was,
\* or a full cache has left the chain out of step.
LEMMA DecryptSound ==
    ASSUME NEW r, WellFormed(r), NEW h \in Header, NEW key, NEW fresh \in DhKey
    PROVE  LET out == Decrypt(r, h, key, fresh)
           IN  /\ out.ok \in BOOLEAN
               /\ Keeps(r, out.state)
               /\ \A opened : RecvSound(r, opened) =>
                     \/ out.ok /\ key \notin opened /\ RecvSound(out.state, opened \cup {key})
                     \/ ~out.ok /\ (StoppedMidGap(out.state) \/ RecvSound(out.state, opened))
<1> DEFINE entry == <<h.dh_pub, h.n>>
           out == Decrypt(r, h, key, fresh)
           cached == OpenCached(r, entry, key)
           turned == TurnRatchet(r, h, fresh)
           ready == SkipMessageKeys(turned.state, h.n)
           last == OpenNext(ready.state, key)
           Good(o, q) == \A opened : RecvSound(q, opened) =>
                     \/ o.ok /\ key \notin opened /\ RecvSound(o.state, opened \cup {key})
                     \/ ~o.ok /\ (StoppedMidGap(o.state) \/ RecvSound(o.state, opened))
<1>1. \/ entry \in DOMAIN r.skipped /\ out = cached
      \/ ~turned.ok /\ out = turned
      \/ turned.ok /\ ~ready.ok /\ out = ready
      \/ turned.ok /\ ready.ok /\ out = last
  BY DEF Decrypt
<1>2. h.n \in Nat
  BY DEF Header
<1>3. /\ turned.ok \in BOOLEAN
      /\ Keeps(r, turned.state)
      /\ \A opened : RecvSound(r, opened) =>
            RecvSound(turned.state, opened) \/ (~turned.ok /\ StoppedMidGap(turned.state))
  BY TurnRatchetSound
<1>4. WellFormed(turned.state)
  BY <1>3 DEF Keeps
<1>5. /\ ready.ok \in BOOLEAN
      /\ WellFormed(ready.state)
      /\ SameKeys(turned.state, ready.state) /\ SameSending(turned.state, ready.state)
      /\ \A opened : RecvSound(turned.state, opened) =>
            RecvSound(ready.state, opened) \/ (~ready.ok /\ StoppedMidGap(ready.state))
  BY <1>2, <1>4, SkipSound
<1>6. Keeps(r, ready.state)
  <2>1. Keeps(turned.state, ready.state)
    BY <1>5, SameKeeps
  <2> QED BY <1>3, <2>1 DEF Keeps
<1>7. /\ last.ok \in BOOLEAN
      /\ Keeps(r, last.state)
      /\ Good(last, ready.state)
  <2>1. CASE ready.state.chain_recv = None
    <3>1. last.state = ready.state /\ last.ok = FALSE
      BY <2>1 DEF OpenNext, Outcome
    <3> HIDE DEF last, ready
    <3> QED BY <1>6, <3>1
  <2>2. CASE ready.state.chain_recv # None
    <3>1. /\ last.ok \in BOOLEAN
          /\ WellFormed(last.state)
          /\ SameKeys(ready.state, last.state) /\ SameSending(ready.state, last.state)
      BY <1>5, <2>2, OpenNextFields
    <3>2. Keeps(ready.state, last.state)
      BY <3>1, SameKeeps
    <3>3. ASSUME NEW opened, RecvSound(ready.state, opened)
          PROVE  /\ last.ok => key \notin opened /\ RecvSound(last.state, opened \cup {key})
                 /\ ~last.ok => RecvSound(last.state, opened)
      BY <1>5, <2>2, <3>3, OpenNextSound
    <3> HIDE DEF last, ready
    <3> QED BY <1>6, <3>1, <3>2, <3>3 DEF Keeps
  <2> QED BY <2>1, <2>2
<1>8. CASE entry \in DOMAIN r.skipped /\ out = cached
  <2>1. /\ cached.ok \in BOOLEAN
        /\ WellFormed(cached.state)
        /\ SameKeys(r, cached.state) /\ SameSending(r, cached.state)
    BY <1>8, OpenCachedFields
  <2>2. Keeps(r, cached.state)
    BY <2>1, SameKeeps
  <2>3. ASSUME NEW opened, RecvSound(r, opened)
        PROVE  /\ cached.ok => key \notin opened /\ RecvSound(cached.state, opened \cup {key})
               /\ ~cached.ok => RecvSound(cached.state, opened)
    BY <1>8, <2>3, OpenCachedSound
  <2> HIDE DEF cached, out
  <2>4. Good(cached, r)
    BY <2>1, <2>3
  <2>5. out.ok \in BOOLEAN /\ Keeps(r, out.state) /\ Good(out, r)
    BY <1>8, <2>1, <2>2, <2>4
  <2> QED BY <2>5 DEF out
<1> HIDE DEF out, turned, ready, last
<1>9. CASE ~turned.ok /\ out = turned
  <2>1. Good(out, r)
    BY <1>3, <1>9
  <2> QED BY <1>3, <1>9, <2>1 DEF out
<1>10. CASE turned.ok /\ ~ready.ok /\ out = ready
  <2>1. Good(out, r)
    BY <1>3, <1>5, <1>10
  <2> QED BY <1>5, <1>6, <1>10, <2>1 DEF out
<1>11. CASE turned.ok /\ ready.ok /\ out = last
  <2>1. Good(out, r)
    BY <1>3, <1>5, <1>7, <1>11
  <2> QED BY <1>7, <1>11, <2>1 DEF out
<1> QED BY <1>1, <1>8, <1>9, <1>10, <1>11

-----------------------------------------------------------------------------
(* The inductive invariant of the conversation.                            *)

\* The keys of the messages p has sealed, and of those it has opened.
SealedKeys(p) == {wire[p][i].key : i \in 1 .. Len(wire[p])}

OpenedKeys(p) ==
    {wire[Peer(p)][i].key :
        i \in {j \in 1 .. Len(wire[Peer(p)]) : wire[Peer(p)][j].accepts > 0}}

\* Roots have an odd length at the initiator and an even one at the responder.
RootParity(p) == IF p = Initiator THEN 1 ELSE 0

SendInv ==
    \A p \in Party :
        /\ p \notin established => wire[p] = <<>> /\ OpenedKeys(p) = {}
        /\ SendSound(ratchet[p], SealedKeys(p))
        /\ p \in established => Len(ratchet[p].root_key) % 2 = RootParity(p)

RecvInv ==
    \A p \in Party \ overflowed : RecvSound(ratchet[p], OpenedKeys(p))

\* One party never seals twice with one key.
SealedOnce ==
    \A p \in Party : \A i, j \in 1 .. Len(wire[p]) :
        wire[p][i].key = wire[p][j].key => i = j

IInv ==
    /\ TypeOK
    /\ \A p \in Party : WellFormed(ratchet[p])
    /\ SendInv
    /\ RecvInv
    /\ NoReplay
    /\ SealedOnce

\* Peer is an involution on the two parties.
LEMMA PeerFacts ==
    ASSUME NEW p \in Party
    PROVE  /\ Peer(p) \in Party /\ Peer(p) # p /\ Peer(Peer(p)) = p
           /\ \A q \in Party : q # p => q = Peer(p)
BY PartyAssumption DEF Party, Peer

\* What handing a message over changes: two counters of that message.
LEMMA HandedFacts ==
    ASSUME TypeOK, NEW p \in Party, NEW i \in 1 .. Len(wire[Peer(p)]),
           NEW opened \in BOOLEAN, Handed(p, i, opened)
    PROVE  /\ wire' \in [Party -> Seq(Envelope)]
           /\ \A q \in Party : Len(wire'[q]) = Len(wire[q])
           /\ \A q \in Party : \A j \in 1 .. Len(wire[q]) :
                /\ wire'[q][j].key = wire[q][j].key
                /\ wire'[q][j].accepts =
                     IF q = Peer(p) /\ j = i /\ opened THEN wire[q][j].accepts + 1
                                                       ELSE wire[q][j].accepts
<1> DEFINE z == Peer(p)
           m == wire[z][i]
           c == m.copies + 1
           a == IF opened THEN m.accepts + 1 ELSE m.accepts
           new == Counted(m, opened)
           w == [wire[z] EXCEPT ![i] = new]
<1>1. z \in Party /\ wire \in [Party -> Seq(Envelope)] /\ wire[z] \in Seq(Envelope)
  BY PeerFacts DEF TypeOK
<1>2. m \in Envelope
  BY <1>1
<1>3. c \in Nat /\ a \in Nat
  BY <1>2 DEF Envelope
<1>4. wire' = [wire EXCEPT ![z] = w]
  BY DEF Handed
<1>12. new = [m EXCEPT !.copies = c, !.accepts = a]
  BY DEF Counted
<1> HIDE DEF c, a, new
<1>5. new \in Envelope /\ new.key = m.key /\ new.accepts = a
  BY <1>2, <1>3, <1>12 DEF Envelope
<1>6. w \in Seq(Envelope) /\ Len(w) = Len(wire[z])
  BY <1>1, <1>5
<1>7. \A j \in 1 .. Len(wire[z]) : w[j] = IF j = i THEN new ELSE wire[z][j]
  BY <1>1
<1> HIDE DEF w, m, z
<1>8. wire'[z] = w /\ \A q \in Party : q # z => wire'[q] = wire[q]
  BY <1>1, <1>4
<1>9. wire' \in [Party -> Seq(Envelope)]
  BY <1>1, <1>4, <1>6
<1>10. \A q \in Party : Len(wire'[q]) = Len(wire[q])
  BY <1>6, <1>8
<1>11. \A j \in 1 .. Len(wire[z]) :
          /\ wire'[z][j].key = wire[z][j].key
          /\ wire'[z][j].accepts = IF j = i /\ opened THEN wire[z][j].accepts + 1
                                                      ELSE wire[z][j].accepts
  BY <1>5, <1>7, <1>8 DEF m, a
<1> QED BY <1>8, <1>9, <1>10, <1>11 DEF z

\* So the keys sealed stay, and the key of the message joins those opened.
LEMMA HandedKeys ==
    ASSUME TypeOK, NEW p \in Party, NEW i \in 1 .. Len(wire[Peer(p)]),
           NEW opened \in BOOLEAN, Handed(p, i, opened)
    PROVE  /\ \A q \in Party : SealedKeys(q)' = SealedKeys(q)
           /\ OpenedKeys(p)' = OpenedKeys(p) \cup
                 (IF opened THEN {wire[Peer(p)][i].key} ELSE {})
           /\ OpenedKeys(Peer(p))' = OpenedKeys(Peer(p))
<1>1. /\ \A q \in Party : Len(wire'[q]) = Len(wire[q])
      /\ \A q \in Party : \A j \in 1 .. Len(wire[q]) :
           /\ wire'[q][j].key = wire[q][j].key
           /\ wire'[q][j].accepts =
                IF q = Peer(p) /\ j = i /\ opened THEN wire[q][j].accepts + 1
                                                  ELSE wire[q][j].accepts
  BY HandedFacts
<1>2. \A q \in Party : \A j \in 1 .. Len(wire[q]) : wire[q][j].accepts \in Nat
  <2> SUFFICES ASSUME NEW q \in Party, NEW j \in 1 .. Len(wire[q])
               PROVE  wire[q][j].accepts \in Nat
    OBVIOUS
  <2>1. wire[q] \in Seq(Envelope)
    BY DEF TypeOK
  <2>2. wire[q][j] \in Envelope
    BY <2>1
  <2> QED BY <2>2 DEF Envelope
<1>3. Peer(p) \in Party /\ Peer(p) # p /\ Peer(Peer(p)) = p
  BY PeerFacts
<1>4. \A q \in Party : SealedKeys(q)' = SealedKeys(q)
  <2> SUFFICES ASSUME NEW q \in Party
               PROVE  {wire'[q][j].key : j \in 1 .. Len(wire'[q])} = {wire[q][j].key : j \in 1 .. Len(wire[q])}
    BY DEF SealedKeys
  <2>1. Len(wire'[q]) = Len(wire[q]) /\ \A j \in 1 .. Len(wire[q]) : wire'[q][j].key = wire[q][j].key
    BY <1>1
  <2> QED BY <2>1
<1>5. OpenedKeys(Peer(p))' = OpenedKeys(Peer(p))
  <2>1. \A j \in 1 .. Len(wire[p]) : wire'[p][j].accepts = wire[p][j].accepts
    BY <1>1, <1>3
  <2> DEFINE Old == {j \in 1 .. Len(wire[p]) : wire[p][j].accepts > 0}
  <2>2. OpenedKeys(Peer(p)) = {wire[p][j].key : j \in Old}
    BY <1>3 DEF OpenedKeys
  <2>3. OpenedKeys(Peer(p))' = {wire'[p][j].key : j \in Old}
    <3>1. OpenedKeys(Peer(p))' =
            {wire'[p][j].key : j \in {k \in 1 .. Len(wire'[p]) : wire'[p][k].accepts > 0}}
      BY <1>3, Zenon DEF OpenedKeys
    <3>2. {k \in 1 .. Len(wire'[p]) : wire'[p][k].accepts > 0} = Old
      BY <1>1, <2>1
    <3> HIDE DEF Old
    <3> QED BY <3>1, <3>2
  <2>4. \A j \in Old : wire'[p][j].key = wire[p][j].key
    BY <1>1
  <2> HIDE DEF Old
  <2> QED BY <2>2, <2>3, <2>4
<1>6. OpenedKeys(p)' = OpenedKeys(p) \cup (IF opened THEN {wire[Peer(p)][i].key} ELSE {})
  <2> DEFINE z == Peer(p)
             Old == {j \in 1 .. Len(wire[z]) : wire[z][j].accepts > 0}
             New == {j \in 1 .. Len(wire[z]) : wire'[z][j].accepts > 0}
  <2>1. New = Old \cup (IF opened THEN {i} ELSE {})
    BY <1>1, <1>2, <1>3
  <2>2. OpenedKeys(p) = {wire[z][j].key : j \in Old}
    BY DEF OpenedKeys
  <2>3. OpenedKeys(p)' = {wire[z][j].key : j \in New}
    <3>1. OpenedKeys(p)' =
            {wire'[z][j].key : j \in {k \in 1 .. Len(wire'[z]) : wire'[z][k].accepts > 0}}
      BY DEF OpenedKeys
    <3>2. /\ {k \in 1 .. Len(wire'[z]) : wire'[z][k].accepts > 0} = New
          /\ \A j \in New : wire'[z][j].key = wire[z][j].key
      BY <1>1, <1>3
    <3> HIDE DEF New
    <3> QED BY <3>1, <3>2
  <2> HIDE DEF New, Old
  <2> QED BY <2>1, <2>2, <2>3
<1> QED BY <1>4, <1>5, <1>6

\* Fresh ratchets have nothing to be unsound about.
LEMMA FreshSound ==
    ASSUME NEW a \in DhKey, NEW b \in DhKey
    PROVE  /\ SendSound(InitInitiator(a, b), {}) /\ RecvSound(InitInitiator(a, b), {})
           /\ SendSound(InitResponder(a), {}) /\ RecvSound(InitResponder(a), {})
           /\ Len(InitInitiator(a, b).root_key) % 2 = RootParity(Initiator)
           /\ Len(InitResponder(a).root_key) % 2 = RootParity(Responder)
<1>1. DOMAIN NoKeys = {}
  BY DEF NoKeys
<1>2. Len(kdf_rk(<<>>, dh(b, a))) = 1
  BY DEF kdf_rk, dh
<1>3. 1 % 2 = 1 /\ 0 % 2 = 0
  OBVIOUS
<1>4. SendSound(InitInitiator(a, b), {}) /\ RecvSound(InitInitiator(a, b), {})
  BY <1>1 DEF SendSound, RecvSound, InitInitiator, FirstChainKey
<1>5. SendSound(InitResponder(a), {}) /\ RecvSound(InitResponder(a), {})
  BY <1>1 DEF SendSound, RecvSound, InitResponder
<1>6. Len(InitInitiator(a, b).root_key) % 2 = RootParity(Initiator)
  BY <1>2, <1>3 DEF InitInitiator, RootParity
<1>7. Len(InitResponder(a).root_key) % 2 = RootParity(Responder)
  BY <1>3, PartyAssumption DEF InitResponder, RootParity
<1> QED BY <1>4, <1>5, <1>6, <1>7

\* The invariant holds before anybody has a session.
LEMMA InitIInv == Init => IInv
<1> SUFFICES ASSUME Init
             PROVE  IInv
  OBVIOUS
<1>1. \A p \in Party : /\ ratchet[p] = InitResponder(SPK)
                       /\ wire[p] = <<>> /\ Peer(p) \in Party
  BY PeerFacts DEF Init
<1>2. SPK \in DhKey /\ nextDh \in DhKey
  BY DEF Init, SPK, DhKey
<1>3. \A p \in Party : WellFormed(ratchet[p])
  BY <1>1, <1>2, InitWellFormed
<1>4. TypeOK
  BY <1>2, <1>3 DEF Init, TypeOK, WellFormed
<1>5. \A p \in Party : SealedKeys(p) = {} /\ OpenedKeys(p) = {}
  BY <1>1 DEF SealedKeys, OpenedKeys
<1>6. SendInv /\ RecvInv
  BY <1>1, <1>2, <1>5, FreshSound DEF SendInv, RecvInv, Init
<1>7. NoReplay /\ SealedOnce
  BY <1>1 DEF NoReplay, SealedOnce
<1> QED BY <1>3, <1>4, <1>6, <1>7 DEF IInv

\* Session::initiate.
LEMMA InitiateIInv ==
    ASSUME IInv, Initiate
    PROVE  IInv'
<1> DEFINE new == InitInitiator(SPK, nextDh)
<1>1. Initiator \in Party /\ SPK \in DhKey /\ nextDh \in DhKey /\ DOMAIN ratchet = Party
  BY DEF IInv, TypeOK, Party, SPK, DhKey
<1>2. WellFormed(new)
  BY <1>1, InitWellFormed
<1>3. /\ ratchet' = [ratchet EXCEPT ![Initiator] = new]
      /\ wire' = wire /\ overflowed' = overflowed
      /\ Initiator \notin established /\ established' = established \cup {Initiator}
  BY DEF Initiate
<1> HIDE DEF new
<1>4. /\ DOMAIN ratchet' = Party /\ ratchet'[Initiator] = new
      /\ \A p \in Party : p # Initiator => ratchet'[p] = ratchet[p]
  BY <1>1, <1>3
<1>5. \A p \in Party : WellFormed(ratchet'[p])
  BY <1>2, <1>4 DEF IInv
<1>6. TypeOK'
  <2>1. /\ established' \in SUBSET Party /\ nextDh' \in DhKey
        /\ pending' \in [Party -> BOOLEAN]
    BY <1>1 DEF Initiate, IInv, TypeOK, DhKey
  <2> QED BY <1>4, <1>5, <2>1 DEF Initiate, IInv, TypeOK, WellFormed
<1>7. \A p \in Party : SealedKeys(p)' = SealedKeys(p) /\ OpenedKeys(p)' = OpenedKeys(p)
  BY <1>3 DEF SealedKeys, OpenedKeys
<1>8. SealedKeys(Initiator) = {} /\ OpenedKeys(Initiator) = {}
  <2>1. wire[Initiator] = <<>> /\ OpenedKeys(Initiator) = {}
    BY <1>1, <1>3 DEF IInv, SendInv
  <2> QED BY <2>1 DEF SealedKeys
<1>9. /\ SendSound(new, {}) /\ RecvSound(new, {})
      /\ Len(new.root_key) % 2 = RootParity(Initiator)
  BY <1>1, FreshSound DEF new
<1>10. SendInv'
  <2> SUFFICES ASSUME NEW p \in Party
               PROVE  /\ p \notin established' => wire'[p] = <<>> /\ OpenedKeys(p)' = {}
                      /\ SendSound(ratchet'[p], SealedKeys(p)')
                      /\ p \in established' => Len(ratchet'[p].root_key) % 2 = RootParity(p)
    BY DEF SendInv
  <2>1. CASE p = Initiator
    BY <1>3, <1>4, <1>7, <1>8, <1>9, <2>1
  <2>2. CASE p # Initiator
    BY <1>3, <1>4, <1>7, <2>2 DEF IInv, SendInv
  <2> QED BY <2>1, <2>2
<1>11. RecvInv'
  BY <1>3, <1>4, <1>7, <1>8, <1>9 DEF IInv, RecvInv
<1>12. NoReplay' /\ SealedOnce'
  BY <1>3 DEF IInv, NoReplay, SealedOnce
<1> QED BY <1>5, <1>6, <1>10, <1>11, <1>12 DEF IInv

\* DoubleRatchet::encrypt uses a key beyond all those the state has sealed with,
\* and moves nothing on the receiving side.
LEMMA EncryptSound ==
    ASSUME NEW r, WellFormed(r), CanEncrypt(r), NEW sealed, SendSound(r, sealed)
    PROVE  LET s == EncryptState(r)
               key == KeyOf(r.chain_send)
           IN  /\ key \notin sealed /\ key[1] = r.root_key
               /\ s.root_key = r.root_key
               /\ SendSound(s, sealed \cup {key})
               /\ \A opened : RecvSound(r, opened) => RecvSound(s, opened)
<1> DEFINE s == EncryptState(r)
           key == KeyOf(r.chain_send)
<1>1. /\ WellFormed(s) /\ SameKeys(r, s)
      /\ s.chain_recv = r.chain_recv /\ s.n_recv = r.n_recv
      /\ s.skipped = r.skipped
      /\ r.chain_send \in ChainKey
      /\ s.chain_send = NextChainKey(r.chain_send)
      /\ key \in MessageKey
  BY EncryptFields
<1>2. r.chain_send # None /\ r.chain_send.id = r.root_key BY DEF CanEncrypt, SendSound
<1>3. key = <<r.root_key, r.chain_send.pos>> BY <1>2 DEF KeyOf
<1>4. /\ s.chain_send \in ChainKey /\ s.chain_send.id = r.root_key
      /\ s.chain_send.pos = r.chain_send.pos + 1
      /\ r.chain_send.pos \in Nat /\ r.root_key \in RootKey
  <2>1. r.chain_send.pos \in Nat /\ r.chain_send.id \in RootKey BY <1>1 DEF ChainKey
  <2>2. /\ NextChainKey(r.chain_send) \in ChainKey
        /\ NextChainKey(r.chain_send).id = r.chain_send.id
        /\ NextChainKey(r.chain_send).pos = r.chain_send.pos + 1
    BY <1>1, AdvanceFields DEF NextChainKey
  <2> QED BY <1>1, <1>2, <2>1, <2>2
<1>5. s.root_key = r.root_key BY <1>1 DEF SameKeys
<1> HIDE DEF s, key
<1>6. key \notin sealed
  <2> SUFFICES ASSUME key \in sealed PROVE FALSE OBVIOUS
  <2>1. key[2] < r.chain_send.pos BY <1>3 DEF SendSound
  <2> QED BY <1>3, <1>4, <2>1
<1>7. SendSound(s, sealed \cup {key})
  <2>1. ASSUME NEW k \in sealed
        PROVE  /\ k \in MessageKey
               /\ Len(k[1]) <= Len(s.root_key)
               /\ Len(k[1]) % 2 = Len(s.root_key) % 2
               /\ k[1] = s.root_key => k[2] < s.chain_send.pos
    <3>1. /\ k \in MessageKey /\ k[2] \in Nat
          /\ Len(k[1]) <= Len(s.root_key)
          /\ Len(k[1]) % 2 = Len(s.root_key) % 2
          /\ k[1] = r.root_key => k[2] < r.chain_send.pos
      BY <1>5 DEF SendSound, MessageKey
    <3>2. k[1] = s.root_key => k[2] < s.chain_send.pos BY <1>4, <1>5, <3>1
    <3> QED BY <3>1, <3>2
  <2>2. /\ key[1] = s.root_key /\ Len(key[1]) <= Len(s.root_key) /\ key[2] < s.chain_send.pos
    <3>1. key[1] = s.root_key /\ key[2] = r.chain_send.pos BY <1>3, <1>5
    <3>2. Len(key[1]) <= Len(s.root_key) BY <1>4, <1>5, <3>1 DEF RootKey
    <3>3. key[2] < s.chain_send.pos BY <1>4, <3>1
    <3> QED BY <3>1, <3>2, <3>3
  <2>3. s.chain_send # None BY <1>4, NoneAssumption
  <2> QED BY <1>1, <1>4, <1>5, <2>1, <2>2, <2>3 DEF SendSound
<1>8. ASSUME NEW opened, RecvSound(r, opened)
      PROVE  RecvSound(s, opened)
  <2>1. \A k : Past(r, k) => Past(s, k) BY <1>1, <1>5 DEF Past
  <2> QED BY <1>1, <1>5, <1>8, <2>1 DEF RecvSound
<1>9. key[1] = r.root_key BY <1>3
<1> QED BY <1>5, <1>6, <1>7, <1>8, <1>9 DEF s, key

\* Session::encrypt: the key it uses is beyond all those sealed before.
LEMMA SendIInv ==
    ASSUME IInv, NEW p \in Party, Send(p)
    PROVE  IInv'
<1> DEFINE r == ratchet[p]
           s == EncryptState(r)
           key == KeyOf(r.chain_send)
           m == [prekey |-> pending[p], header |-> EncryptHeader(r), key |-> key,
                 copies |-> 0, accepts |-> 0]
           n == Len(wire[p])
<1>1. WellFormed(r) /\ CanEncrypt(r) /\ p \in established
  BY DEF IInv, Send
<1>2. /\ WellFormed(s) /\ SameKeys(r, s)
      /\ s.chain_recv = r.chain_recv /\ s.n_recv = r.n_recv
      /\ s.skipped = r.skipped
      /\ r.chain_send \in ChainKey
      /\ s.chain_send = NextChainKey(r.chain_send)
      /\ EncryptHeader(r) \in Header
      /\ key \in MessageKey
  BY <1>1, EncryptFields
<1>3. m \in Envelope
  BY <1>2 DEF Envelope, IInv, TypeOK
<1>4. /\ wire' = [wire EXCEPT ![p] = Append(wire[p], m)]
      /\ ratchet' = [ratchet EXCEPT ![p] = s]
      /\ established' = established /\ overflowed' = overflowed
      /\ UNCHANGED <<pending, withOpk, opkHeld, nextDh, duplicates>>
  BY DEF Send
<1>5. key = <<r.chain_send.id, r.chain_send.pos>> /\ m.key = key /\ m.accepts = 0
  BY DEF KeyOf
<1>6. /\ wire \in [Party -> Seq(Envelope)] /\ DOMAIN ratchet = Party
      /\ wire[p] \in Seq(Envelope) /\ n \in Nat
      /\ Peer(p) \in Party /\ Peer(p) # p /\ Peer(Peer(p)) = p
      /\ \A q \in Party : q # p => q = Peer(p)
  BY PeerFacts DEF IInv, TypeOK
<1> HIDE DEF m, s, key, n
<1>7. /\ wire'[p] = Append(wire[p], m) /\ wire'[Peer(p)] = wire[Peer(p)]
      /\ wire' \in [Party -> Seq(Envelope)]
  BY <1>3, <1>4, <1>6
<1>8. /\ Len(wire'[p]) = n + 1
      /\ \A j \in 1 .. n : wire'[p][j] = wire[p][j]
      /\ wire'[p][n + 1] = m
  BY <1>3, <1>6, <1>7 DEF n
<1>9. ratchet'[p] = s /\ ratchet'[Peer(p)] = ratchet[Peer(p)] /\ DOMAIN ratchet' = Party
  BY <1>4, <1>6
<1>10. \A q \in Party : WellFormed(ratchet'[q])
  BY <1>2, <1>6, <1>9 DEF IInv
<1>11. TypeOK'
  <2>1. \A q \in Party : IsRatchetState(ratchet'[q])
    BY <1>10 DEF WellFormed
  <2> QED BY <1>4, <1>7, <1>9, <2>1 DEF IInv, TypeOK
<1>12. SealedKeys(p)' = SealedKeys(p) \cup {key} /\ SealedKeys(Peer(p))' = SealedKeys(Peer(p))
  <2>1. SealedKeys(p)' = {wire'[p][j].key : j \in 1 .. (n + 1)}
    BY <1>8 DEF SealedKeys
  <2>2. 1 .. (n + 1) = (1 .. n) \cup {n + 1}
    BY <1>6
  <2>3. SealedKeys(p) = {wire[p][j].key : j \in 1 .. n}
    BY DEF SealedKeys, n
  <2>4. SealedKeys(p)' = SealedKeys(p) \cup {key}
    BY <1>5, <1>8, <2>1, <2>2, <2>3
  <2> QED BY <1>7, <2>4 DEF SealedKeys
<1>13. OpenedKeys(p)' = OpenedKeys(p) /\ OpenedKeys(Peer(p))' = OpenedKeys(Peer(p))
  <2>1. OpenedKeys(p)' = OpenedKeys(p)
    BY <1>7 DEF OpenedKeys
  <2> DEFINE Old == {j \in 1 .. n : wire[p][j].accepts > 0}
             New == {j \in 1 .. (n + 1) : wire'[p][j].accepts > 0}
  <2>2. New = Old
    <3>1. ~(0 > 0) /\ 1 .. (n + 1) = (1 .. n) \cup {n + 1}
      BY <1>6
    <3> QED BY <1>5, <1>8, <3>1
  <2>3. OpenedKeys(Peer(p)) = {wire[p][j].key : j \in Old}
    BY <1>6 DEF OpenedKeys, n
  <2>4. OpenedKeys(Peer(p))' = {wire'[p][j].key : j \in New}
    BY <1>6, <1>8 DEF OpenedKeys
  <2>5. \A j \in Old : wire'[p][j] = wire[p][j]
    BY <1>8
  <2> HIDE DEF Old, New
  <2> QED BY <2>1, <2>2, <2>3, <2>4, <2>5
<1>14. SendSound(r, SealedKeys(p))
  BY DEF IInv, SendInv
<1>15. /\ key \notin SealedKeys(p) /\ s.root_key = r.root_key
       /\ SendSound(s, SealedKeys(p) \cup {key})
       /\ \A opened : RecvSound(r, opened) => RecvSound(s, opened)
  BY <1>1, <1>14, EncryptSound DEF s, key
<1>16. s.root_key = r.root_key
  BY <1>15
<1>17. \A k \in SealedKeys(p) : k # key
  BY <1>15
<1>18. SendSound(s, SealedKeys(p) \cup {key})
  BY <1>15
<1>19. SendInv'
  <2> SUFFICES ASSUME NEW q \in Party
               PROVE  /\ q \notin established' => wire'[q] = <<>> /\ OpenedKeys(q)' = {}
                      /\ SendSound(ratchet'[q], SealedKeys(q)')
                      /\ q \in established' => Len(ratchet'[q].root_key) % 2 = RootParity(q)
    BY DEF SendInv
  <2>1. CASE q = p
    <3>1. Len(r.root_key) % 2 = RootParity(p)
      BY <1>1 DEF IInv, SendInv
    <3> QED BY <1>1, <1>4, <1>9, <1>12, <1>16, <1>18, <2>1, <3>1
  <2>2. CASE q = Peer(p)
    BY <1>4, <1>6, <1>7, <1>9, <1>12, <1>13, <2>2 DEF IInv, SendInv
  <2> QED BY <1>6, <2>1, <2>2
<1>20. RecvInv'
  <2>1. \A opened : RecvSound(r, opened) => RecvSound(s, opened)
    BY <1>15
  <2> SUFFICES ASSUME NEW q \in Party \ overflowed
               PROVE  RecvSound(ratchet'[q], OpenedKeys(q)')
    BY <1>4 DEF RecvInv
  <2>2. RecvSound(ratchet[q], OpenedKeys(q))
    BY DEF IInv, RecvInv
  <2> QED BY <1>6, <1>9, <1>13, <2>1, <2>2
<1>21. NoReplay'
  <2> SUFFICES ASSUME NEW q \in Party, Peer(q) \notin overflowed,
                      NEW j \in 1 .. Len(wire'[q])
               PROVE  wire'[q][j].accepts <= 1
    BY <1>4 DEF NoReplay
  <2>1. \A k \in 1 .. Len(wire[q]) : wire[q][k].accepts <= 1
    BY DEF IInv, NoReplay
  <2>2. CASE q = p
    <3>1. j \in 1 .. n \/ j = n + 1
      BY <1>6, <1>8, <2>2
    <3>2. CASE j \in 1 .. n
      <4>1. wire'[q][j] = wire[q][j] /\ wire[q][j].accepts <= 1 BY <1>8, <2>1, <2>2, <3>2 DEF n
      <4> QED BY <4>1
    <3>3. CASE j = n + 1
      <4>1. wire'[q][j].accepts = 0 BY <1>5, <1>8, <2>2, <3>3
      <4> QED BY <4>1
    <3> QED BY <3>1, <3>2, <3>3
  <2>3. CASE q = Peer(p)
    BY <1>7, <2>1, <2>3
  <2> QED BY <1>6, <2>2, <2>3
<1>22. SealedOnce'
  <2> SUFFICES ASSUME NEW q \in Party, NEW i \in 1 .. Len(wire'[q]),
                      NEW j \in 1 .. Len(wire'[q]), wire'[q][i].key = wire'[q][j].key
               PROVE  i = j
    BY DEF SealedOnce
  <2>1. \A k, l \in 1 .. Len(wire[q]) : wire[q][k].key = wire[q][l].key => k = l
    BY DEF IInv, SealedOnce
  <2>2. CASE q = p
    <3>1. (i \in 1 .. n \/ i = n + 1) /\ (j \in 1 .. n \/ j = n + 1)
      BY <1>6, <1>8, <2>2
    <3>2. \A k \in 1 .. n : wire'[p][k].key # wire'[p][n + 1].key
      BY <1>5, <1>8, <1>17 DEF SealedKeys, n
    <3> QED BY <1>8, <2>1, <2>2, <3>1, <3>2 DEF n
  <2>3. CASE q = Peer(p)
    BY <1>7, <2>1, <2>3
  <2> QED BY <1>6, <2>2, <2>3
<1> QED BY <1>10, <1>11, <1>19, <1>20, <1>21, <1>22 DEF IInv

\* Handing over a message is safe if it opens with a key not used before.
LEMMA HandedOnce ==
    ASSUME IInv, NEW p \in Party, NEW i \in 1 .. Len(wire[Peer(p)]),
           NEW opened \in BOOLEAN, Handed(p, i, opened),
           overflowed \subseteq overflowed',
           p \notin overflowed' /\ opened => wire[Peer(p)][i].key \notin OpenedKeys(p)
    PROVE  NoReplay' /\ SealedOnce'
<1>1. /\ \A q \in Party : Len(wire'[q]) = Len(wire[q])
      /\ \A q \in Party : \A j \in 1 .. Len(wire[q]) :
           /\ wire'[q][j].key = wire[q][j].key
           /\ wire'[q][j].accepts =
                IF q = Peer(p) /\ j = i /\ opened THEN wire[q][j].accepts + 1
                                                  ELSE wire[q][j].accepts
  BY HandedFacts DEF IInv
<1>2. Peer(p) \in Party /\ Peer(Peer(p)) = p
  BY PeerFacts
<1>3. SealedOnce'
  BY <1>1 DEF IInv, SealedOnce
<1>4. NoReplay'
  <2> SUFFICES ASSUME NEW q \in Party, Peer(q) \notin overflowed',
                      NEW j \in 1 .. Len(wire[q])
               PROVE  wire'[q][j].accepts <= 1
    BY <1>1 DEF NoReplay
  <2>1. wire[q][j].accepts <= 1
    BY DEF IInv, NoReplay
  <2>2. CASE ~(q = Peer(p) /\ j = i /\ opened)
    BY <1>1, <2>1, <2>2
  <2>3. CASE q = Peer(p) /\ j = i /\ opened
    <3>1. wire[q][j].key \notin OpenedKeys(p)
      BY <1>2, <2>3
    <3>2. ~(wire[q][j].accepts > 0)
      BY <2>3, <3>1 DEF OpenedKeys
    <3>3. wire[q][j].accepts \in Nat
      <4>1. wire[q] \in Seq(Envelope)
        BY DEF IInv, TypeOK
      <4>2. wire[q][j] \in Envelope
        BY <4>1
      <4> QED BY <4>2 DEF Envelope
    <3>4. wire'[q][j].accepts = wire[q][j].accepts + 1
      BY <1>1, <2>3
    <3> QED BY <3>2, <3>3, <3>4
  <2> QED BY <2>2, <2>3
<1> QED BY <1>3, <1>4

\* Session::decrypt.
LEMMA ReceiveIInv ==
    ASSUME IInv, NEW p \in Party, NEW i \in 1 .. Len(wire[Peer(p)]), Receive(p, i)
    PROVE  IInv'
<1> DEFINE m == wire[Peer(p)][i]
           r == ratchet[p]
           out == Decrypt(r, m.header, m.key, nextDh)
           s == out.state
           z == Peer(p)
<1>1. z \in Party /\ z # p /\ Peer(z) = p /\ \A q \in Party : q # p => q = z
  BY PeerFacts
<1>2. m \in Envelope
  <2>1. wire[z] \in Seq(Envelope)
    BY <1>1 DEF IInv, TypeOK
  <2> QED BY <2>1
<1>3. m.header \in Header /\ m.key \in MessageKey /\ nextDh \in DhKey /\ WellFormed(r)
  BY <1>2 DEF Envelope, IInv, TypeOK
<1>4. /\ out.ok \in BOOLEAN
      /\ Keeps(r, s)
      /\ \A opened : RecvSound(r, opened) =>
            \/ out.ok /\ m.key \notin opened /\ RecvSound(s, opened \cup {m.key})
            \/ ~out.ok /\ (StoppedMidGap(s) \/ RecvSound(s, opened))
  BY <1>3, DecryptSound
<1>5. /\ p \in established /\ established' = established
      /\ Arrives(p, i)
      /\ Handed(p, i, out.ok)
      /\ ratchet' = [ratchet EXCEPT ![p] = s]
      /\ pending' = [pending EXCEPT ![p] = pending[p] /\ ~out.ok]
      /\ nextDh' = Drew(s)
      /\ overflowed' = overflowed \cup (IF StoppedMidGap(s) THEN {p} ELSE {})
      /\ withOpk' = withOpk /\ opkHeld' = opkHeld
  BY DEF Receive
<1> HIDE DEF out, s, z
<1>6. DOMAIN ratchet = Party
  BY DEF IInv, TypeOK
<1>7. /\ DOMAIN ratchet' = Party /\ ratchet'[p] = s /\ ratchet'[z] = ratchet[z]
  BY <1>1, <1>5, <1>6
<1>8. WellFormed(s)
  BY <1>4 DEF Keeps
<1>9. \A q \in Party : WellFormed(ratchet'[q])
  BY <1>1, <1>7, <1>8 DEF IInv
<1>10. TypeOK'
  <2>1. \A q \in Party : IsRatchetState(ratchet'[q])
    BY <1>9 DEF WellFormed
  <2>2. nextDh' \in DhKey
    BY <1>3, <1>5 DEF Drew, DhKey
  <2>3. wire' \in [Party -> Seq(Envelope)]
    BY <1>4, <1>5, HandedFacts DEF IInv
  <2>4. duplicates' \in Nat
    BY <1>5 DEF Arrives, IInv, TypeOK
  <2>5. pending' \in [Party -> BOOLEAN]
    <3>1. pending \in [Party -> BOOLEAN] /\ (pending[p] /\ ~out.ok) \in BOOLEAN
      BY DEF IInv, TypeOK
    <3> QED BY <1>5, <3>1
  <2>6. overflowed' \in SUBSET Party
    BY <1>5 DEF IInv, TypeOK
  <2> QED BY <1>5, <1>7, <2>1, <2>2, <2>3, <2>4, <2>5, <2>6 DEF IInv, TypeOK
<1>11. /\ \A q \in Party : SealedKeys(q)' = SealedKeys(q)
       /\ OpenedKeys(p)' = OpenedKeys(p) \cup (IF out.ok THEN {m.key} ELSE {})
       /\ OpenedKeys(z)' = OpenedKeys(z)
  BY <1>4, <1>5, HandedKeys DEF IInv, z
<1>12. SendInv'
  <2> SUFFICES ASSUME NEW q \in Party
               PROVE  /\ q \notin established' => wire'[q] = <<>> /\ OpenedKeys(q)' = {}
                      /\ SendSound(ratchet'[q], SealedKeys(q)')
                      /\ q \in established' => Len(ratchet'[q].root_key) % 2 = RootParity(q)
    BY DEF SendInv
  <2>1. CASE q = p
    <3>1. Len(r.root_key) % 2 = RootParity(p) /\ SendSound(r, SealedKeys(p))
      BY <1>5 DEF IInv, SendInv
    <3> QED BY <1>4, <1>5, <1>7, <1>11, <2>1, <3>1 DEF Keeps
  <2>2. CASE q = z
    <3>1. q \notin established => FALSE
      <4>1. wire[z] # <<>>
        BY DEF z
      <4> QED BY <1>1, <2>2, <4>1 DEF IInv, SendInv
    <3>2. SendSound(ratchet[z], SealedKeys(z))
      BY <1>1 DEF IInv, SendInv
    <3>3. q \in established => Len(ratchet[z].root_key) % 2 = RootParity(z)
      BY <1>1, <2>2 DEF IInv, SendInv
    <3> QED BY <1>5, <1>7, <1>11, <2>2, <3>1, <3>2, <3>3
  <2> QED BY <1>1, <2>1, <2>2
<1>13. ASSUME p \notin overflowed'
       PROVE  /\ RecvSound(s, OpenedKeys(p)')
              /\ out.ok => m.key \notin OpenedKeys(p)
  <2>1. p \notin overflowed /\ ~StoppedMidGap(s)
    BY <1>5, <1>13
  <2>2. RecvSound(r, OpenedKeys(p))
    BY <2>1 DEF IInv, RecvInv
  <2>3. CASE out.ok
    BY <1>4, <1>11, <2>2, <2>3
  <2>4. CASE ~out.ok
    <3>1. OpenedKeys(p)' = OpenedKeys(p)
      BY <1>11, <2>4
    <3> QED BY <1>4, <2>1, <2>2, <2>4, <3>1
  <2> QED BY <2>3, <2>4
<1>14. RecvInv'
  <2> SUFFICES ASSUME NEW q \in Party \ overflowed'
               PROVE  RecvSound(ratchet'[q], OpenedKeys(q)')
    BY DEF RecvInv
  <2>1. CASE q = p
    BY <1>7, <1>13, <2>1
  <2>2. CASE q = z
    <3>1. q \notin overflowed
      BY <1>5
    <3>2. RecvSound(ratchet[z], OpenedKeys(z))
      BY <2>2, <3>1 DEF IInv, RecvInv
    <3> QED BY <1>7, <1>11, <2>2, <3>2
  <2> QED BY <1>1, <2>1, <2>2
<1>15. NoReplay' /\ SealedOnce'
  <2>1. overflowed \subseteq overflowed'
    BY <1>5
  <2> QED BY <1>4, <1>5, <1>13, <2>1, HandedOnce
<1> QED BY <1>9, <1>10, <1>12, <1>14, <1>15 DEF IInv

\* Session::respond.
LEMMA RespondIInv ==
    ASSUME IInv, NEW i \in 1 .. Len(wire[Initiator]), Respond(i)
    PROVE  IInv'
<1> DEFINE m == wire[Initiator][i]
           r == InitResponder(SPK)
           out == Decrypt(r, m.header, m.key, nextDh)
           s == out.state
           opened == ~HandshakeFails(m) /\ out.ok
<1>1. /\ Responder \in Party /\ Initiator \in Party /\ Peer(Responder) = Initiator
      /\ Initiator # Responder /\ \A q \in Party : q # Responder => q = Initiator
  BY PartyAssumption DEF Party, Peer
<1>2. m \in Envelope
  <2>1. wire[Initiator] \in Seq(Envelope)
    BY <1>1 DEF IInv, TypeOK
  <2> QED BY <2>1
<1>3. /\ m.header \in Header /\ m.key \in MessageKey /\ nextDh \in DhKey
      /\ SPK \in DhKey /\ WellFormed(r)
  <2>1. SPK \in DhKey
    BY DEF SPK, DhKey
  <2> QED BY <1>2, <2>1, InitWellFormed DEF Envelope, IInv, TypeOK
<1>4. /\ out.ok \in BOOLEAN
      /\ Keeps(r, s)
      /\ \A old : RecvSound(r, old) =>
            \/ out.ok /\ m.key \notin old /\ RecvSound(s, old \cup {m.key})
            \/ ~out.ok /\ (StoppedMidGap(s) \/ RecvSound(s, old))
  BY <1>3, DecryptSound
<1>5. /\ SendSound(r, {}) /\ RecvSound(r, {})
      /\ Len(r.root_key) % 2 = RootParity(Responder)
  BY <1>3, FreshSound
<1>6. /\ Responder \notin established
      /\ Arrives(Responder, i)
      /\ Handed(Responder, i, opened)
      /\ established' = IF opened THEN established \cup {Responder} ELSE established
      /\ ratchet' = IF opened THEN [ratchet EXCEPT ![Responder] = s] ELSE ratchet
      /\ opkHeld' = opkHeld \/ opkHeld' = FALSE
      /\ nextDh' = nextDh \/ nextDh' = Drew(s)
      /\ UNCHANGED <<pending, withOpk, overflowed>>
  <2>1. CASE HandshakeFails(m)
    <3>1. opened = FALSE
      BY <2>1
    <3> HIDE DEF opened
    <3> QED BY <2>1, <3>1 DEF Respond
  <2>2. CASE ~HandshakeFails(m)
    <3>1. opened = out.ok
      BY <1>4, <2>2
    <3> HIDE DEF opened
    <3> QED BY <2>2, <3>1 DEF Respond
  <2> QED BY <2>1, <2>2
<1>7. opened \in BOOLEAN
  OBVIOUS
<1>8. opened => out.ok
  OBVIOUS
<1> HIDE DEF out, s, r, opened
<1>9. DOMAIN ratchet = Party
  BY DEF IInv, TypeOK
<1>10. /\ DOMAIN ratchet' = Party /\ ratchet'[Initiator] = ratchet[Initiator]
       /\ ratchet'[Responder] = IF opened THEN s ELSE ratchet[Responder]
  BY <1>1, <1>6, <1>9
<1>11. WellFormed(s)
  BY <1>4 DEF Keeps
<1>12. \A q \in Party : WellFormed(ratchet'[q])
  BY <1>1, <1>10, <1>11 DEF IInv
<1>13. TypeOK'
  <2>1. \A q \in Party : IsRatchetState(ratchet'[q])
    BY <1>12 DEF WellFormed
  <2>2. nextDh' \in DhKey
    BY <1>3, <1>6 DEF Drew, DhKey
  <2>3. wire' \in [Party -> Seq(Envelope)]
    BY <1>1, <1>6, <1>7, HandedFacts DEF IInv
  <2>4. duplicates' \in Nat
    BY <1>6 DEF Arrives, IInv, TypeOK
  <2>5. established' \in SUBSET Party
    BY <1>1, <1>6 DEF IInv, TypeOK
  <2>6. opkHeld' \in BOOLEAN
    BY <1>6 DEF IInv, TypeOK
  <2> QED BY <1>6, <1>10, <2>1, <2>2, <2>3, <2>4, <2>5, <2>6 DEF IInv, TypeOK
<1>14. /\ \A q \in Party : SealedKeys(q)' = SealedKeys(q)
       /\ OpenedKeys(Responder)' = OpenedKeys(Responder) \cup (IF opened THEN {m.key} ELSE {})
       /\ OpenedKeys(Initiator)' = OpenedKeys(Initiator)
  BY <1>1, <1>6, <1>7, HandedKeys DEF IInv
<1>15. wire[Responder] = <<>> /\ OpenedKeys(Responder) = {} /\ SealedKeys(Responder) = {}
  <2>1. wire[Responder] = <<>> /\ OpenedKeys(Responder) = {}
    BY <1>1, <1>6 DEF IInv, SendInv
  <2> QED BY <2>1 DEF SealedKeys
<1>16. wire'[Responder] = <<>>
  <2>1. Len(wire'[Responder]) = 0 /\ wire'[Responder] \in Seq(Envelope)
    BY <1>1, <1>6, <1>7, <1>15, HandedFacts DEF IInv
  <2> QED BY <2>1
<1>17. CASE opened
  <2>1. SendSound(s, {}) /\ Len(s.root_key) % 2 = RootParity(Responder)
    BY <1>4, <1>5 DEF Keeps
  <2>2. RecvSound(s, {m.key})
    BY <1>4, <1>5, <1>8, <1>17
  <2>3. SendInv'
    <3> SUFFICES ASSUME NEW q \in Party
                 PROVE  /\ q \notin established' => wire'[q] = <<>> /\ OpenedKeys(q)' = {}
                        /\ SendSound(ratchet'[q], SealedKeys(q)')
                        /\ q \in established' => Len(ratchet'[q].root_key) % 2 = RootParity(q)
      BY DEF SendInv
    <3>1. CASE q = Responder
      BY <1>6, <1>10, <1>14, <1>15, <1>17, <2>1, <3>1
    <3>2. CASE q = Initiator
      <4>1. q \in established
        <5>1. wire[Initiator] # <<>>
          OBVIOUS
        <5> QED BY <1>1, <3>2, <5>1 DEF IInv, SendInv
      <4>2. /\ SendSound(ratchet[Initiator], SealedKeys(Initiator))
            /\ Len(ratchet[Initiator].root_key) % 2 = RootParity(Initiator)
        BY <1>1, <3>2, <4>1 DEF IInv, SendInv
      <4> QED BY <1>1, <1>6, <1>10, <1>14, <1>17, <3>2, <4>1, <4>2
    <3> QED BY <1>1, <3>1, <3>2
  <2>4. RecvInv'
    <3> SUFFICES ASSUME NEW q \in Party \ overflowed
                 PROVE  RecvSound(ratchet'[q], OpenedKeys(q)')
      BY <1>6 DEF RecvInv
    <3>1. CASE q = Responder
      <4>1. OpenedKeys(Responder)' = {m.key}
        BY <1>14, <1>15, <1>17
      <4> QED BY <1>10, <1>17, <2>2, <3>1, <4>1
    <3>2. CASE q = Initiator
      BY <1>10, <1>14, <3>2 DEF IInv, RecvInv
    <3> QED BY <1>1, <3>1, <3>2
  <2> QED BY <1>1, <1>6, <1>7, <1>12, <1>13, <1>15, <2>3, <2>4, HandedOnce DEF IInv
<1>18. CASE ~opened
  <2>1. /\ \A q \in Party : ratchet'[q] = ratchet[q]
        /\ \A q \in Party : OpenedKeys(q)' = OpenedKeys(q)
        /\ established' = established /\ overflowed' = overflowed
    BY <1>1, <1>6, <1>14, <1>18
  <2>2. SendInv'
    <3> SUFFICES ASSUME NEW q \in Party
                 PROVE  /\ q \notin established => wire'[q] = <<>> /\ OpenedKeys(q) = {}
                        /\ SendSound(ratchet[q], SealedKeys(q))
                        /\ q \in established => Len(ratchet[q].root_key) % 2 = RootParity(q)
      BY <1>14, <2>1 DEF SendInv
    <3>1. wire[Initiator] # <<>>
      OBVIOUS
    <3> QED BY <1>1, <1>16, <3>1 DEF IInv, SendInv
  <2>3. RecvInv'
    BY <2>1 DEF IInv, RecvInv
  <2> QED BY <1>1, <1>6, <1>7, <1>12, <1>13, <1>18, <2>2, <2>3, HandedOnce DEF IInv
<1> QED BY <1>17, <1>18

\* No step of any handler leaves the inductive invariant.
LEMMA NextIInv == IInv /\ [Next]_vars => IInv'
<1> SUFFICES ASSUME IInv, [Next]_vars
             PROVE  IInv'
  OBVIOUS
<1>1. CASE Initiate
  BY <1>1, InitiateIInv
<1>2. ASSUME NEW p \in Party, Send(p)
      PROVE  IInv'
  BY <1>2, SendIInv
<1>3. ASSUME NEW i \in 1 .. Len(wire[Initiator]), Respond(i)
      PROVE  IInv'
  BY <1>3, RespondIInv
<1>4. ASSUME NEW p \in Party, NEW i \in 1 .. Len(wire[Peer(p)]), Receive(p, i)
      PROVE  IInv'
  BY <1>4, ReceiveIInv
<1>5. CASE UNCHANGED vars
  <2>1. /\ established' = established /\ ratchet' = ratchet /\ pending' = pending
        /\ withOpk' = withOpk /\ opkHeld' = opkHeld /\ nextDh' = nextDh
        /\ wire' = wire /\ duplicates' = duplicates /\ overflowed' = overflowed
    BY <1>5 DEF vars
  <2>2. TypeOK' /\ \A p \in Party : WellFormed(ratchet[p])'
    BY <2>1 DEF IInv, TypeOK
  <2>3. \A p \in Party : SealedKeys(p)' = SealedKeys(p) /\ OpenedKeys(p)' = OpenedKeys(p)
    BY <2>1 DEF SealedKeys, OpenedKeys
  <2>4. SendInv' /\ RecvInv'
    BY <2>1, <2>3 DEF IInv, SendInv, RecvInv
  <2>5. NoReplay' /\ SealedOnce'
    BY <2>1 DEF IInv, NoReplay, SealedOnce
  <2> QED BY <2>2, <2>4, <2>5 DEF IInv
<1> QED BY <1>1, <1>2, <1>3, <1>4, <1>5 DEF Next

\* Every reachable state of a conversation satisfies the inductive invariant.
THEOREM Invariance == Spec => []IInv
<1>1. Init => IInv
  BY InitIInv
<1>2. IInv /\ [Next]_vars => IInv'
  BY NextIInv
<1> QED BY <1>1, <1>2, PTL DEF Spec

-----------------------------------------------------------------------------
(* What the invariant gives.                                               *)

\* Type correctness: no handler of session.rs leaves a field of the session
\* or of its ratchet outside its type, on success or on error.
THEOREM TypeCorrect == Spec => []TypeOK
<1>1. IInv => TypeOK
  BY DEF IInv
<1> QED BY Invariance, <1>1, PTL

\* The skipped-key cache of ratchet.rs never exceeds MAX_SKIPPED_CACHE,
\* however many chains and gaps the headers announce.
THEOREM CacheStaysBounded == Spec => []CacheBounded
<1>1. IInv => CacheBounded
  BY DEF IInv, CacheBounded, WellFormed
<1> QED BY Invariance, <1>1, PTL

\* Session::decrypt returns the plaintext of a message at most once, for any
\* number of duplicates, as long as the receiver's cache never overflowed.
THEOREM ReplaysRefused == Spec => []NoReplay
<1>1. IInv => NoReplay
  BY DEF IInv
<1> QED BY Invariance, <1>1, PTL

\* No message key of a conversation ever seals two messages, in one direction
\* or across the two (kdf.rs: "every message key is unique").
THEOREM KeysNeverRepeat == Spec => []KeysUnique
<1>1. IInv => KeysUnique
  <2> SUFFICES ASSUME IInv, NEW p \in Party, NEW q \in Party,
                      NEW i \in 1 .. Len(wire[p]), NEW j \in 1 .. Len(wire[q]),
                      wire[p][i].key = wire[q][j].key
               PROVE  p = q /\ i = j
    BY DEF KeysUnique
  <2>1. \A x \in Party : wire[x] # <<>> => x \in established
    BY DEF IInv, SendInv
  <2>2. p \in established /\ q \in established
    <3>1. wire[p] # <<>> /\ wire[q] # <<>>
      OBVIOUS
    <3> QED BY <2>1, <3>1
  <2>3. \A x \in established : \A k \in SealedKeys(x) : Len(k[1]) % 2 = RootParity(x)
    <3> SUFFICES ASSUME NEW x \in established, NEW k \in SealedKeys(x)
                 PROVE  Len(k[1]) % 2 = RootParity(x)
      OBVIOUS
    <3>1. x \in Party
      BY DEF IInv, TypeOK
    <3>2. SendSound(ratchet[x], SealedKeys(x)) /\ Len(ratchet[x].root_key) % 2 = RootParity(x)
      BY <3>1 DEF IInv, SendInv
    <3> QED BY <3>2 DEF SendSound
  <2>4. wire[p][i].key \in SealedKeys(p) /\ wire[q][j].key \in SealedKeys(q)
    BY DEF SealedKeys
  <2>5. RootParity(p) = RootParity(q)
    BY <2>2, <2>3, <2>4
  <2>6. p = q
    BY <2>5, PartyAssumption DEF RootParity, Party
  <2> QED BY <2>6 DEF IInv, SealedOnce
<1> QED BY Invariance, <1>1, PTL

\* Once a message is sealed or opened its key cannot be had again from what
\* that party keeps: neither from a chain nor from the cache (ratchet.rs: "old
\* message keys are deleted and cannot be rederived"), unless a full cache
\* stopped skip_message_keys in the middle of a gap.
THEOREM KeysAreForgotten == Spec => []ForwardSecrecy
<1>1. IInv => ForwardSecrecy
  <2> SUFFICES ASSUME IInv, NEW p \in Party \ overflowed
               PROVE  /\ \A k \in SealedKeys(p) : ~Derivable(p, k)
                      /\ \A k \in OpenedKeys(p) : ~Derivable(p, k)
    BY DEF ForwardSecrecy, SealedKeys, OpenedKeys
  <2> DEFINE r == ratchet[p]
             n == Len(r.root_key)
  <2>1. WellFormed(r) /\ SendSound(r, SealedKeys(p)) /\ RecvSound(r, OpenedKeys(p))
    BY DEF IInv, SendInv, RecvInv
  <2>2. /\ n \in Nat
        /\ r.chain_send # None => r.chain_send.id = r.root_key /\ r.chain_send.pos \in Nat
        /\ r.chain_recv # None => /\ Len(r.chain_recv.id) + 1 = n
                                 /\ Len(r.chain_recv.id) \in Nat
                                 /\ r.chain_recv.pos \in Nat
    BY <2>1 DEF WellFormed, IsRatchetState, SendSound, RecvSound, ChainKey, RootKey
  <2> HIDE DEF r
  <2>3. ASSUME NEW k \in SealedKeys(p)
        PROVE  ~Derivable(p, k)
    <3>1. /\ k \in MessageKey /\ Len(k[1]) % 2 = n % 2
          /\ k[1] = r.root_key => r.chain_send # None /\ k[2] < r.chain_send.pos
          /\ k[2] \in Nat
      BY <2>1, <2>3 DEF SendSound, MessageKey
    <3>2. ~(r.chain_send # None /\ r.chain_send.id = k[1] /\ r.chain_send.pos <= k[2])
      BY <2>2, <3>1
    <3>3. ~(r.chain_recv # None /\ r.chain_recv.id = k[1])
      <4> SUFFICES ASSUME r.chain_recv # None, r.chain_recv.id = k[1]
                   PROVE  FALSE
        OBVIOUS
      <4>1. Len(k[1]) \in Nat /\ n = Len(k[1]) + 1
        BY <2>2
      <4>2. Len(k[1]) % 2 # n % 2
        BY <4>1, NextParity
      <4> QED BY <3>1, <4>2
    <3>4. \A e \in DOMAIN r.skipped : r.skipped[e] # k
      BY <2>1, <3>1 DEF RecvSound, Past
    <3> QED BY <3>2, <3>3, <3>4 DEF Derivable, r
  <2>4. ASSUME NEW k \in OpenedKeys(p)
        PROVE  ~Derivable(p, k)
    <3>1. Past(r, k) /\ \A e \in DOMAIN r.skipped : r.skipped[e] # k
      BY <2>1, <2>4 DEF RecvSound
    <3>2. /\ k[2] \in Nat /\ Len(k[1]) \in Nat /\ Len(k[1]) < n
          /\ r.chain_recv # None /\ k[1] = r.chain_recv.id => k[2] < r.chain_recv.pos
      BY <3>1 DEF Past, MessageKey, RootKey
    <3>3. ~(r.chain_send # None /\ r.chain_send.id = k[1])
      BY <2>2, <3>2
    <3>4. ~(r.chain_recv # None /\ r.chain_recv.id = k[1] /\ r.chain_recv.pos <= k[2])
      BY <2>2, <3>2
    <3> QED BY <3>1, <3>3, <3>4 DEF Derivable, r
  <2> QED BY <2>3, <2>4
<1> QED BY Invariance, <1>1, PTL

-----------------------------------------------------------------------------
(* A session implements the at-most-once channel.                          *)

\* A responder that holds a session has opened a message.
RespondersHeard ==
    Responder \in established =>
        \E i \in 1 .. Len(wire[Initiator]) : wire[Initiator][i].accepts > 0

\* encrypt adds a message nobody has opened, and leaves the earlier ones alone.
LEMMA SendOpens ==
    ASSUME TypeOK, NEW p \in Party, Send(p)
    PROVE  /\ Opened' = [Opened EXCEPT ![p] = Append(@, 0)]
           /\ \A q \in Party : Len(wire[q]) <= Len(wire'[q])
           /\ \A q \in Party : \A i \in 1 .. Len(wire[q]) : wire'[q][i] = wire[q][i]
<1> DEFINE m == [prekey |-> pending[p], header |-> EncryptHeader(ratchet[p]),
                 key |-> KeyOf(ratchet[p].chain_send), copies |-> 0, accepts |-> 0]
           acc(w) == [i \in 1 .. Len(w) |-> w[i].accepts]
<1>1. wire \in [Party -> Seq(Envelope)] /\ wire' = [wire EXCEPT ![p] = Append(@, m)]
  BY DEF TypeOK, Send
<1>2. m.accepts = 0
  OBVIOUS
<1> HIDE DEF m
<1>3. wire'[p] = Append(wire[p], m) /\ \A q \in Party : q # p => wire'[q] = wire[q]
  BY <1>1
<1>4. /\ Len(wire'[p]) = Len(wire[p]) + 1
      /\ \A i \in 1 .. Len(wire[p]) : wire'[p][i] = wire[p][i]
      /\ wire'[p][Len(wire[p]) + 1] = m
  <2>1. wire[p] \in Seq(Envelope) /\ Len(wire[p]) \in Nat
    BY <1>1
  <2>2. \A w \in Seq(Envelope) : \A x : \A i \in 1 .. Len(w) : Append(w, x)[i] = w[i]
    OBVIOUS
  <2>3. \A w \in Seq(Envelope) : \A x : Len(Append(w, x)) = Len(w) + 1 /\ Append(w, x)[Len(w) + 1] = x
    OBVIOUS
  <2> QED BY <1>3, <2>1, <2>2, <2>3
<1>5. acc(wire'[p]) = Append(acc(wire[p]), 0)
  <2>1. /\ Len(wire[p]) \in Nat /\ acc(wire[p]) \in Seq(Nat)
        /\ Len(acc(wire[p])) = Len(wire[p])
    <3>1. wire[p] \in Seq(Envelope)
      BY <1>1
    <3>2. \A i \in 1 .. Len(wire[p]) : wire[p][i].accepts \in Nat
      <4>1. \A i \in 1 .. Len(wire[p]) : wire[p][i] \in Envelope
        BY <3>1
      <4>2. \A x \in Envelope : x.accepts \in Nat
        BY DEF Envelope
      <4> QED BY <4>1, <4>2
    <3>3. Len(wire[p]) \in Nat
      BY <3>1
    <3>4. acc(wire[p]) \in [1 .. Len(wire[p]) -> Nat]
      BY <3>2
    <3> HIDE DEF acc
    <3> QED BY <3>3, <3>4
  <2>2. /\ Append(acc(wire[p]), 0) \in Seq(Nat)
        /\ Len(Append(acc(wire[p]), 0)) = Len(wire[p]) + 1
    BY <2>1
  <2>3. acc(wire'[p]) \in Seq(Nat) /\ Len(acc(wire'[p])) = Len(wire[p]) + 1
    <3>1. \A i \in 1 .. Len(wire'[p]) : wire'[p][i].accepts \in Nat
      <4>1. \A i \in 1 .. Len(wire[p]) : wire'[p][i] \in Envelope
        BY <1>1, <1>4
      <4>2. \A x \in Envelope : x.accepts \in Nat
        BY DEF Envelope
      <4>3. \A i \in 1 .. Len(wire'[p]) : i \in 1 .. Len(wire[p]) \/ i = Len(wire[p]) + 1
        BY <1>4, <2>1
      <4> QED BY <1>2, <1>4, <4>1, <4>2, <4>3
    <3>2. acc(wire'[p]) \in [1 .. (Len(wire[p]) + 1) -> Nat] /\ Len(wire[p]) + 1 \in Nat
      BY <1>4, <2>1, <3>1
    <3> HIDE DEF acc
    <3> QED BY <3>2
  <2>4. ASSUME NEW i \in 1 .. (Len(wire[p]) + 1)
        PROVE  acc(wire'[p])[i] = Append(acc(wire[p]), 0)[i]
    <3>1. CASE i = Len(wire[p]) + 1
      <4>1. acc(wire'[p])[i] = 0
        BY <1>2, <1>4, <3>1
      <4> QED BY <2>1, <3>1, <4>1
    <3>2. CASE i # Len(wire[p]) + 1
      <4>1. i \in 1 .. Len(wire[p])
        BY <2>1, <3>2
      <4>2. acc(wire'[p])[i] = wire[p][i].accepts /\ acc(wire[p])[i] = wire[p][i].accepts
        BY <1>4, <4>1
      <4> HIDE DEF acc
      <4> QED BY <2>1, <4>1, <4>2
    <3> QED BY <3>1, <3>2
  <2> HIDE DEF acc
  <2> QED BY <2>2, <2>3, <2>4, SeqEqual
<1>6. \A q \in Party : Opened[q] = acc(wire[q]) /\ Opened'[q] = acc(wire'[q])
  BY DEF Opened
<1>7. DOMAIN Opened = Party /\ DOMAIN Opened' = Party /\ Opened' = [q \in Party |-> Opened'[q]]
  BY DEF Opened
<1> HIDE DEF acc
<1>8. Opened' = [Opened EXCEPT ![p] = Append(@, 0)]
  <2>1. Opened = [q \in Party |-> Opened[q]]
    BY DEF Opened
  <2> QED BY <1>3, <1>5, <1>6, <1>7, <2>1
<1> QED BY <1>1, <1>3, <1>4, <1>8

\* Decrypting a message of the wire, with the session or with a fresh one,
\* ends in an error or in success.
LEMMA DecryptOutcomes ==
    ASSUME IInv, NEW p \in Party, NEW i \in 1 .. Len(wire[Peer(p)])
    PROVE  LET m == wire[Peer(p)][i]
               fresh == Decrypt(InitResponder(SPK), m.header, m.key, nextDh)
               out == Decrypt(ratchet[p], m.header, m.key, nextDh)
           IN  /\ fresh.ok \in BOOLEAN
               /\ out.ok \in BOOLEAN
               /\ p \notin overflowed /\ out.ok => ~StoppedMidGap(out.state)
<1> DEFINE m == wire[Peer(p)][i]
           out == Decrypt(ratchet[p], m.header, m.key, nextDh)
<1>1. m \in Envelope
  <2>1. wire[Peer(p)] \in Seq(Envelope)
    BY PeerFacts DEF IInv, TypeOK
  <2> QED BY <2>1
<1>2. /\ m.header \in Header /\ nextDh \in DhKey /\ WellFormed(ratchet[p])
      /\ WellFormed(InitResponder(SPK))
  <2>1. SPK \in DhKey
    BY DEF SPK, DhKey
  <2> QED BY <1>1, <2>1, InitWellFormed DEF Envelope, IInv, TypeOK
<1>3. /\ out.ok \in BOOLEAN
      /\ \A opened : RecvSound(ratchet[p], opened) =>
            \/ out.ok /\ m.key \notin opened /\ RecvSound(out.state, opened \cup {m.key})
            \/ ~out.ok /\ (StoppedMidGap(out.state) \/ RecvSound(out.state, opened))
  BY <1>2, DecryptSound
<1>4. Decrypt(InitResponder(SPK), m.header, m.key, nextDh).ok \in BOOLEAN
  BY <1>2, DecryptSound
<1> HIDE DEF out
<1>5. p \notin overflowed /\ out.ok => ~StoppedMidGap(out.state)
  <2>1. p \notin overflowed => RecvSound(ratchet[p], OpenedKeys(p))
    BY DEF IInv, RecvInv
  <2> QED BY <1>3, <2>1 DEF RecvSound, StoppedMidGap
<1> QED BY <1>3, <1>4, <1>5 DEF out

\* Handing a message over counts one more opening of it, or none.
LEMMA HandedOpens ==
    ASSUME TypeOK, NEW p \in Party, NEW i \in 1 .. Len(wire[Peer(p)]),
           NEW ok \in BOOLEAN, Handed(p, i, ok)
    PROVE  Opened' = IF ok THEN [Opened EXCEPT ![Peer(p)][i] = @ + 1] ELSE Opened
<1> DEFINE z == Peer(p)
           after == IF ok THEN [Opened EXCEPT ![z][i] = @ + 1] ELSE Opened
<1>1. /\ \A q \in Party : Len(wire'[q]) = Len(wire[q])
      /\ \A q \in Party : \A j \in 1 .. Len(wire[q]) :
           wire'[q][j].accepts = IF q = z /\ j = i /\ ok THEN wire[q][j].accepts + 1
                                                        ELSE wire[q][j].accepts
  BY HandedFacts
<1>2. z \in Party /\ i \in 1 .. Len(wire[z])
  BY PeerFacts
<1>3. /\ DOMAIN Opened = Party /\ DOMAIN Opened' = Party
      /\ Opened = [q \in Party |-> Opened[q]] /\ Opened' = [q \in Party |-> Opened'[q]]
      /\ \A q \in Party : Opened[q] = [j \in 1 .. Len(wire[q]) |-> wire[q][j].accepts]
      /\ \A q \in Party : Opened'[q] = [j \in 1 .. Len(wire[q]) |-> wire'[q][j].accepts]
  BY <1>1 DEF Opened
<1> HIDE DEF z
<1>4. /\ after = [q \in Party |-> after[q]]
      /\ \A q \in Party : q # z => after[q] = Opened[q]
      /\ ok => after[z] = [Opened[z] EXCEPT ![i] = @ + 1]
      /\ ~ok => after[z] = Opened[z]
  BY <1>2, <1>3
<1> HIDE DEF after
<1>5. ASSUME NEW q \in Party
      PROVE  Opened'[q] = after[q]
  <2> DEFINE old == Opened[q]
             D == 1 .. Len(wire[q])
  <2>1. old = [j \in D |-> old[j]] /\ \A j \in D : old[j] = wire[q][j].accepts
    BY <1>3
  <2>2. Opened'[q] = [j \in D |-> wire'[q][j].accepts]
    BY <1>3
  <2>3. CASE q = z /\ ok
    <3>1. i \in D /\ after[q] = [old EXCEPT ![i] = @ + 1]
      BY <1>2, <1>4, <2>3
    <3>2. \A j \in D : wire'[q][j].accepts = IF j = i THEN old[j] + 1 ELSE old[j]
      <4>1. \A j \in D : wire'[q][j].accepts = IF j = i THEN wire[q][j].accepts + 1
                                                       ELSE wire[q][j].accepts
        <5> SUFFICES ASSUME NEW j \in D
                     PROVE  wire'[q][j].accepts = IF j = i THEN wire[q][j].accepts + 1
                                                           ELSE wire[q][j].accepts
          OBVIOUS
        <5>1. wire'[q][j].accepts = IF q = z /\ j = i /\ ok THEN wire[q][j].accepts + 1
                                                            ELSE wire[q][j].accepts
          BY <1>1
        <5> QED BY <2>3, <5>1
      <4> QED BY <2>1, <4>1
    <3> HIDE DEF old, D
    <3>3. after[q] = [j \in D |-> IF j = i THEN old[j] + 1 ELSE old[j]]
      BY <2>1, <3>1
    <3> QED BY <2>2, <3>2, <3>3
  <2>4. CASE ~(q = z /\ ok)
    <3>1. after[q] = old
      BY <1>4, <2>4
    <3>2. \A j \in D : wire'[q][j].accepts = old[j]
      BY <1>1, <2>1, <2>4
    <3> HIDE DEF old, D
    <3> QED BY <2>1, <2>2, <3>1, <3>2
  <2> QED BY <2>3, <2>4
<1>6. Opened' = after
  BY <1>3, <1>4, <1>5
<1> QED BY <1>6 DEF after, z

\* What the responder has opened is never taken back.
LEMMA NextHeard ==
    ASSUME IInv, RespondersHeard, [Next]_vars
    PROVE  RespondersHeard'
<1>1. Initiator \in Party /\ Responder \in Party /\ Peer(Responder) = Initiator
  BY DEF Party, Peer
<1>2. wire \in [Party -> Seq(Envelope)]
      /\ \A i \in 1 .. Len(wire[Initiator]) : wire[Initiator][i].accepts \in Nat
  <2>1. wire \in [Party -> Seq(Envelope)]
    BY DEF IInv, TypeOK
  <2>2. \A i \in 1 .. Len(wire[Initiator]) : wire[Initiator][i] \in Envelope
    BY <1>1, <2>1
  <2>3. \A x \in Envelope : x.accepts \in Nat
    BY DEF Envelope
  <2> QED BY <2>1, <2>2, <2>3
<1>3. CASE Initiate
  BY <1>3, PartyAssumption DEF Initiate, RespondersHeard
<1>4. ASSUME NEW p \in Party, Send(p)
      PROVE  RespondersHeard'
  <2>1. /\ \A q \in Party : Len(wire[q]) <= Len(wire'[q])
        /\ \A q \in Party : \A i \in 1 .. Len(wire[q]) : wire'[q][i] = wire[q][i]
    BY <1>4, SendOpens DEF IInv
  <2>2. established' = established
    BY <1>4 DEF Send
  <2>3. Len(wire[Initiator]) \in Nat /\ Len(wire'[Initiator]) \in Nat
    <3>1. wire' \in [Party -> Seq(Envelope)]
      BY <1>4, SendIInv DEF IInv, TypeOK
    <3> QED BY <1>1, <1>2, <3>1
  <2> QED BY <1>1, <2>1, <2>2, <2>3 DEF RespondersHeard
<1>5. ASSUME NEW i \in 1 .. Len(wire[Initiator]), Respond(i)
      PROVE  RespondersHeard'
  <2> DEFINE out == Decrypt(InitResponder(SPK), wire[Initiator][i].header,
                            wire[Initiator][i].key, nextDh)
             opens == ~HandshakeFails(wire[Initiator][i]) /\ out.ok
  <2>1. Responder \notin established /\ Handed(Responder, i, opens)
        /\ (Responder \in established' => opens)
    <3>1. CASE HandshakeFails(wire[Initiator][i])
      <4>1. opens = FALSE
        BY <3>1
      <4> HIDE DEF opens
      <4> QED BY <1>5, <3>1, <4>1 DEF Respond
    <3>2. CASE ~HandshakeFails(wire[Initiator][i])
      <4>1. opens = out.ok
        <5>1. out.ok \in BOOLEAN
          BY <1>1, DecryptOutcomes
        <5> QED BY <3>2, <5>1
      <4> HIDE DEF opens
      <4> QED BY <1>5, <3>2, <4>1 DEF Respond
    <3> QED BY <3>1, <3>2
  <2>2. opens \in BOOLEAN
    OBVIOUS
  <2> HIDE DEF opens, out
  <2>3. /\ Len(wire'[Initiator]) = Len(wire[Initiator])
        /\ opens => wire'[Initiator][i].accepts = wire[Initiator][i].accepts + 1
    BY <1>1, <2>1, <2>2, HandedFacts DEF IInv
  <2>4. opens => wire'[Initiator][i].accepts > 0
    BY <1>2, <2>3
  <2> QED BY <2>1, <2>3, <2>4 DEF RespondersHeard
<1>6. ASSUME NEW p \in Party, NEW i \in 1 .. Len(wire[Peer(p)]), Receive(p, i)
      PROVE  RespondersHeard'
  <2> DEFINE ok == Decrypt(ratchet[p], wire[Peer(p)][i].header,
                           wire[Peer(p)][i].key, nextDh).ok
  <2>1. Handed(p, i, ok) /\ established' = established
    BY <1>6 DEF Receive
  <2>2. ok \in BOOLEAN
    BY DecryptOutcomes
  <2> HIDE DEF ok
  <2>3. /\ Len(wire'[Initiator]) = Len(wire[Initiator])
        /\ \A j \in 1 .. Len(wire[Initiator]) :
             \/ wire'[Initiator][j].accepts = wire[Initiator][j].accepts
             \/ wire'[Initiator][j].accepts = wire[Initiator][j].accepts + 1
    BY <1>1, <2>1, <2>2, HandedFacts DEF IInv
  <2>4. \A j \in 1 .. Len(wire[Initiator]) :
          wire[Initiator][j].accepts > 0 => wire'[Initiator][j].accepts > 0
    <3> SUFFICES ASSUME NEW j \in 1 .. Len(wire[Initiator]), wire[Initiator][j].accepts > 0
                 PROVE  wire'[Initiator][j].accepts > 0
      OBVIOUS
    <3> DEFINE a == wire[Initiator][j].accepts
               b == wire'[Initiator][j].accepts
    <3>1. a \in Nat /\ a > 0 /\ (b = a \/ b = a + 1) BY <1>2, <2>3
    <3> HIDE DEF a, b
    <3>2. b > 0 BY <3>1
    <3> QED BY <3>2 DEF b
  <2> QED BY <2>1, <2>3, <2>4 DEF RespondersHeard
<1>7. CASE UNCHANGED vars
  BY <1>7 DEF vars, RespondersHeard
<1> QED BY <1>3, <1>4, <1>5, <1>6, <1>7 DEF Next

\* The channel's names for the two ends are the session's.
LEMMA ChannelEnds ==
    ASSUME NEW p \in Party
    PROVE  Promise!Ends = Party /\ Promise!Other(p) = Peer(p)
BY DEF Promise!Ends, Promise!Other, Party, Peer

\* Every step of a session is a step of the channel, or changes nothing that
\* the channel's user sees.
LEMMA StepsOfTheChannel ==
    ASSUME IInv, RespondersHeard, [Next]_vars
    PROVE  [Promise!Next]_<<Opened, overflowed>>
<1>1. /\ Initiator \in Party /\ Responder \in Party
      /\ Peer(Responder) = Initiator /\ Promise!Ends = Party
  BY ChannelEnds DEF Party, Peer
<1>2. \A q \in Party : /\ Len(Opened[q]) = Len(wire[q])
                       /\ \A i \in 1 .. Len(wire[q]) : Opened[q][i] = wire[q][i].accepts
  <2> SUFFICES ASSUME NEW q \in Party
               PROVE  /\ Len(Opened[q]) = Len(wire[q])
                      /\ \A i \in 1 .. Len(wire[q]) : Opened[q][i] = wire[q][i].accepts
    OBVIOUS
  <2>1. Len(wire[q]) \in Nat
    BY DEF IInv, TypeOK
  <2>2. Opened[q] = [i \in 1 .. Len(wire[q]) |-> wire[q][i].accepts]
    BY DEF Opened
  <2> QED BY <2>1, <2>2
<1>3. CASE Initiate
  BY <1>3 DEF Initiate, Opened
<1>4. ASSUME NEW p \in Party, Send(p)
      PROVE  Promise!Next
  <2>1. Opened' = [Opened EXCEPT ![p] = Append(@, 0)]
    BY <1>4, SendOpens DEF IInv
  <2>2. overflowed' = overflowed /\ p \in established
    BY <1>4 DEF Send
  <2>3. p = Initiator \/ Promise!Heard(p)
    <3>1. CASE p = Responder
      <4>1. PICK i \in 1 .. Len(wire[Initiator]) : wire[Initiator][i].accepts > 0
        BY <2>2, <3>1 DEF RespondersHeard
      <4>2. Promise!Other(p) = Initiator
        BY <1>1, <3>1, ChannelEnds
      <4> QED BY <1>1, <1>2, <4>1, <4>2 DEF Promise!Heard
    <3> QED BY <3>1 DEF Party
  <2>4. Promise!Say(p)
    BY <2>1, <2>2, <2>3 DEF Promise!Say
  <2> QED BY <1>1, <2>4 DEF Promise!Next
<1>5. ASSUME NEW p \in Party, NEW i \in 1 .. Len(wire[Peer(p)]), NEW ok \in BOOLEAN,
             Handed(p, i, ok),
             ok /\ p \notin overflowed => wire[Peer(p)][i].accepts = 0,
             ok => overflowed' = overflowed,
             ~ok => overflowed' = overflowed \/ overflowed' = overflowed \cup {p}
      PROVE  [Promise!Next]_<<Opened, overflowed>>
  <2>1. Opened' = IF ok THEN [Opened EXCEPT ![Peer(p)][i] = @ + 1] ELSE Opened
    BY <1>5, HandedOpens DEF IInv
  <2>2. Promise!Other(p) = Peer(p) /\ Peer(p) \in Party
    BY ChannelEnds, PeerFacts
  <2>3. CASE ok
    <3>1. p \in overflowed \/ Opened[Peer(p)][i] = 0
      BY <1>2, <1>5, <2>2, <2>3
    <3>2. Promise!Open(p, i) /\ UNCHANGED overflowed
      BY <1>5, <2>1, <2>2, <2>3, <3>1 DEF Promise!Open
    <3>3. i \in 1 .. Len(Opened[Promise!Other(p)])
      BY <1>2, <2>2
    <3> QED BY <1>1, <3>2, <3>3 DEF Promise!Next
  <2>4. CASE ~ok
    <3>1. Opened' = Opened
      BY <2>1, <2>4
    <3>2. CASE overflowed' = overflowed
      BY <3>1, <3>2
    <3>3. CASE overflowed' = overflowed \cup {p}
      BY <1>1, <3>1, <3>3 DEF Promise!Next, Promise!Break
    <3> QED BY <1>5, <2>4, <3>2, <3>3
  <2> QED BY <2>3, <2>4
<1>6. ASSUME NEW i \in 1 .. Len(wire[Initiator]), Respond(i)
      PROVE  [Promise!Next]_<<Opened, overflowed>>
  <2> DEFINE m == wire[Initiator][i]
             out == Decrypt(InitResponder(SPK), m.header, m.key, nextDh)
             opens == ~HandshakeFails(m) /\ out.ok
  <2>1. Handed(Responder, i, opens) /\ overflowed' = overflowed
    <3>1. CASE HandshakeFails(m)
      <4>1. opens = FALSE
        BY <3>1
      <4> HIDE DEF opens
      <4> QED BY <1>6, <3>1, <4>1 DEF Respond
    <3>2. CASE ~HandshakeFails(m)
      <4>1. opens = out.ok
        <5>1. out.ok \in BOOLEAN
          BY <1>1, DecryptOutcomes
        <5> QED BY <3>2, <5>1
      <4> HIDE DEF opens
      <4> QED BY <1>6, <3>2, <4>1 DEF Respond
    <3> QED BY <3>1, <3>2
  <2>2. opens \in BOOLEAN
    OBVIOUS
  <2> HIDE DEF opens, out
  <2>3. m.accepts = 0
    <3>1. OpenedKeys(Responder) = {}
      BY <1>1, <1>6 DEF Respond, IInv, SendInv
    <3>2. ~(m.accepts > 0)
      <4>1. m.accepts > 0 => m.key \in OpenedKeys(Responder)
        BY <1>1 DEF OpenedKeys
      <4> QED BY <3>1, <4>1
    <3>3. m.accepts \in Nat
      <4>1. wire[Initiator] \in Seq(Envelope)
        BY <1>1 DEF IInv, TypeOK
      <4>2. m \in Envelope
        BY <4>1
      <4> QED BY <4>2 DEF Envelope
    <3> QED BY <3>2, <3>3
  <2> QED BY <1>1, <1>5, <2>1, <2>2, <2>3
<1>7. ASSUME NEW p \in Party, NEW i \in 1 .. Len(wire[Peer(p)]), Receive(p, i)
      PROVE  [Promise!Next]_<<Opened, overflowed>>
  <2> DEFINE m == wire[Peer(p)][i]
             out == Decrypt(ratchet[p], m.header, m.key, nextDh)
             ok == out.ok
  <2>1. /\ Handed(p, i, ok)
        /\ overflowed' = overflowed \cup (IF StoppedMidGap(out.state) THEN {p} ELSE {})
    BY <1>7 DEF Receive
  <2>2. ok \in BOOLEAN /\ (p \notin overflowed /\ ok => ~StoppedMidGap(out.state))
    BY DecryptOutcomes
  <2>3. overflowed' = overflowed \/ overflowed' = overflowed \cup {p}
    BY <2>1
  <2>4. ok => overflowed' = overflowed
    BY <2>1, <2>2
  <2>5. ASSUME ok, p \notin overflowed
        PROVE  m.accepts = 0
    <3>1. wire[Peer(p)] \in Seq(Envelope)
      BY PeerFacts DEF IInv, TypeOK
    <3>2. m \in Envelope
      BY <3>1
    <3>3. m.accepts \in Nat
      BY <3>2 DEF Envelope
    <3>4. Handed(p, i, TRUE) /\ overflowed' = overflowed
      BY <2>1, <2>2, <2>4, <2>5
    <3>5. wire'[Peer(p)][i].accepts = m.accepts + 1 /\ Len(wire'[Peer(p)]) = Len(wire[Peer(p)])
      BY <3>4, PeerFacts, HandedFacts DEF IInv
    <3>6. NoReplay'
      BY <1>7, ReceiveIInv DEF IInv
    <3>7. wire'[Peer(p)][i].accepts <= 1
      BY <2>5, <3>4, <3>5, <3>6, PeerFacts DEF NoReplay
    <3> QED BY <3>3, <3>5, <3>7
  <2> HIDE DEF ok, out
  <2> QED BY <1>5, <2>1, <2>2, <2>3, <2>4, <2>5
<1>8. CASE UNCHANGED vars
  BY <1>8 DEF vars, Opened
<1> QED BY <1>3, <1>4, <1>6, <1>7, <1>8 DEF Next

\* A session implements the at-most-once channel, for every MAX_SKIP, every
\* cache cap and any traffic: Session::decrypt opens a message that was sent,
\* once, the responder never speaks first, and only the step in which a full
\* cache stops skip_message_keys in a gap, itself a refusal, ends the promise.
THEOREM SessionImplementsChannel == Spec => ImplementsChannel
<1>1. Init => Promise!Init
  <2> SUFFICES ASSUME Init
               PROVE  Promise!Init
    OBVIOUS
  <2>1. \A p \in Party : wire[p] = <<>>
    BY DEF Init
  <2>2. \A p \in Party : [i \in 1 .. Len(wire[p]) |-> wire[p][i].accepts] = <<>>
    BY <2>1
  <2>3. Opened = [p \in Party |-> <<>>]
    BY <2>2 DEF Opened
  <2> QED BY <2>3 DEF Init, Promise!Init, Promise!Ends, Party
<1>2. Init => RespondersHeard
  BY DEF Init, RespondersHeard
<1>3. IInv /\ RespondersHeard /\ [Next]_vars => RespondersHeard'
  BY NextHeard
<1>4. IInv /\ RespondersHeard /\ [Next]_vars => [Promise!Next]_<<Opened, overflowed>>
  BY StepsOfTheChannel
<1> QED BY <1>1, <1>2, <1>3, <1>4, Invariance, PTL DEF Spec, ImplementsChannel, Promise!Spec

-----------------------------------------------------------------------------
(* The agreement of the two ends on the keys.                              *)

\* s is one DH ratchet ahead of r: it has mixed r's present ratchet key into its
\* root, receives on the chain r sends on, and sends with a key r has not seen.
Ahead(r, s) ==
    /\ s.dh_remote = r.dh_self
    /\ s.root_key = Append(r.root_key, dh(s.dh_self, r.dh_self))
    /\ s.dh_self # r.dh_remote
    /\ IF s.chain_recv = None THEN r.chain_send = None ELSE s.chain_recv.id = r.root_key

\* The number of messages s sends in all on the chain r receives on, as far as
\* that is settled.
ChainEnd(r, s) == IF r.dh_remote = s.dh_self THEN s.n_send ELSE s.pn

\* The name of a message in the cache of skipped keys.
EntryOf(m) == <<m.header.dh_pub, m.header.n>>

\* What s sealed with its present key.
SealsSound(s, w) ==
    \A i \in 1 .. Len(w) : w[i].header.dh_pub = s.dh_self =>
        /\ w[i].key = <<s.root_key, w[i].header.n>>
        /\ w[i].header.pn = s.pn
        /\ w[i].header.n < s.n_send

\* What the chain r receives on yields.
ChainSound(r, s, w) ==
    /\ r.chain_recv # None => r.n_recv <= ChainEnd(r, s)
    /\ \A i \in 1 .. Len(w) : w[i].header.dh_pub = r.dh_remote =>
          /\ r.chain_recv # None
          /\ w[i].key = <<r.chain_recv.id, w[i].header.n>>
          /\ w[i].header.n < ChainEnd(r, s)

\* r has the key of message m in its cache, or will derive it.
Reaches(r, s, m) ==
    \/ EntryOf(m) \in DOMAIN r.skipped
    \/ m.header.dh_pub = r.dh_remote /\ r.n_recv <= m.header.n
    \/ m.header.dh_pub = s.dh_self /\ s.dh_self # r.dh_remote

\* r has cached no key that s has yet to use.
CacheBehind(r, s) == \A e \in DOMAIN r.skipped : e[1] = s.dh_self => e[2] < s.n_send

\* r can take what is still due of the wire w that s has sealed.
Expects(r, s, w, due) ==
    /\ SealsSound(s, w)
    /\ ChainSound(r, s, w)
    /\ \A i \in due : Reaches(r, s, w[i])
    /\ CacheBehind(r, s)

\* Each cached key is the key of the message of that name.
CacheRight(r, w) ==
    \A i \in 1 .. Len(w) : EntryOf(w[i]) \in DOMAIN r.skipped => r.skipped[EntryOf(w[i])] = w[i].key

\* No two messages of a wire have the same name.
HeadersDiffer(w) ==
    \A i, j \in 1 .. Len(w) : EntryOf(w[i]) = EntryOf(w[j]) => i = j

\* The sending chain stands at the number the state says it stands at.
InStep(r) == r.chain_send # None => r.chain_send.pos = r.n_send

\* The state knows no key pair from d on.
Below(r, d) ==
    /\ r.dh_self < d
    /\ r.dh_remote # None => r.dh_remote < d
    /\ \A e \in DOMAIN r.skipped : e[1] < d

\* Nor does any header of the wire.
WireBelow(w, d) == \A i \in 1 .. Len(w) : w[i].header.dh_pub < d

\* The receiving chain stands at the number the state says it stands at.
InStepRecv(r) == r.chain_recv # None => r.chain_recv.pos = r.n_recv

\* An interval of natural numbers is finite and has so many elements.
LEMMA IntervalSize ==
    ASSUME NEW a \in Nat, NEW b \in Nat
    PROVE  /\ IsFiniteSet(a .. (b - 1))
           /\ a <= b => Cardinality(a .. (b - 1)) = b - a
<1>1. a \in Int /\ b - 1 \in Int
  OBVIOUS
<1>2. /\ IsFiniteSet(a .. (b - 1))
      /\ Cardinality(a .. (b - 1)) = IF a > b - 1 THEN 0 ELSE b - 1 - a + 1
  BY <1>1, FS_Interval
<1> QED BY <1>2

\* The numbers the loop stores are consecutive, from n_recv on.
LEMMA StoredConsecutive ==
    ASSUME NEW r, WellFormed(r), r.chain_recv # None, NEW until \in Nat
    PROVE  LET nums == StoredNumbers(r, until)
           IN  /\ Cardinality(nums) \in Nat
               /\ nums = r.n_recv .. (r.n_recv + Cardinality(nums) - 1)
<1> DEFINE nums == StoredNumbers(r, until)
           d == DOMAIN r.skipped
           upto(m) == d \cup ({r.dh_remote} \X (r.n_recv .. (m - 1)))
<1>1. r.n_recv \in Nat /\ IsFiniteSet(d)
  BY DEF WellFormed, IsRatchetState, IsSkippedMap
<1>2. nums \in SUBSET (r.n_recv .. (until - 1)) /\ IsFiniteSet(nums)
  BY StoredFits
<1>3. Cardinality(nums) \in Nat
  BY <1>2, FS_CardinalityType
<1>4. CASE nums = {}
  <2>1. Cardinality(nums) = 0
    BY <1>4, FS_EmptySet
  <2> QED BY <1>1, <1>3, <1>4, <2>1
<1>5. CASE nums # {}
  <2>1. PICK m \in nums : \A k \in nums : k <= m
    <3>1. nums \in SUBSET Int /\ until \in Int /\ \A x \in nums : x < until
      BY <1>1, <1>2
    <3> HIDE DEF nums
    <3> QED BY <1>5, <3>1, LargestBelow
  <2>2. m \in Nat /\ m \in r.n_recv .. (until - 1)
    BY <1>1, <1>2, <2>1
  <2>3. ASSUME NEW k \in r.n_recv .. m
        PROVE  k \in nums
    <3>1. k \in Nat /\ k \in r.n_recv .. (until - 1)
      BY <1>1, <2>2
    <3>2. IsFiniteSet(upto(m)) /\ upto(k) \subseteq upto(m)
      <4>1. IsFiniteSet(r.n_recv .. (m - 1))
        BY <1>1, <2>2, IntervalSize
      <4>2. IsFiniteSet({r.dh_remote} \X (r.n_recv .. (m - 1)))
        BY <4>1, FS_Singleton, FS_Product
      <4>3. r.n_recv .. (k - 1) \subseteq r.n_recv .. (m - 1)
        BY <1>1, <2>2, <3>1
      <4> QED BY <1>1, <4>2, <4>3, FS_Union
    <3>3. /\ Cardinality(upto(k)) <= Cardinality(upto(m))
          /\ Cardinality(upto(k)) \in Nat /\ Cardinality(upto(m)) \in Nat
      <4> HIDE DEF upto
      <4> QED BY <3>2, FS_Subset, FS_CardinalityType
    <3>4. Cardinality(upto(m)) < MAX_SKIPPED_CACHE
      <4>1. m \in StoredNumbers(r, until)
        BY <2>1
      <4> QED BY <4>1 DEF StoredNumbers
    <3>5. Cardinality(upto(k)) < MAX_SKIPPED_CACHE
      BY <3>3, <3>4, SkipAssumption
    <3> QED BY <3>1, <3>5 DEF StoredNumbers
  <2>4. nums = r.n_recv .. m
    <3> HIDE DEF nums
    <3>1. nums \subseteq r.n_recv .. m
      BY <1>1, <1>2, <2>1, <2>2
    <3> QED BY <2>3, <3>1
  <2>5. m + 1 \in Nat /\ (m + 1) - 1 = m /\ r.n_recv <= m + 1
    BY <1>1, <2>2
  <2>6. Cardinality(r.n_recv .. m) = (m + 1) - r.n_recv
    <3>1. Cardinality(r.n_recv .. ((m + 1) - 1)) = (m + 1) - r.n_recv
      BY <1>1, <2>5, IntervalSize
    <3> QED BY <2>5, <3>1
  <2> HIDE DEF nums
  <2>7. r.n_recv + Cardinality(nums) - 1 = m
    BY <1>1, <2>2, <2>4, <2>6
  <2>8. nums = r.n_recv .. (r.n_recv + Cardinality(nums) - 1)
    BY <2>4, <2>7
  <2> QED BY <1>3, <2>8 DEF nums
<1> QED BY <1>4, <1>5

\* The cache after a run of consecutive numbers has at most so many more keys.
LEMMA CacheGrowth ==
    ASSUME NEW d, IsFiniteSet(d), NEW x, NEW a \in Nat, NEW b \in Nat, a <= b
    PROVE  LET u == d \cup ({x} \X (a .. (b - 1)))
           IN  IsFiniteSet(u) /\ Cardinality(u) <= Cardinality(d) + (b - a)
<1> DEFINE n == a .. (b - 1)
           t == {x} \X n
<1>1. IsFiniteSet(n) /\ Cardinality(n) = b - a
  BY IntervalSize
<1>2. IsFiniteSet({x}) /\ Cardinality({x}) = 1
  BY FS_Singleton
<1>3. IsFiniteSet(t) /\ Cardinality(t) = b - a
  <2> HIDE DEF n
  <2>1. IsFiniteSet(t) /\ Cardinality(t) = Cardinality({x}) * Cardinality(n)
    BY <1>1, <1>2, FS_Product
  <2> QED BY <1>1, <1>2, <2>1
<1> HIDE DEF t
<1>4. IsFiniteSet(d \cup t) /\ Cardinality(d \cup t) = Cardinality(d) + Cardinality(t) - Cardinality(d \cap t)
  BY <1>3, FS_Union
<1>5. IsFiniteSet(d \cap t)
  BY <1>3, FS_Subset
<1>6. Cardinality(d \cap t) \in Nat /\ Cardinality(d) \in Nat
  BY <1>5, FS_CardinalityType
<1>7. Cardinality(d \cup t) <= Cardinality(d) + (b - a)
  BY <1>3, <1>4, <1>6
<1> QED BY <1>4, <1>7 DEF t

\* The loop is stopped by a full cache only when the keys do not fit.
LEMMA LoopStopped ==
    ASSUME NEW r, WellFormed(r), r.chain_recv # None,
           NEW until \in Nat, r.n_recv <= until,
           StoredNumbers(r, until) # r.n_recv .. (until - 1)
    PROVE  Cardinality(DOMAIN r.skipped) + (until - r.n_recv) > MAX_SKIPPED_CACHE
<1> DEFINE d == DOMAIN r.skipped
<1>1. r.n_recv \in Nat /\ IsFiniteSet(d) /\ Cardinality(d) \in Nat
  BY FS_CardinalityType DEF WellFormed, IsRatchetState, IsSkippedMap
<1>2. PICK m \in r.n_recv .. (until - 1) : m \notin StoredNumbers(r, until)
  BY StoredFits
<1>3. m \in Nat /\ r.n_recv <= m /\ m < until
  BY <1>1, <1>2
<1> DEFINE u == d \cup ({r.dh_remote} \X (r.n_recv .. (m - 1)))
<1>4. ~(Cardinality(u) < MAX_SKIPPED_CACHE)
  BY <1>2 DEF StoredNumbers
<1>5. IsFiniteSet(u) /\ Cardinality(u) <= Cardinality(d) + (m - r.n_recv)
  BY <1>1, <1>3, CacheGrowth
<1>6. Cardinality(u) \in Nat
  BY <1>5, FS_CardinalityType
<1> QED BY <1>1, <1>3, <1>4, <1>5, <1>6, SkipAssumption

\* q is r after some of the keys in front have been cached.
MovedOn(r, q) ==
    /\ SameKeys(r, q)
    /\ r.chain_recv = None => q.chain_recv = None
    /\ r.chain_recv # None => q.chain_recv # None /\ q.chain_recv.id = r.chain_recv.id
    /\ q.n_recv \in Nat
    /\ r.n_recv <= q.n_recv
    /\ DOMAIN q.skipped = DOMAIN r.skipped \cup ({r.dh_remote} \X (r.n_recv .. (q.n_recv - 1)))
    /\ \A e \in DOMAIN q.skipped :
          q.skipped[e] = IF e \in {r.dh_remote} \X (r.n_recv .. (q.n_recv - 1))
                           THEN KeyAhead(r.chain_recv, e[2] - r.n_recv)
                           ELSE r.skipped[e]

\* skip_message_keys, told by what it moves: on success the chain stands at
\* the number asked for, and it fails only for a gap or a cache too large.
LEMMA SkipMoves ==
    ASSUME NEW r, WellFormed(r), NEW until \in Nat
    PROVE  LET out == SkipMessageKeys(r, until)
               q == out.state
           IN  /\ out.ok \in BOOLEAN
               /\ WellFormed(q) /\ SameSending(r, q)
               /\ MovedOn(r, q)
               /\ q.n_recv <= until \/ q.n_recv = r.n_recv
               /\ r.chain_recv = None \/ until < r.n_recv => out.ok /\ q = r
               /\ out.ok /\ r.chain_recv # None /\ r.n_recv <= until => q.n_recv = until
               /\ out.ok /\ InStepRecv(r) => InStepRecv(q)
               /\ ~out.ok => \/ until - r.n_recv > MAX_SKIP
                             \/ Cardinality(DOMAIN r.skipped) + (until - r.n_recv) > MAX_SKIPPED_CACHE
<1> DEFINE out == SkipMessageKeys(r, until)
<1>1. r.n_recv \in Nat /\ IsSkippedMap(r.skipped) /\ r.chain_recv \in ChainKey \cup {None}
  BY DEF WellFormed, IsRatchetState
<1>2. MovedOn(r, r) /\ SameSending(r, r)
  <2>1. r.n_recv .. (r.n_recv - 1) = {}
    BY <1>1
  <2> QED BY <1>1, <2>1 DEF MovedOn, SameKeys, SameSending
<1>3. CASE r.chain_recv = None \/ until < r.n_recv
  <2>1. out.state = r /\ out.ok = TRUE
    BY <1>3 DEF SkipMessageKeys, Outcome
  <2> HIDE DEF out
  <2>2. ~(r.chain_recv # None /\ r.n_recv <= until)
    BY <1>1, <1>3
  <2> QED BY <1>2, <2>1, <2>2 DEF out
<1>4. CASE r.chain_recv # None /\ ~(until < r.n_recv) /\ until - r.n_recv > MAX_SKIP
  <2>1. out.state = r /\ out.ok = FALSE
    BY <1>4 DEF SkipMessageKeys, Outcome
  <2> HIDE DEF out
  <2> QED BY <1>2, <1>4, <2>1 DEF out
<1>5. CASE r.chain_recv # None /\ ~(until < r.n_recv) /\ ~(until - r.n_recv > MAX_SKIP)
  <2> DEFINE loop == SkipLoop(r, until)
             nums == StoredNumbers(r, until)
             q == loop.state
  <2>1. out = loop
    BY <1>5 DEF SkipMessageKeys
  <2>2. r.n_recv <= until /\ r.chain_recv \in ChainKey
    BY <1>1, <1>5
  <2>3. /\ loop.ok \in BOOLEAN
        /\ WellFormed(q) /\ SameKeys(r, q) /\ SameSending(r, q)
        /\ q.skipped = CacheNumbers(r, nums)
        /\ q.n_recv = r.n_recv + Cardinality(nums)
        /\ loop.ok => /\ nums = r.n_recv .. (until - 1)
                      /\ q.n_recv = until
                      /\ q.chain_recv = Advance(r.chain_recv, until - r.n_recv)
        /\ ~loop.ok => q.chain_recv = r.chain_recv
    BY <1>5, <2>2, SkipLoopFields
  <2>4. /\ Cardinality(nums) \in Nat
        /\ nums = r.n_recv .. (r.n_recv + Cardinality(nums) - 1)
        /\ nums \in SUBSET (r.n_recv .. (until - 1))
    BY <1>5, StoredConsecutive, StoredFits
  <2>5. /\ DOMAIN q.skipped = DOMAIN r.skipped \cup ({r.dh_remote} \X nums)
        /\ \A e \in DOMAIN q.skipped :
              q.skipped[e] = IF e \in {r.dh_remote} \X nums
                               THEN KeyAhead(r.chain_recv, e[2] - r.n_recv)
                               ELSE r.skipped[e]
    <3> DEFINE f == CacheNumbers(r, nums)
    <3>1. /\ DOMAIN f = DOMAIN r.skipped \cup ({r.dh_remote} \X nums)
          /\ \A e \in DOMAIN f :
                f[e] = IF e \in {r.dh_remote} \X nums
                         THEN KeyAhead(r.chain_recv, e[2] - r.n_recv)
                         ELSE r.skipped[e]
      BY <1>5, CacheFields
    <3>2. q.skipped = f
      BY <2>3
    <3> HIDE DEF f, q, nums
    <3> QED BY <3>1, <3>2
  <2>6. until - r.n_recv \in Nat
    BY <1>1, <2>2
  <2>7. /\ Advance(r.chain_recv, until - r.n_recv) \in ChainKey
        /\ Advance(r.chain_recv, until - r.n_recv).id = r.chain_recv.id
        /\ Advance(r.chain_recv, until - r.n_recv).pos = r.chain_recv.pos + (until - r.n_recv)
    BY <2>2, <2>6, AdvanceFields
  <2>8. ~loop.ok => Cardinality(DOMAIN r.skipped) + (until - r.n_recv) > MAX_SKIPPED_CACHE
    <3>1. ~loop.ok => nums # r.n_recv .. (until - 1)
      BY DEF SkipLoop, Outcome
    <3> QED BY <1>5, <2>2, <3>1, LoopStopped
  <2> HIDE DEF nums, q, loop
  <2>9. q.n_recv \in Nat /\ r.n_recv <= q.n_recv /\ nums = r.n_recv .. (q.n_recv - 1)
    <3>1. q.n_recv \in Nat /\ r.n_recv <= q.n_recv
      BY <1>1, <2>3, <2>4
    <3>2. q.n_recv = r.n_recv + Cardinality(nums)
      BY <2>3
    <3>3. nums = r.n_recv .. (r.n_recv + Cardinality(nums) - 1)
      BY <2>4
    <3>4. nums = r.n_recv .. (q.n_recv - 1)
      <4>1. \A a, c \in Nat : (a + c) - 1 = a + (c - 1)
        OBVIOUS
      <4>2. r.n_recv \in Nat /\ Cardinality(nums) \in Nat
        BY <1>1, <2>4
      <4>3. q.n_recv - 1 = r.n_recv + (Cardinality(nums) - 1)
        BY <3>2, <4>1, <4>2
      <4> QED BY <3>3, <4>3
    <3> QED BY <3>1, <3>4
  <2>10. q.n_recv <= until
    <3>1. CASE nums = {}
      BY <1>1, <2>2, <2>9, <3>1
    <3>2. CASE nums # {}
      <4>1. q.n_recv - 1 \in nums
        BY <1>1, <2>9, <3>2
      <4> QED BY <1>1, <2>4, <2>9, <4>1
    <3> QED BY <3>1, <3>2
  <2>11. q.chain_recv # None /\ q.chain_recv.id = r.chain_recv.id
    BY <1>5, <2>3, <2>7, NoneAssumption
  <2>12. MovedOn(r, q)
    BY <1>5, <2>3, <2>5, <2>9, <2>11 DEF MovedOn
  <2>13. loop.ok /\ InStepRecv(r) => InStepRecv(q)
    <3> SUFFICES ASSUME loop.ok, InStepRecv(r)
                 PROVE  q.chain_recv.pos = q.n_recv
      BY DEF InStepRecv
    <3>1. r.chain_recv.pos = r.n_recv
      BY <1>5 DEF InStepRecv
    <3> QED BY <1>1, <2>3, <2>7, <3>1
  <2> QED BY <1>5, <2>1, <2>3, <2>8, <2>10, <2>12, <2>13 DEF q
<1> QED BY <1>3, <1>4, <1>5

\* The types of a message on the wire.
LEMMA EnvelopeFacts ==
    ASSUME NEW w \in Seq(Envelope), NEW i \in 1 .. Len(w)
    PROVE  /\ w[i].header \in Header
           /\ w[i].header.dh_pub \in DhKey /\ w[i].header.n \in Nat /\ w[i].header.pn \in Nat
           /\ w[i].key \in MessageKey
<1>1. w[i] \in Envelope
  OBVIOUS
<1>2. w[i].header \in Header /\ w[i].key \in MessageKey
  BY <1>1 DEF Envelope
<1> QED BY <1>2 DEF Header

\* The types of a ratchet state.
LEMMA StateFacts ==
    ASSUME NEW r, WellFormed(r)
    PROVE  /\ r.dh_self \in DhKey /\ r.dh_remote \in DhKey \cup {None}
           /\ r.root_key \in RootKey
           /\ r.n_send \in Nat /\ r.n_recv \in Nat /\ r.pn \in Nat
           /\ r.chain_recv \in ChainKey \cup {None}
           /\ r.chain_send \in ChainKey \cup {None}
           /\ \A e \in DOMAIN r.skipped : e \in DhKey \X Nat
BY DEF WellFormed, IsRatchetState, IsSkippedMap

\* Caching the keys in front, no further than the chain goes, loses no message
\* that is still to come, and puts the right keys into the cache.
LEMMA MovedExpects ==
    ASSUME NEW r, WellFormed(r), NEW s, WellFormed(s), NEW q, MovedOn(r, q),
           NEW w \in Seq(Envelope), NEW due \in SUBSET (1 .. Len(w)),
           r.chain_recv # None, q.n_recv <= ChainEnd(r, s),
           Expects(r, s, w, due)
    PROVE  /\ Expects(q, s, w, due)
           /\ CacheRight(r, w) /\ InStepRecv(r) => CacheRight(q, w)
<1> DEFINE new == {r.dh_remote} \X (r.n_recv .. (q.n_recv - 1))
<1>1. /\ q.dh_remote = r.dh_remote /\ q.chain_recv # None /\ q.chain_recv.id = r.chain_recv.id
      /\ q.n_recv \in Nat /\ r.n_recv <= q.n_recv
      /\ DOMAIN q.skipped = DOMAIN r.skipped \cup new
      /\ \A e \in DOMAIN q.skipped :
            q.skipped[e] = IF e \in new THEN KeyAhead(r.chain_recv, e[2] - r.n_recv)
                                        ELSE r.skipped[e]
  BY DEF MovedOn, SameKeys
<1>2. r.n_recv \in Nat /\ s.n_send \in Nat /\ s.pn \in Nat /\ r.chain_recv \in ChainKey
  BY StateFacts
<1>3. ChainEnd(q, s) = ChainEnd(r, s)
  BY <1>1 DEF ChainEnd
<1>4. SealsSound(s, w) /\ ChainSound(r, s, w) /\ CacheBehind(r, s)
  BY DEF Expects
<1>5. ChainSound(q, s, w)
  BY <1>1, <1>3, <1>4 DEF ChainSound
<1>6. ASSUME NEW i \in due
      PROVE  Reaches(q, s, w[i])
  <2>1. w[i].header.n \in Nat
    BY EnvelopeFacts
  <2>2. Reaches(r, s, w[i])
    BY DEF Expects
  <2>3. CASE EntryOf(w[i]) \in DOMAIN r.skipped
    BY <1>1, <2>3 DEF Reaches
  <2>4. CASE w[i].header.dh_pub = r.dh_remote /\ r.n_recv <= w[i].header.n
    <3>1. CASE q.n_recv <= w[i].header.n
      BY <1>1, <2>4, <3>1 DEF Reaches
    <3>2. CASE ~(q.n_recv <= w[i].header.n)
      <4>1. w[i].header.n \in r.n_recv .. (q.n_recv - 1)
        BY <1>1, <1>2, <2>1, <2>4, <3>2
      <4>2. EntryOf(w[i]) \in new
        BY <2>4, <4>1 DEF EntryOf
      <4> QED BY <1>1, <4>2 DEF Reaches
    <3> QED BY <3>1, <3>2
  <2>5. CASE w[i].header.dh_pub = s.dh_self /\ s.dh_self # r.dh_remote
    BY <1>1, <2>5 DEF Reaches
  <2> QED BY <2>2, <2>3, <2>4, <2>5 DEF Reaches
<1>7. CacheBehind(q, s)
  <2> SUFFICES ASSUME NEW e \in DOMAIN q.skipped, e[1] = s.dh_self
               PROVE  e[2] < s.n_send
    BY DEF CacheBehind
  <2>1. CASE e \in DOMAIN r.skipped
    BY <1>4, <2>1 DEF CacheBehind
  <2>2. CASE e \in new
    <3>1. e[1] = r.dh_remote /\ e[2] \in r.n_recv .. (q.n_recv - 1)
      BY <2>2
    <3>2. ChainEnd(r, s) = s.n_send
      BY <3>1 DEF ChainEnd
    <3> QED BY <1>1, <1>2, <3>1, <3>2
  <2> QED BY <1>1, <2>1, <2>2
<1>8. ASSUME CacheRight(r, w), InStepRecv(r), NEW i \in 1 .. Len(w),
             EntryOf(w[i]) \in DOMAIN q.skipped
      PROVE  q.skipped[EntryOf(w[i])] = w[i].key
  <2> DEFINE e == EntryOf(w[i])
  <2>1. CASE e \in new
    <3>1. w[i].header.dh_pub = r.dh_remote
          /\ w[i].header.n \in r.n_recv .. (q.n_recv - 1) /\ e[2] = w[i].header.n
      BY <2>1 DEF EntryOf
    <3>2. w[i].key = <<r.chain_recv.id, w[i].header.n>>
      BY <1>4, <3>1 DEF ChainSound
    <3>3. r.chain_recv.pos = r.n_recv
      BY <1>8 DEF InStepRecv
    <3>4. r.n_recv + (w[i].header.n - r.n_recv) = w[i].header.n
      BY <1>1, <1>2, <3>1
    <3>5. q.skipped[e] = KeyAhead(r.chain_recv, e[2] - r.n_recv)
      BY <1>1, <1>8, <2>1
    <3> QED BY <3>1, <3>2, <3>3, <3>4, <3>5 DEF KeyAhead
  <2>2. CASE e \notin new
    <3>1. e \in DOMAIN r.skipped /\ q.skipped[e] = r.skipped[e]
      BY <1>1, <1>8, <2>2
    <3> QED BY <1>8, <3>1 DEF CacheRight
  <2> QED BY <2>1, <2>2
<1> QED BY <1>4, <1>5, <1>6, <1>7, <1>8 DEF Expects, CacheRight

\* skip_message_keys, on its way to a number the chain goes to.
LEMMA SkipExpects ==
    ASSUME NEW r, WellFormed(r), NEW s, WellFormed(s), NEW until \in Nat,
           NEW w \in Seq(Envelope), NEW due \in SUBSET (1 .. Len(w)),
           r.chain_recv = None \/ until <= ChainEnd(r, s),
           Expects(r, s, w, due)
    PROVE  LET q == SkipMessageKeys(r, until).state
           IN  /\ Expects(q, s, w, due)
               /\ CacheRight(r, w) /\ InStepRecv(r) => CacheRight(q, w)
<1> DEFINE q == SkipMessageKeys(r, until).state
<1>1. /\ MovedOn(r, q)
      /\ q.n_recv <= until \/ q.n_recv = r.n_recv
      /\ r.chain_recv = None => q = r
  BY SkipMoves
<1> HIDE DEF q
<1>2. CASE r.chain_recv = None
  BY <1>1, <1>2 DEF q
<1>3. CASE r.chain_recv # None
  <2>1. r.n_recv <= ChainEnd(r, s)
    BY <1>3 DEF Expects, ChainSound
  <2>2. q.n_recv \in Nat /\ ChainEnd(r, s) \in Nat
    BY <1>1, StateFacts DEF MovedOn, ChainEnd
  <2>3. q.n_recv <= ChainEnd(r, s)
    BY <1>1, <1>3, <2>1, <2>2
  <2> QED BY <1>1, <1>3, <2>3, MovedExpects DEF q
<1> QED BY <1>2, <1>3

\* The end of decrypt, at the number of the message.
LEMMA NextExpects ==
    ASSUME NEW r, WellFormed(r), NEW s, WellFormed(s), r.chain_recv # None,
           NEW w \in Seq(Envelope), NEW due \in SUBSET (1 .. Len(w)), HeadersDiffer(w),
           Expects(r, s, w, due), NEW i \in due,
           w[i].header.dh_pub = r.dh_remote, w[i].header.n = r.n_recv
    PROVE  LET out == OpenNext(r, w[i].key)
           IN  /\ Expects(out.state, s, w, due \ {i})
               /\ CacheRight(r, w) => CacheRight(out.state, w)
               /\ InStepRecv(r) => out.ok
<1> DEFINE out == OpenNext(r, w[i].key)
           q == out.state
<1>1. /\ out.ok = (KeyOf(r.chain_recv) = w[i].key)
      /\ SameKeys(r, q) /\ q.chain_recv \in ChainKey
      /\ q.chain_recv.id = r.chain_recv.id
      /\ q.n_recv = r.n_recv + 1 /\ q.skipped = r.skipped
  BY OpenNextFields
<1> HIDE DEF out, q
<1>2. r.n_recv \in Nat /\ s.n_send \in Nat /\ s.pn \in Nat /\ ChainEnd(r, s) \in Nat
  BY StateFacts DEF ChainEnd
<1>3. SealsSound(s, w) /\ ChainSound(r, s, w) /\ CacheBehind(r, s)
  BY DEF Expects
<1>4. w[i].key = <<r.chain_recv.id, r.n_recv>> /\ r.n_recv < ChainEnd(r, s)
  BY <1>3 DEF ChainSound
<1>5. q.dh_remote = r.dh_remote /\ q.chain_recv # None
  BY <1>1, NoneAssumption DEF SameKeys
<1>6. ChainEnd(q, s) = ChainEnd(r, s)
  BY <1>5 DEF ChainEnd
<1>7. q.n_recv <= ChainEnd(q, s)
  BY <1>1, <1>2, <1>4, <1>6
<1>8. ChainSound(q, s, w)
  BY <1>1, <1>3, <1>5, <1>6, <1>7 DEF ChainSound
<1>9. CacheBehind(q, s)
  BY <1>1, <1>3 DEF CacheBehind
<1>10. ASSUME NEW j \in due \ {i}
       PROVE  Reaches(q, s, w[j])
  <2>1. Reaches(r, s, w[j]) /\ w[j].header.n \in Nat
    BY EnvelopeFacts DEF Expects
  <2>2. w[j].header.dh_pub = r.dh_remote => w[j].header.n # r.n_recv
    BY DEF HeadersDiffer, EntryOf
  <2> QED BY <1>1, <1>2, <1>5, <2>1, <2>2 DEF Reaches
<1>11. CacheRight(r, w) => CacheRight(q, w)
  BY <1>1 DEF CacheRight
<1>12. InStepRecv(r) => out.ok
  BY <1>1, <1>4 DEF InStepRecv, KeyOf
<1>13. Expects(q, s, w, due \ {i})
  BY <1>3, <1>8, <1>9, <1>10 DEF Expects
<1> QED BY <1>11, <1>12, <1>13 DEF q, out

\* decrypt with a cached key.
LEMMA CachedExpects ==
    ASSUME NEW r, WellFormed(r), NEW s, WellFormed(s),
           NEW w \in Seq(Envelope), NEW due \in SUBSET (1 .. Len(w)), HeadersDiffer(w),
           Expects(r, s, w, due), NEW i \in due, EntryOf(w[i]) \in DOMAIN r.skipped
    PROVE  LET out == OpenCached(r, EntryOf(w[i]), w[i].key)
           IN  /\ Expects(out.state, s, w, due \ {i})
               /\ CacheRight(r, w) => CacheRight(out.state, w) /\ out.ok
<1> DEFINE out == OpenCached(r, EntryOf(w[i]), w[i].key)
           q == out.state
<1>1. /\ out.ok = (r.skipped[EntryOf(w[i])] = w[i].key)
      /\ SameKeys(r, q) /\ q.chain_recv = r.chain_recv /\ q.n_recv = r.n_recv
      /\ DOMAIN q.skipped = DOMAIN r.skipped \ {EntryOf(w[i])}
      /\ \A e \in DOMAIN q.skipped : q.skipped[e] = r.skipped[e]
  BY OpenCachedFields
<1> HIDE DEF out, q
<1>2. SealsSound(s, w) /\ ChainSound(r, s, w) /\ CacheBehind(r, s)
  BY DEF Expects
<1>3. q.dh_remote = r.dh_remote
  BY <1>1 DEF SameKeys
<1>4. ChainEnd(q, s) = ChainEnd(r, s)
  BY <1>3 DEF ChainEnd
<1>5. ChainSound(q, s, w)
  BY <1>1, <1>2, <1>3, <1>4 DEF ChainSound
<1>6. CacheBehind(q, s)
  BY <1>1, <1>2 DEF CacheBehind
<1>7. ASSUME NEW j \in due \ {i}
      PROVE  Reaches(q, s, w[j])
  <2>1. Reaches(r, s, w[j])
    BY DEF Expects
  <2>2. EntryOf(w[j]) # EntryOf(w[i])
    BY DEF HeadersDiffer
  <2> QED BY <1>1, <1>3, <2>1, <2>2 DEF Reaches
<1>8. CacheRight(r, w) => CacheRight(q, w) /\ out.ok
  BY <1>1 DEF CacheRight
<1>9. Expects(q, s, w, due \ {i})
  BY <1>2, <1>5, <1>6, <1>7 DEF Expects
<1> QED BY <1>8, <1>9 DEF q, out

\* The two states of one conversation: one is a DH ratchet ahead of the other,
\* and each expects what the other has sent.  w is the wire of s and due what r
\* has still to be handed of it, v and dv the same the other way.
Linked(r, s) == Ahead(r, s) \/ Ahead(s, r)

Agrees(r, s, w, v, due, dv) ==
    /\ Linked(r, s)
    /\ Expects(r, s, w, due)
    /\ Expects(s, r, v, dv)

\* What moves neither the keys nor the sending side nor the receiving chain's
\* root is no news to the other end.
LEMMA SameAgrees ==
    ASSUME NEW r, NEW q, NEW s, SameKeys(r, q), SameSending(r, q),
           r.chain_recv = None => q.chain_recv = None,
           r.chain_recv # None => q.chain_recv # None /\ q.chain_recv.id = r.chain_recv.id
    PROVE  /\ Ahead(r, s) => Ahead(q, s)
           /\ Linked(r, s) => Linked(q, s)
           /\ \A v, dv : Expects(s, r, v, dv) => Expects(s, q, v, dv)
<1>1. Ahead(r, s) => Ahead(q, s)
  BY DEF Ahead, SameKeys, SameSending
<1>2. Ahead(s, r) => Ahead(s, q)
  BY DEF Ahead, SameKeys, SameSending
<1>3. ASSUME NEW v, NEW dv, Expects(s, r, v, dv)
      PROVE  Expects(s, q, v, dv)
  <2>1. q.dh_self = r.dh_self /\ q.root_key = r.root_key /\ q.pn = r.pn /\ q.n_send = r.n_send
    BY DEF SameKeys, SameSending
  <2>2. ChainEnd(s, q) = ChainEnd(s, r)
    BY <2>1 DEF ChainEnd
  <2>3. SealsSound(q, v)
    BY <1>3, <2>1 DEF Expects, SealsSound
  <2>4. ChainSound(s, q, v)
    BY <1>3, <2>2 DEF Expects, ChainSound
  <2>5. \A i \in dv : Reaches(s, q, v[i])
    BY <1>3, <2>1 DEF Expects, Reaches
  <2>6. CacheBehind(s, q)
    BY <1>3, <2>1 DEF Expects, CacheBehind
  <2> QED BY <2>3, <2>4, <2>5, <2>6 DEF Expects
<1> QED BY <1>1, <1>2, <1>3 DEF Linked

\* The fields of a state that has just turned its ratchet.
LEMMA DhRatchetValues ==
    ASSUME NEW r, WellFormed(r), NEW remote \in DhKey, NEW fresh \in DhKey
    PROVE  LET q == DhRatchet(r, remote, fresh)
               root == Append(r.root_key, dh(r.dh_self, remote))
           IN  /\ q.dh_self = fresh /\ q.dh_remote = remote
               /\ q.root_key = Append(root, dh(fresh, remote))
               /\ q.chain_recv # None /\ q.chain_recv.id = root /\ q.chain_recv.pos = 0
               /\ q.chain_send # None /\ q.chain_send.pos = 0
               /\ q.n_send = 0 /\ q.n_recv = 0 /\ q.pn = r.n_send
               /\ q.skipped = r.skipped
<1> DEFINE root == Append(r.root_key, dh(r.dh_self, remote))
           root2 == Append(root, dh(fresh, remote))
           cr == FirstChainKey(root)
           cs == FirstChainKey(root2)
<1>1. DhRatchet(r, remote, fresh) =
        [r EXCEPT !.pn = r.n_send, !.n_send = 0, !.n_recv = 0,
                  !.dh_remote = remote, !.dh_self = fresh,
                  !.root_key = root2, !.chain_recv = cr, !.chain_send = cs]
  BY DEF DhRatchet, kdf_rk
<1>2. IsRatchetState(r)
  BY DEF WellFormed
<1>3. root \in RootKey /\ root2 \in RootKey
  BY <1>2 DEF IsRatchetState, RootKey, dh, DhKey
<1>4. /\ cr \in ChainKey /\ cr.id = root /\ cr.pos = 0
      /\ cs \in ChainKey /\ cs.pos = 0
  BY <1>3 DEF FirstChainKey, ChainKey
<1> HIDE DEF root, root2, cr, cs
<1>5. LET q == DhRatchet(r, remote, fresh)
      IN  /\ q.dh_self = fresh /\ q.dh_remote = remote /\ q.root_key = root2
          /\ q.chain_recv = cr /\ q.chain_send = cs
          /\ q.n_send = 0 /\ q.n_recv = 0 /\ q.pn = r.n_send /\ q.skipped = r.skipped
  BY <1>1, <1>2 DEF IsRatchetState
<1> QED BY <1>4, <1>5, NoneAssumption DEF root2, root

\* dh_ratchet on the key of a peer that is ahead, once the rest of the old chain
\* is cached: now this end is ahead.
LEMMA TurnedAgrees ==
    ASSUME NEW r, WellFormed(r), NEW s, WellFormed(s), Ahead(r, s),
           NEW w \in Seq(Envelope), NEW due \in SUBSET (1 .. Len(w)),
           NEW v \in Seq(Envelope), NEW dv \in SUBSET (1 .. Len(v)),
           Expects(r, s, w, due), Expects(s, r, v, dv),
           NEW fresh \in DhKey, Below(r, fresh), Below(s, fresh), WireBelow(v, fresh),
           r.chain_recv = None \/ s.pn <= r.n_recv
    PROVE  LET q == DhRatchet(r, s.dh_self, fresh)
           IN  Ahead(s, q) /\ Expects(q, s, w, due) /\ Expects(s, q, v, dv)
<1> DEFINE q == DhRatchet(r, s.dh_self, fresh)
           root == Append(r.root_key, dh(r.dh_self, s.dh_self))
<1>1. /\ s.dh_self \in DhKey /\ r.dh_self \in DhKey /\ fresh \in Nat
      /\ r.n_recv \in Nat /\ r.n_send \in Nat /\ s.pn \in Nat /\ s.n_send \in Nat
  BY StateFacts DEF DhKey
<1>2. /\ q.dh_self = fresh /\ q.dh_remote = s.dh_self
      /\ q.root_key = Append(root, dh(fresh, s.dh_self))
      /\ q.chain_recv # None /\ q.chain_recv.id = root
      /\ q.n_recv = 0 /\ q.n_send = 0 /\ q.pn = r.n_send /\ q.skipped = r.skipped
  <2>1. ASSUME NEW k \in DhKey
        PROVE  LET z == DhRatchet(r, k, fresh)
                   first == Append(r.root_key, dh(r.dh_self, k))
               IN  /\ z.dh_self = fresh /\ z.dh_remote = k
                   /\ z.root_key = Append(first, dh(fresh, k))
                   /\ z.chain_recv # None /\ z.chain_recv.id = first
                   /\ z.n_recv = 0 /\ z.n_send = 0 /\ z.pn = r.n_send /\ z.skipped = r.skipped
    BY DhRatchetValues
  <2> QED BY <1>1, <2>1
<1>3. root = s.root_key
  <2>1. dh(s.dh_self, r.dh_self) = dh(r.dh_self, s.dh_self)
    BY DEF dh
  <2> QED BY <2>1 DEF Ahead
<1> HIDE DEF q, root
<1>4. s.dh_remote = r.dh_self /\ s.dh_self # r.dh_remote
  BY DEF Ahead
<1>5. fresh # r.dh_self /\ fresh # s.dh_remote
  BY <1>1, <1>4 DEF Below, DhKey
<1>6. Ahead(s, q)
  BY <1>2, <1>3, <1>5 DEF Ahead
<1>7. SealsSound(s, w) /\ ChainSound(r, s, w) /\ CacheBehind(r, s)
  BY DEF Expects
<1>8. ChainEnd(r, s) = s.pn /\ ChainEnd(q, s) = s.n_send
  BY <1>2, <1>4 DEF ChainEnd
<1>9. ChainSound(q, s, w)
  BY <1>1, <1>2, <1>3, <1>7, <1>8 DEF ChainSound, SealsSound
<1>10. ASSUME NEW i \in due
       PROVE  Reaches(q, s, w[i])
  <2>1. Reaches(r, s, w[i]) /\ w[i].header.n \in Nat
    BY EnvelopeFacts DEF Expects
  <2>2. CASE EntryOf(w[i]) \in DOMAIN r.skipped
    BY <1>2, <2>2 DEF Reaches
  <2>3. CASE w[i].header.dh_pub = r.dh_remote /\ r.n_recv <= w[i].header.n
    <3>1. r.chain_recv # None /\ w[i].header.n < s.pn
      BY <1>7, <1>8, <2>3 DEF ChainSound
    <3> QED BY <1>1, <2>1, <2>3, <3>1
  <2>4. CASE w[i].header.dh_pub = s.dh_self
    BY <1>2, <2>1, <2>4 DEF Reaches
  <2> QED BY <2>1, <2>2, <2>3, <2>4 DEF Reaches
<1>11. CacheBehind(q, s)
  BY <1>2, <1>7 DEF CacheBehind
<1>12. Expects(q, s, w, due)
  BY <1>7, <1>9, <1>10, <1>11 DEF Expects
<1>13. ChainEnd(s, r) = r.n_send /\ ChainEnd(s, q) = r.n_send
  BY <1>2, <1>4, <1>5 DEF ChainEnd
<1>14. SealsSound(q, v)
  <2>1. \A i \in 1 .. Len(v) : v[i].header.dh_pub # fresh
    BY <1>1, EnvelopeFacts DEF WireBelow, DhKey
  <2> QED BY <1>2, <2>1 DEF SealsSound
<1>15. ChainSound(s, q, v)
  BY <1>13 DEF Expects, ChainSound
<1>16. \A i \in dv : Reaches(s, q, v[i])
  BY <1>4 DEF Expects, Reaches
<1>17. CacheBehind(s, q)
  <2>1. \A e \in DOMAIN s.skipped : e[1] # fresh
    BY <1>1, StateFacts DEF Below, DhKey
  <2> QED BY <1>2, <2>1 DEF CacheBehind
<1>18. Expects(s, q, v, dv)
  BY <1>14, <1>15, <1>16, <1>17 DEF Expects
<1> QED BY <1>6, <1>12, <1>18 DEF q

\* The part of decrypt behind the DH ratchet.
Finish(r, h, key) ==
    LET ready == SkipMessageKeys(r, h.n)
    IN  IF ready.ok THEN OpenNext(ready.state, key) ELSE ready

\* It opens a message of the present chain, unless the gap or the cache is too
\* large for the keys in front of it; either way the ends still agree.
LEMMA FinishAgrees ==
    ASSUME NEW r, WellFormed(r), NEW s, WellFormed(s),
           NEW w \in Seq(Envelope), NEW due \in SUBSET (1 .. Len(w)), HeadersDiffer(w),
           NEW v, NEW dv, Agrees(r, s, w, v, due, dv), NEW i \in due,
           w[i].header.dh_pub = r.dh_remote, r.n_recv <= w[i].header.n
    PROVE  LET h == w[i].header
               out == Finish(r, h, w[i].key)
           IN  /\ Agrees(out.state, s, w, v, due \ {i}, dv)
               /\ CacheRight(r, w) /\ InStepRecv(r) =>
                     /\ CacheRight(out.state, w)
                     /\ \/ out.ok
                        \/ h.n - r.n_recv > MAX_SKIP
                        \/ Cardinality(DOMAIN r.skipped) + (h.n - r.n_recv) > MAX_SKIPPED_CACHE
<1> DEFINE h == w[i].header
           key == w[i].key
           ready == SkipMessageKeys(r, h.n)
           q == ready.state
           out == Finish(r, h, key)
<1>1. h.n \in Nat /\ r.n_recv \in Nat
  BY EnvelopeFacts, StateFacts
<1>2. Expects(r, s, w, due) /\ Expects(s, r, v, dv) /\ Linked(r, s)
  BY DEF Agrees
<1>3. r.chain_recv # None /\ h.n < ChainEnd(r, s)
  BY <1>2 DEF Expects, ChainSound
<1>4. /\ ready.ok \in BOOLEAN
      /\ WellFormed(q) /\ SameSending(r, q) /\ MovedOn(r, q)
      /\ ready.ok => q.n_recv = h.n
      /\ ready.ok /\ InStepRecv(r) => InStepRecv(q)
      /\ ~ready.ok => \/ h.n - r.n_recv > MAX_SKIP
                      \/ Cardinality(DOMAIN r.skipped) + (h.n - r.n_recv) > MAX_SKIPPED_CACHE
  BY <1>1, <1>3, SkipMoves
<1>5. ChainEnd(r, s) \in Nat
  BY StateFacts DEF ChainEnd
<1>6. /\ Expects(q, s, w, due)
      /\ CacheRight(r, w) /\ InStepRecv(r) => CacheRight(q, w)
  BY <1>1, <1>2, <1>3, <1>5, SkipExpects
<1>7. out = IF ready.ok THEN OpenNext(q, key) ELSE ready
  BY DEF Finish
<1> HIDE DEF q, ready, out
<1>8. /\ SameKeys(r, q) /\ q.dh_remote = r.dh_remote
      /\ q.chain_recv # None /\ q.chain_recv.id = r.chain_recv.id
  BY <1>3, <1>4 DEF MovedOn, SameKeys
<1>9. Linked(q, s) /\ Expects(s, q, v, dv)
  BY <1>2, <1>3, <1>4, <1>8, SameAgrees
<1>10. CASE ready.ok
  <2> DEFINE last == OpenNext(q, key)
             z == last.state
  <2>1. /\ Expects(z, s, w, due \ {i})
        /\ CacheRight(q, w) => CacheRight(z, w)
        /\ InStepRecv(q) => last.ok
    BY <1>4, <1>6, <1>8, <1>10, NextExpects
  <2>2. /\ SameKeys(q, z) /\ SameSending(q, z)
        /\ z.chain_recv \in ChainKey /\ z.chain_recv.id = q.chain_recv.id
    BY <1>4, <1>8, OpenNextFields
  <2> HIDE DEF z, last
  <2>3. z.chain_recv # None
    BY <2>2, NoneAssumption
  <2>4. Linked(z, s) /\ Expects(s, z, v, dv)
    BY <1>8, <1>9, <2>2, <2>3, SameAgrees
  <2>5. out = last /\ out.state = z
    BY <1>7, <1>10 DEF last, z
  <2> QED BY <1>4, <1>6, <1>10, <2>1, <2>4, <2>5 DEF Agrees, out
<1>11. CASE ~ready.ok
  <2>1. out = ready /\ out.state = q
    BY <1>7, <1>11 DEF q
  <2>2. Expects(q, s, w, due \ {i})
    BY <1>6 DEF Expects
  <2> QED BY <1>4, <1>6, <1>9, <1>11, <2>1, <2>2 DEF Agrees, out
<1> QED BY <1>4, <1>10, <1>11

\* decrypt by way of its last part: from the cache, in the present chain, or
\* after a DH ratchet.
LEMMA DecryptWays ==
    ASSUME NEW r, NEW h, NEW key, NEW fresh
    PROVE  LET out == Decrypt(r, h, key, fresh)
               entry == <<h.dh_pub, h.n>>
               skip == SkipMessageKeys(r, h.pn)
           IN  /\ entry \in DOMAIN r.skipped => out = OpenCached(r, entry, key)
               /\ entry \notin DOMAIN r.skipped /\ r.dh_remote = h.dh_pub =>
                     out = Finish(r, h, key)
               /\ entry \notin DOMAIN r.skipped /\ r.dh_remote # h.dh_pub /\ skip.ok =>
                     out = Finish(DhRatchet(skip.state, h.dh_pub, fresh), h, key)
               /\ entry \notin DOMAIN r.skipped /\ r.dh_remote # h.dh_pub /\ ~skip.ok =>
                     out = skip
<1> DEFINE out == Decrypt(r, h, key, fresh)
           entry == <<h.dh_pub, h.n>>
           skip == SkipMessageKeys(r, h.pn)
           turned == TurnRatchet(r, h, fresh)
           ready == SkipMessageKeys(turned.state, h.n)
<1>1. out = IF entry \in DOMAIN r.skipped
              THEN OpenCached(r, entry, key)
              ELSE IF ~turned.ok
                     THEN turned
                     ELSE IF ~ready.ok THEN ready ELSE OpenNext(ready.state, key)
  BY DEF Decrypt
<1>2. turned.ok => Finish(turned.state, h, key) =
                     IF ~ready.ok THEN ready ELSE OpenNext(ready.state, key)
  BY DEF Finish
<1>3. r.dh_remote = h.dh_pub => turned.state = r /\ turned.ok
  BY DEF TurnRatchet, Outcome
<1>4. r.dh_remote # h.dh_pub /\ skip.ok =>
        turned.state = DhRatchet(skip.state, h.dh_pub, fresh) /\ turned.ok
  BY DEF TurnRatchet, Outcome
<1>5. r.dh_remote # h.dh_pub /\ ~skip.ok => turned = skip
  BY DEF TurnRatchet
<1> HIDE DEF out, turned, ready, skip, entry
<1>6. /\ entry \in DOMAIN r.skipped => out = OpenCached(r, entry, key)
      /\ entry \notin DOMAIN r.skipped /\ r.dh_remote = h.dh_pub => out = Finish(r, h, key)
  BY <1>1, <1>2, <1>3
<1>7. entry \notin DOMAIN r.skipped /\ r.dh_remote # h.dh_pub /\ skip.ok =>
        out = Finish(DhRatchet(skip.state, h.dh_pub, fresh), h, key)
  BY <1>1, <1>2, <1>4
<1>8. entry \notin DOMAIN r.skipped /\ r.dh_remote # h.dh_pub /\ ~skip.ok => out = skip
  BY <1>1, <1>5
<1> QED BY <1>6, <1>7, <1>8 DEF out, entry, skip

\* decrypt of a message that is still to come: the ends agree as before, and it
\* opens unless a limit is in the way.
LEMMA DecryptAgrees ==
    ASSUME NEW r, WellFormed(r), NEW s, WellFormed(s),
           NEW w \in Seq(Envelope), NEW due \in SUBSET (1 .. Len(w)), HeadersDiffer(w),
           NEW v \in Seq(Envelope), NEW dv \in SUBSET (1 .. Len(v)),
           Agrees(r, s, w, v, due, dv), NEW i \in due,
           NEW fresh \in DhKey, Below(r, fresh), Below(s, fresh), WireBelow(v, fresh)
    PROVE  LET h == w[i].header
               out == Decrypt(r, h, w[i].key, fresh)
           IN  /\ Agrees(out.state, s, w, v, due \ {i}, dv)
               /\ CacheRight(r, w) /\ InStepRecv(r) =>
                     CacheRight(out.state, w) /\ (out.ok \/ GapTooLong(r, h) \/ NoRoom(r, h))
<1> DEFINE h == w[i].header
           key == w[i].key
           out == Decrypt(r, h, key, fresh)
           entry == <<h.dh_pub, h.n>>
           skip == SkipMessageKeys(r, h.pn)
           k == skip.state
           t == DhRatchet(k, h.dh_pub, fresh)
<1>1. h.n \in Nat /\ h.pn \in Nat /\ h.dh_pub \in DhKey
  BY EnvelopeFacts
<1>2. r.n_recv \in Nat /\ s.pn \in Nat /\ s.n_send \in Nat
  BY StateFacts
<1>3. Expects(r, s, w, due) /\ Expects(s, r, v, dv) /\ Linked(r, s)
  BY DEF Agrees
<1>4. Reaches(r, s, w[i]) /\ entry = EntryOf(w[i])
  BY <1>3 DEF Expects, EntryOf
<1>5. /\ entry \in DOMAIN r.skipped => out = OpenCached(r, entry, key)
      /\ entry \notin DOMAIN r.skipped /\ r.dh_remote = h.dh_pub => out = Finish(r, h, key)
      /\ entry \notin DOMAIN r.skipped /\ r.dh_remote # h.dh_pub /\ skip.ok =>
            out = Finish(t, h, key)
      /\ entry \notin DOMAIN r.skipped /\ r.dh_remote # h.dh_pub /\ ~skip.ok => out = skip
  <2> HIDE DEF h, key
  <2> QED BY DecryptWays
<1>6. CASE entry \in DOMAIN r.skipped
  <2> DEFINE o == OpenCached(r, entry, key)
             q == o.state
  <2>1. /\ Expects(q, s, w, due \ {i})
        /\ CacheRight(r, w) => CacheRight(q, w) /\ o.ok
    BY <1>3, <1>4, <1>6, CachedExpects
  <2>2. SameKeys(r, q) /\ SameSending(r, q) /\ q.chain_recv = r.chain_recv
    BY <1>6, OpenCachedFields
  <2>3. out = o
    BY <1>5, <1>6
  <2> HIDE DEF o, q, out
  <2>4. Linked(q, s) /\ Expects(s, q, v, dv)
    BY <1>3, <2>2, SameAgrees
  <2>5. Agrees(q, s, w, v, due \ {i}, dv)
    BY <2>1, <2>4 DEF Agrees
  <2> QED BY <2>1, <2>3, <2>5 DEF q, out
<1>7. CASE entry \notin DOMAIN r.skipped /\ r.dh_remote = h.dh_pub
  <2>1. r.n_recv <= h.n
    <3>1. r.n_recv <= w[i].header.n
      BY <1>4, <1>7 DEF Reaches
    <3> QED BY <3>1
  <2> DEFINE o == Finish(r, h, key)
  <2>2. /\ Agrees(o.state, s, w, v, due \ {i}, dv)
        /\ CacheRight(r, w) /\ InStepRecv(r) =>
              /\ CacheRight(o.state, w)
              /\ \/ o.ok
                 \/ h.n - r.n_recv > MAX_SKIP
                 \/ Cardinality(DOMAIN r.skipped) + (h.n - r.n_recv) > MAX_SKIPPED_CACHE
    BY <1>7, <2>1, FinishAgrees
  <2>3. out = o
    BY <1>5, <1>7
  <2> HIDE DEF o, out, h
  <2>4. /\ h.n - r.n_recv > MAX_SKIP => GapTooLong(r, h)
        /\ Cardinality(DOMAIN r.skipped) + (h.n - r.n_recv) > MAX_SKIPPED_CACHE => NoRoom(r, h)
    BY <1>7 DEF GapTooLong, NoRoom
  <2> QED BY <2>2, <2>3, <2>4 DEF out, h
<1>8. CASE entry \notin DOMAIN r.skipped /\ r.dh_remote # h.dh_pub
  <2>1. h.dh_pub = s.dh_self /\ s.dh_self # r.dh_remote
    BY <1>4, <1>8 DEF Reaches
  <2>2. Ahead(r, s)
    BY <1>3, <2>1 DEF Linked, Ahead
  <2>3. h.pn = s.pn /\ ChainEnd(r, s) = s.pn
    BY <1>3, <2>1 DEF Expects, SealsSound, ChainEnd
  <2>4. r.chain_recv # None => r.n_recv <= h.pn
    BY <1>3, <2>3 DEF Expects, ChainSound
  <2>5. /\ skip.ok \in BOOLEAN
        /\ WellFormed(k) /\ SameSending(r, k) /\ MovedOn(r, k)
        /\ r.chain_recv = None => skip.ok /\ k = r
        /\ skip.ok /\ r.chain_recv # None => k.n_recv = h.pn
        /\ skip.ok /\ InStepRecv(r) => InStepRecv(k)
        /\ ~skip.ok => \/ h.pn - r.n_recv > MAX_SKIP
                       \/ Cardinality(DOMAIN r.skipped) + (h.pn - r.n_recv) > MAX_SKIPPED_CACHE
    BY <1>1, <2>4, SkipMoves
  <2>6. /\ Expects(k, s, w, due)
        /\ CacheRight(r, w) /\ InStepRecv(r) => CacheRight(k, w)
    <3>1. h.pn <= ChainEnd(r, s)
      BY <1>2, <2>3
    <3> QED BY <1>1, <1>3, <3>1, SkipExpects
  <2> HIDE DEF k, skip, out, h
  <2>7. /\ SameKeys(r, k)
        /\ r.chain_recv = None => k.chain_recv = None
        /\ r.chain_recv # None => k.chain_recv # None /\ k.chain_recv.id = r.chain_recv.id
    BY <2>5 DEF MovedOn
  <2>8. Ahead(k, s) /\ Linked(k, s) /\ Expects(s, k, v, dv)
    BY <1>3, <2>2, <2>5, <2>7, SameAgrees
  <2> DEFINE behind == IF r.chain_recv = None THEN 0 ELSE h.pn - r.n_recv
  <2>9. behind \in Nat
    BY <1>1, <1>2, <2>4
  <2>10. CASE ~skip.ok
    <3>1. out = skip /\ out.state = k
      BY <1>5, <1>8, <2>10 DEF k
    <3>2. Expects(k, s, w, due \ {i})
      BY <2>6 DEF Expects
    <3>3. Agrees(k, s, w, v, due \ {i}, dv)
      BY <2>8, <3>2 DEF Agrees
    <3>4. r.chain_recv # None
      BY <2>5, <2>10
    <3>5. h.pn - r.n_recv > MAX_SKIP => GapTooLong(r, h)
      BY <1>8, <3>4 DEF GapTooLong
    <3>6. Cardinality(DOMAIN r.skipped) + (h.pn - r.n_recv) > MAX_SKIPPED_CACHE => NoRoom(r, h)
      <4>1. Cardinality(DOMAIN r.skipped) \in Nat
        BY FS_CardinalityType DEF WellFormed, IsRatchetState, IsSkippedMap
      <4> QED BY <1>1, <1>2, <1>8, <3>4, <4>1, SkipAssumption DEF NoRoom
    <3> QED BY <2>5, <2>6, <2>10, <3>1, <3>3, <3>5, <3>6 DEF out, h
  <2>11. CASE skip.ok
    <3>1. Below(k, fresh)
      <4>1. \A e \in DOMAIN k.skipped : e \in DOMAIN r.skipped \/ e[1] = r.dh_remote
        BY <2>5 DEF MovedOn
      <4>2. r.dh_remote # None => r.dh_remote < fresh
        BY DEF Below
      <4>3. r.chain_recv = None => DOMAIN k.skipped = DOMAIN r.skipped
        BY <2>5
      <4>4. r.chain_recv # None => r.dh_remote # None
        BY DEF WellFormed
      <4>5. \A e \in DOMAIN k.skipped : e[1] < fresh
        BY <4>1, <4>2, <4>3, <4>4 DEF Below
      <4> QED BY <2>7, <4>5 DEF Below, SameKeys
    <3>2. k.chain_recv = None \/ s.pn <= k.n_recv
      BY <1>2, <2>3, <2>5, <2>7, <2>11
    <3>3. Ahead(s, t) /\ Expects(t, s, w, due) /\ Expects(s, t, v, dv)
      BY <2>1, <2>5, <2>6, <2>8, <3>1, <3>2, TurnedAgrees
    <3>4. /\ t.dh_remote = h.dh_pub /\ t.n_recv = 0 /\ t.skipped = k.skipped
          /\ t.chain_recv.pos = 0 /\ WellFormed(t)
      <4>1. ASSUME NEW x \in DhKey
            PROVE  LET z == DhRatchet(k, x, fresh)
                   IN  /\ z.dh_remote = x /\ z.n_recv = 0 /\ z.skipped = k.skipped
                       /\ z.chain_recv.pos = 0
        BY <2>5, DhRatchetValues
      <4>2. WellFormed(t)
        BY <1>1, <2>5, DhRatchetFields
      <4> QED BY <1>1, <4>1, <4>2
    <3> HIDE DEF t
    <3>5. Agrees(t, s, w, v, due, dv) /\ InStepRecv(t)
      BY <3>3, <3>4 DEF Agrees, Linked, InStepRecv
    <3>6. CacheRight(k, w) => CacheRight(t, w)
      BY <3>4 DEF CacheRight
    <3> DEFINE o == Finish(t, h, key)
    <3>7. out = o
      BY <1>5, <1>8, <2>11
    <3>8. /\ Agrees(o.state, s, w, v, due \ {i}, dv)
          /\ CacheRight(t, w) /\ InStepRecv(t) =>
                /\ CacheRight(o.state, w)
                /\ \/ o.ok
                   \/ h.n - t.n_recv > MAX_SKIP
                   \/ Cardinality(DOMAIN t.skipped) + (h.n - t.n_recv) > MAX_SKIPPED_CACHE
      <4>1. w[i].header.dh_pub = t.dh_remote /\ t.n_recv <= w[i].header.n
        BY <1>1, <3>4 DEF h
      <4> QED BY <3>4, <3>5, <4>1, FinishAgrees DEF h
    <3>9. Cardinality(DOMAIN k.skipped) <= Cardinality(DOMAIN r.skipped) + behind
      <4>1. IsFiniteSet(DOMAIN r.skipped) /\ Cardinality(DOMAIN r.skipped) \in Nat
        BY FS_CardinalityType DEF WellFormed, IsRatchetState, IsSkippedMap
      <4>2. CASE r.chain_recv = None
        BY <2>5, <4>1, <4>2
      <4>3. CASE r.chain_recv # None
        <5>1. DOMAIN k.skipped = DOMAIN r.skipped \cup ({r.dh_remote} \X (r.n_recv .. (h.pn - 1)))
          BY <2>5, <2>11, <4>3 DEF MovedOn
        <5>2. Cardinality(DOMAIN k.skipped) <= Cardinality(DOMAIN r.skipped) + (h.pn - r.n_recv)
          BY <1>1, <1>2, <2>4, <4>1, <4>3, <5>1, CacheGrowth
        <5> QED BY <4>3, <5>2
      <4> QED BY <4>2, <4>3
    <3>10. h.n - t.n_recv > MAX_SKIP => GapTooLong(r, h)
      BY <1>1, <1>8, <3>4, SkipAssumption DEF GapTooLong
    <3>11. Cardinality(DOMAIN t.skipped) + (h.n - t.n_recv) > MAX_SKIPPED_CACHE => NoRoom(r, h)
      <4>1. Cardinality(DOMAIN r.skipped) \in Nat /\ Cardinality(DOMAIN k.skipped) \in Nat
        BY <2>5, FS_CardinalityType DEF WellFormed, IsRatchetState, IsSkippedMap
      <4>2. Cardinality(DOMAIN r.skipped) + (behind + h.n) > MAX_SKIPPED_CACHE => NoRoom(r, h)
        BY <1>8 DEF NoRoom
      <4>3. Cardinality(DOMAIN t.skipped) = Cardinality(DOMAIN k.skipped) /\ h.n - t.n_recv = h.n
        BY <1>1, <3>4
      <4> HIDE DEF behind
      <4> QED BY <1>1, <2>9, <3>9, <4>1, <4>2, <4>3, SkipAssumption
    <3> HIDE DEF o
    <3> QED BY <2>6, <2>11, <3>5, <3>6, <3>7, <3>8, <3>10, <3>11 DEF out, h
  <2> QED BY <2>5, <2>10, <2>11
<1> QED BY <1>6, <1>7, <1>8

\* skip_message_keys draws no key pair and leaves the sending side alone.
LEMMA SkipBelow ==
    ASSUME NEW r, WellFormed(r), NEW until \in Nat, NEW d, Below(r, d)
    PROVE  LET q == SkipMessageKeys(r, until).state
           IN  Below(q, d) /\ q.dh_self = r.dh_self /\ (InStep(r) => InStep(q))
<1> DEFINE q == SkipMessageKeys(r, until).state
<1>1. MovedOn(r, q) /\ SameSending(r, q) /\ (r.chain_recv = None => q = r)
  BY SkipMoves
<1> HIDE DEF q
<1>2. \A e \in DOMAIN q.skipped : e \in DOMAIN r.skipped \/ e[1] = r.dh_remote
  BY <1>1 DEF MovedOn
<1>3. r.chain_recv # None => r.dh_remote # None
  BY DEF WellFormed
<1>4. \A e \in DOMAIN q.skipped : e[1] < d
  BY <1>1, <1>2, <1>3 DEF Below
<1>5. q.dh_self = r.dh_self /\ q.dh_remote = r.dh_remote
  BY <1>1 DEF MovedOn, SameKeys
<1>6. Below(q, d)
  BY <1>4, <1>5 DEF Below
<1>7. InStep(r) => InStep(q)
  BY <1>1 DEF InStep, SameSending
<1> QED BY <1>5, <1>6, <1>7 DEF q

\* Nor does the rest of decrypt.
LEMMA FinishBelow ==
    ASSUME NEW r, WellFormed(r), NEW h \in Header, NEW key, NEW d, Below(r, d)
    PROVE  LET q == Finish(r, h, key).state
           IN  Below(q, d) /\ q.dh_self = r.dh_self /\ (InStep(r) => InStep(q))
<1> DEFINE ready == SkipMessageKeys(r, h.n)
           k == ready.state
           last == OpenNext(k, key)
           q == Finish(r, h, key).state
<1>1. h.n \in Nat
  BY DEF Header
<1>2. Below(k, d) /\ k.dh_self = r.dh_self /\ (InStep(r) => InStep(k))
  BY <1>1, SkipBelow
<1>3. WellFormed(k)
  BY <1>1, SkipMoves
<1>4. q = k \/ q = last.state
  BY DEF Finish
<1>5. Below(last.state, d) /\ last.state.dh_self = k.dh_self /\ (InStep(k) => InStep(last.state))
  <2>1. CASE k.chain_recv = None
    <3>1. last.state = k
      BY <2>1 DEF OpenNext, Outcome
    <3> QED BY <1>2, <3>1
  <2>2. CASE k.chain_recv # None
    <3>1. /\ SameKeys(k, last.state) /\ SameSending(k, last.state)
          /\ last.state.skipped = k.skipped
      BY <1>3, <2>2, OpenNextFields
    <3> HIDE DEF last, k
    <3> QED BY <1>2, <3>1 DEF Below, InStep, SameKeys, SameSending
  <2> QED BY <2>1, <2>2
<1> HIDE DEF q, k, last
<1>6. Below(q, d) /\ q.dh_self = r.dh_self /\ (InStep(r) => InStep(q))
  BY <1>2, <1>4, <1>5
<1> QED BY <1>6 DEF q

\* The key pair after `fresh`, if decrypt drew `fresh`.
After(r, fresh) == IF r.dh_self = fresh THEN fresh + 1 ELSE fresh

\* decrypt knows no key pair that has not been drawn, and leaves the sending
\* chain at the number the state says it stands at.
LEMMA DecryptBelow ==
    ASSUME NEW r, WellFormed(r), NEW h \in Header, NEW key, NEW fresh \in DhKey,
           Below(r, fresh), h.dh_pub < fresh
    PROVE  LET q == Decrypt(r, h, key, fresh).state
           IN  Below(q, After(q, fresh)) /\ (InStep(r) => InStep(q))
<1> DEFINE out == Decrypt(r, h, key, fresh)
           q == out.state
           entry == <<h.dh_pub, h.n>>
           skip == SkipMessageKeys(r, h.pn)
           k == skip.state
           t == DhRatchet(k, h.dh_pub, fresh)
<1>1. h.n \in Nat /\ h.pn \in Nat /\ h.dh_pub \in DhKey /\ h.dh_pub \in Nat /\ fresh \in Nat
  BY DEF Header, DhKey
<1>2. /\ entry \in DOMAIN r.skipped => out = OpenCached(r, entry, key)
      /\ entry \notin DOMAIN r.skipped /\ r.dh_remote = h.dh_pub => out = Finish(r, h, key)
      /\ entry \notin DOMAIN r.skipped /\ r.dh_remote # h.dh_pub /\ skip.ok =>
            out = Finish(t, h, key)
      /\ entry \notin DOMAIN r.skipped /\ r.dh_remote # h.dh_pub /\ ~skip.ok => out = skip
  BY DecryptWays
<1>3. r.dh_self # fresh
  BY <1>1, StateFacts DEF Below, DhKey
<1>4. Below(k, fresh) /\ k.dh_self = r.dh_self /\ (InStep(r) => InStep(k))
  BY <1>1, SkipBelow
<1>5. WellFormed(k)
  BY <1>1, SkipMoves
<1>6. CASE entry \in DOMAIN r.skipped
  <2> DEFINE c == OpenCached(r, entry, key).state
  <2>1. SameKeys(r, c) /\ SameSending(r, c) /\ DOMAIN c.skipped = DOMAIN r.skipped \ {entry}
    BY <1>6, OpenCachedFields
  <2>2. q = c
    BY <1>2, <1>6
  <2> HIDE DEF c, q
  <2> QED BY <1>3, <2>1, <2>2 DEF Below, InStep, SameKeys, SameSending, After, q
<1>7. CASE entry \notin DOMAIN r.skipped /\ r.dh_remote = h.dh_pub
  <2> DEFINE c == Finish(r, h, key).state
  <2>1. Below(c, fresh) /\ c.dh_self = r.dh_self /\ (InStep(r) => InStep(c))
    BY FinishBelow
  <2>2. q = c
    BY <1>2, <1>7
  <2> HIDE DEF c, q
  <2> QED BY <1>3, <2>1, <2>2 DEF After, q
<1>8. CASE entry \notin DOMAIN r.skipped /\ r.dh_remote # h.dh_pub /\ ~skip.ok
  <2>1. q = k
    BY <1>2, <1>8
  <2> HIDE DEF k, q
  <2> QED BY <1>3, <1>4, <2>1 DEF After, q
<1>9. CASE entry \notin DOMAIN r.skipped /\ r.dh_remote # h.dh_pub /\ skip.ok
  <2>1. /\ t.dh_self = fresh /\ t.dh_remote = h.dh_pub /\ t.skipped = k.skipped
        /\ t.chain_send.pos = 0 /\ t.n_send = 0 /\ WellFormed(t)
    <3>1. ASSUME NEW x \in DhKey
          PROVE  LET z == DhRatchet(k, x, fresh)
                 IN  /\ z.dh_self = fresh /\ z.dh_remote = x /\ z.skipped = k.skipped
                     /\ z.chain_send.pos = 0 /\ z.n_send = 0
      BY <1>5, DhRatchetValues
    <3>2. WellFormed(t)
      BY <1>1, <1>5, DhRatchetFields
    <3> QED BY <1>1, <3>1, <3>2
  <2> HIDE DEF t
  <2>2. Below(t, fresh + 1) /\ InStep(t)
    <3>1. \A e \in DOMAIN t.skipped : e[1] < fresh + 1
      <4>1. \A e \in DOMAIN k.skipped : e[1] \in Nat /\ e[1] < fresh
        BY <1>4, <1>5, StateFacts DEF Below, DhKey
      <4> QED BY <1>1, <2>1, <4>1
    <3>2. fresh < fresh + 1 /\ h.dh_pub < fresh + 1
      BY <1>1
    <3> QED BY <2>1, <3>1, <3>2 DEF Below, InStep
  <2> DEFINE c == Finish(t, h, key).state
  <2>3. Below(c, fresh + 1) /\ c.dh_self = fresh /\ InStep(c)
    BY <2>1, <2>2, FinishBelow
  <2>4. q = c
    BY <1>2, <1>9
  <2> HIDE DEF c, q
  <2> QED BY <2>3, <2>4 DEF After, q
<1> QED BY <1>6, <1>7, <1>8, <1>9

\* What encrypt seals is expected by the other end, however far that is: it is
\* in the chain the other end receives on, or in the one it will turn to.
LEMMA EncryptAgrees ==
    ASSUME NEW r, WellFormed(r), NEW s, WellFormed(s), CanEncrypt(s),
           s.chain_send.id = s.root_key, InStep(s),
           NEW w \in Seq(Envelope), NEW due \in SUBSET (1 .. Len(w)),
           NEW v, NEW dv, Agrees(r, s, w, v, due, dv),
           NEW m \in Envelope, m.header = EncryptHeader(s), m.key = KeyOf(s.chain_send)
    PROVE  LET q == EncryptState(s)
               x == Append(w, m)
           IN  /\ Agrees(r, q, x, v, due \cup {Len(w) + 1}, dv)
               /\ InStep(q)
               /\ CacheRight(r, w) => CacheRight(r, x)
<1> DEFINE q == EncryptState(s)
           x == Append(w, m)
           n == Len(w) + 1
<1>1. /\ SameKeys(s, q) /\ q.chain_recv = s.chain_recv /\ q.n_recv = s.n_recv
      /\ q.skipped = s.skipped /\ s.chain_send \in ChainKey
      /\ q.chain_send = NextChainKey(s.chain_send) /\ WellFormed(q)
  BY EncryptFields
<1>2. q.n_send = s.n_send + 1
  <2>1. IsRatchetState(s)
    BY DEF WellFormed
  <2> QED BY <2>1 DEF EncryptState, IsRatchetState
<1>3. /\ Len(w) \in Nat /\ x \in Seq(Envelope) /\ Len(x) = n /\ x[n] = m
      /\ \A i \in 1 .. Len(w) : x[i] = w[i]
  OBVIOUS
<1>4. \A i \in 1 .. n : i = n \/ i \in 1 .. Len(w)
  BY <1>3
<1> HIDE DEF q, x
<1>5. /\ s.n_send \in Nat /\ s.pn \in Nat /\ r.n_recv \in Nat
      /\ q.dh_self = s.dh_self /\ q.root_key = s.root_key /\ q.pn = s.pn
      /\ q.dh_remote = s.dh_remote
  BY <1>1, StateFacts DEF SameKeys
<1>6. /\ m.header.dh_pub = s.dh_self /\ m.header.pn = s.pn /\ m.header.n = s.n_send
      /\ m.key = <<s.root_key, s.n_send>>
  <2>1. s.chain_send.pos = s.n_send
    BY DEF InStep, CanEncrypt
  <2> QED BY <2>1 DEF EncryptHeader, KeyOf
<1>7. InStep(q)
  <2>1. q.chain_send.pos = s.chain_send.pos + 1
    BY <1>1, AdvanceFields DEF NextChainKey
  <2> QED BY <1>2, <2>1 DEF InStep, CanEncrypt
<1>8. Linked(r, s) /\ Expects(r, s, w, due) /\ Expects(s, r, v, dv) /\ s.chain_send # None
  BY DEF Agrees, CanEncrypt
<1>9. Linked(r, q)
  <2>1. Ahead(r, s) => Ahead(r, q)
    BY <1>1, <1>5 DEF Ahead
  <2>2. Ahead(s, r) => Ahead(q, r)
    BY <1>1, <1>5, <1>8 DEF Ahead
  <2> QED BY <1>8, <2>1, <2>2 DEF Linked
<1>10. r.dh_remote = s.dh_self => r.chain_recv # None /\ r.chain_recv.id = s.root_key
  BY <1>8 DEF Linked, Ahead
<1>11. Expects(q, r, v, dv)
  <2>1. ChainEnd(q, r) = ChainEnd(s, r)
    BY <1>5 DEF ChainEnd
  <2>2. SealsSound(r, v)
    BY <1>8 DEF Expects
  <2>3. ChainSound(q, r, v)
    BY <1>1, <1>5, <1>8, <2>1 DEF Expects, ChainSound
  <2>4. \A i \in dv : Reaches(q, r, v[i])
    BY <1>1, <1>5, <1>8 DEF Expects, Reaches
  <2>5. CacheBehind(q, r)
    BY <1>1, <1>8 DEF Expects, CacheBehind
  <2> QED BY <2>2, <2>3, <2>4, <2>5 DEF Expects
<1>12. SealsSound(s, w) /\ ChainSound(r, s, w) /\ CacheBehind(r, s)
  BY <1>8 DEF Expects
<1>13. SealsSound(q, x)
  <2> SUFFICES ASSUME NEW i \in 1 .. n, x[i].header.dh_pub = q.dh_self
               PROVE  /\ x[i].key = <<q.root_key, x[i].header.n>>
                      /\ x[i].header.pn = q.pn
                      /\ x[i].header.n < q.n_send
    BY <1>3 DEF SealsSound
  <2>1. CASE i = n
    BY <1>2, <1>3, <1>5, <1>6, <2>1
  <2>2. CASE i \in 1 .. Len(w)
    <3>1. x[i] = w[i] /\ w[i].header.n \in Nat
      BY <1>3, <2>2, EnvelopeFacts
    <3>2. /\ w[i].key = <<s.root_key, w[i].header.n>>
          /\ w[i].header.pn = s.pn /\ w[i].header.n < s.n_send
      BY <1>5, <1>12, <2>2, <3>1 DEF SealsSound
    <3> QED BY <1>2, <1>5, <3>1, <3>2
  <2> QED BY <1>4, <2>1, <2>2
<1>14. /\ ChainEnd(r, s) \in Nat /\ ChainEnd(r, q) \in Nat /\ ChainEnd(r, s) <= ChainEnd(r, q)
       /\ r.dh_remote = s.dh_self => ChainEnd(r, s) = s.n_send /\ ChainEnd(r, q) = s.n_send + 1
  BY <1>2, <1>5 DEF ChainEnd
<1>15. ChainSound(r, q, x)
  <2>1. r.chain_recv # None => r.n_recv <= ChainEnd(r, q)
    BY <1>5, <1>12, <1>14 DEF ChainSound
  <2>2. ASSUME NEW i \in 1 .. n, x[i].header.dh_pub = r.dh_remote
        PROVE  /\ r.chain_recv # None
               /\ x[i].key = <<r.chain_recv.id, x[i].header.n>>
               /\ x[i].header.n < ChainEnd(r, q)
    <3>1. CASE i = n
      <4>1. r.dh_remote = s.dh_self
        BY <1>3, <1>6, <2>2, <3>1
      <4> QED BY <1>3, <1>5, <1>6, <1>10, <1>14, <3>1, <4>1
    <3>2. CASE i \in 1 .. Len(w)
      <4>1. x[i] = w[i] /\ w[i].header.n \in Nat
        BY <1>3, <3>2, EnvelopeFacts
      <4>2. /\ r.chain_recv # None /\ w[i].key = <<r.chain_recv.id, w[i].header.n>>
            /\ w[i].header.n < ChainEnd(r, s)
        BY <1>12, <2>2, <3>2, <4>1 DEF ChainSound
      <4> QED BY <1>14, <4>1, <4>2
    <3> QED BY <1>4, <3>1, <3>2
  <2> QED BY <1>3, <2>1, <2>2 DEF ChainSound
<1>16. ASSUME NEW i \in due \cup {n}
       PROVE  Reaches(r, q, x[i])
  <2>1. CASE i = n
    <3>1. CASE r.dh_remote = s.dh_self
      <4>1. r.n_recv <= s.n_send
        BY <1>10, <1>12, <1>14, <3>1 DEF ChainSound
      <4> QED BY <1>3, <1>6, <2>1, <3>1, <4>1 DEF Reaches
    <3>2. CASE r.dh_remote # s.dh_self
      BY <1>3, <1>5, <1>6, <2>1, <3>2 DEF Reaches
    <3> QED BY <3>1, <3>2
  <2>2. CASE i \in due
    <3>1. x[i] = w[i] /\ Reaches(r, s, w[i])
      BY <1>3, <1>8, <2>2 DEF Expects
    <3> QED BY <1>5, <3>1 DEF Reaches
  <2> QED BY <2>1, <2>2
<1>17. CacheBehind(r, q)
  <2>1. \A e \in DOMAIN r.skipped : e[2] \in Nat
    BY StateFacts
  <2> QED BY <1>2, <1>5, <1>12, <2>1 DEF CacheBehind
<1>18. Agrees(r, q, x, v, due \cup {n}, dv)
  BY <1>9, <1>11, <1>13, <1>15, <1>16, <1>17 DEF Agrees, Expects
<1>19. ASSUME CacheRight(r, w), NEW i \in 1 .. n, EntryOf(x[i]) \in DOMAIN r.skipped
       PROVE  r.skipped[EntryOf(x[i])] = x[i].key
  <2>1. CASE i = n
    <3>1. <<s.dh_self, s.n_send>> \in DOMAIN r.skipped
      BY <1>3, <1>6, <1>19, <2>1 DEF EntryOf
    <3>2. s.n_send < s.n_send
      BY <1>12, <3>1 DEF CacheBehind
    <3> QED BY <1>5, <3>2
  <2>2. CASE i \in 1 .. Len(w)
    BY <1>3, <1>19, <2>2 DEF CacheRight
  <2> QED BY <1>4, <2>1, <2>2
<1>20. CacheRight(r, w) => CacheRight(r, x)
  BY <1>3, <1>19 DEF CacheRight
<1> QED BY <1>7, <1>18, <1>20 DEF q, x

\* A sender's headers tell its messages apart, and name keys that were drawn.
LEMMA EncryptHeaders ==
    ASSUME NEW s, WellFormed(s), NEW w \in Seq(Envelope), SealsSound(s, w),
           HeadersDiffer(w), NEW m \in Envelope, m.header = EncryptHeader(s),
           NEW d, WireBelow(w, d), Below(s, d)
    PROVE  HeadersDiffer(Append(w, m)) /\ WireBelow(Append(w, m), d)
<1> DEFINE x == Append(w, m)
           n == Len(w) + 1
<1>1. /\ Len(w) \in Nat /\ Len(x) = n /\ x[n] = m
      /\ \A i \in 1 .. Len(w) : x[i] = w[i]
  OBVIOUS
<1>2. \A i \in 1 .. n : i = n \/ i \in 1 .. Len(w)
  BY <1>1
<1> HIDE DEF x
<1>3. m.header.dh_pub = s.dh_self /\ m.header.n = s.n_send /\ s.n_send \in Nat
  BY StateFacts DEF EncryptHeader
<1>4. \A i \in 1 .. Len(w) : EntryOf(x[i]) # EntryOf(x[n])
  <2> SUFFICES ASSUME NEW i \in 1 .. Len(w), EntryOf(w[i]) = EntryOf(m)
               PROVE  FALSE
    BY <1>1
  <2>1. w[i].header.dh_pub = s.dh_self /\ w[i].header.n = s.n_send
    BY <1>3 DEF EntryOf
  <2>2. w[i].header.n < s.n_send
    BY <2>1 DEF SealsSound
  <2> QED BY <1>3, <2>1, <2>2
<1>5. \A i, j \in 1 .. Len(w) : EntryOf(x[i]) = EntryOf(x[j]) => i = j
  BY <1>1 DEF HeadersDiffer
<1>6. HeadersDiffer(x)
  BY <1>1, <1>2, <1>4, <1>5 DEF HeadersDiffer
<1>7. WireBelow(x, d)
  BY <1>1, <1>2, <1>3 DEF WireBelow, Below
<1> QED BY <1>6, <1>7 DEF x

\* The agreement reads the same from the other end.
LEMMA AgreesBothWays ==
    ASSUME NEW r, NEW s, NEW w, NEW v, NEW due, NEW dv, Agrees(r, s, w, v, due, dv)
    PROVE  Agrees(s, r, v, w, dv, due)
BY DEF Agrees, Linked

\* The same headers and keys, whatever the counters of the messages say.
SameMessages(w, x) ==
    /\ Len(x) = Len(w)
    /\ \A i \in 1 .. Len(w) : x[i].header = w[i].header /\ x[i].key = w[i].key

\* Counting a copy of a message, or expecting fewer, changes nothing.
LEMMA RecountedAgrees ==
    ASSUME NEW w, NEW x, SameMessages(w, x)
    PROVE  /\ HeadersDiffer(w) => HeadersDiffer(x)
           /\ \A d : WireBelow(w, d) => WireBelow(x, d)
           /\ \A r : CacheRight(r, w) => CacheRight(r, x)
           /\ \A r, s, due, fewer :
                 fewer \subseteq due /\ due \subseteq 1 .. Len(w) /\ Expects(r, s, w, due) =>
                    Expects(r, s, x, fewer)
<1>1. /\ Len(x) = Len(w)
      /\ \A i \in 1 .. Len(w) : /\ x[i].header = w[i].header /\ x[i].key = w[i].key
                                /\ EntryOf(x[i]) = EntryOf(w[i])
  BY DEF SameMessages, EntryOf
<1>2. HeadersDiffer(w) => HeadersDiffer(x)
  BY <1>1 DEF HeadersDiffer
<1>3. \A d : WireBelow(w, d) => WireBelow(x, d)
  BY <1>1 DEF WireBelow
<1>4. \A r : CacheRight(r, w) => CacheRight(r, x)
  BY <1>1 DEF CacheRight
<1>5. ASSUME NEW r, NEW s, NEW due, NEW fewer, fewer \subseteq due, due \subseteq 1 .. Len(w),
             Expects(r, s, w, due)
      PROVE  Expects(r, s, x, fewer)
  <2>1. SealsSound(s, x)
    BY <1>1, <1>5 DEF Expects, SealsSound
  <2>2. ChainSound(r, s, x)
    BY <1>1, <1>5 DEF Expects, ChainSound
  <2>3. \A i \in fewer : Reaches(r, s, x[i])
    BY <1>1, <1>5 DEF Expects, Reaches
  <2> QED BY <1>5, <2>1, <2>2, <2>3 DEF Expects
<1> QED BY <1>2, <1>3, <1>4, <1>5

\* The same for both directions at once.
LEMMA AgreesOnFewer ==
    ASSUME NEW r, NEW s, NEW w, NEW x, SameMessages(w, x), NEW v, NEW y, SameMessages(v, y),
           NEW due \in SUBSET (1 .. Len(w)), NEW fewer \in SUBSET due,
           NEW dv \in SUBSET (1 .. Len(v)), NEW fv \in SUBSET dv,
           Agrees(r, s, w, v, due, dv)
    PROVE  Agrees(r, s, x, y, fewer, fv)
<1>1. Expects(r, s, x, fewer)
  <2>1. Expects(r, s, w, due)
    BY DEF Agrees
  <2> QED BY <2>1, RecountedAgrees
<1>2. Expects(s, r, y, fv)
  <2>1. Expects(s, r, v, dv)
    BY DEF Agrees
  <2> QED BY <2>1, RecountedAgrees
<1> QED BY <1>1, <1>2 DEF Agrees

\* Handing a message over counts one copy of it.
LEMMA HandedMessages ==
    ASSUME TypeOK, NEW p \in Party, NEW i \in 1 .. Len(wire[Peer(p)]),
           NEW opened \in BOOLEAN, Handed(p, i, opened)
    PROVE  /\ \A q \in Party : SameMessages(wire[q], wire'[q])
           /\ \A q \in Party : \A j \in 1 .. Len(wire[q]) :
                /\ wire'[q][j].prekey = wire[q][j].prekey
                /\ wire[q][j].copies \in Nat
                /\ wire'[q][j].copies =
                     IF q = Peer(p) /\ j = i THEN wire[q][j].copies + 1 ELSE wire[q][j].copies
<1> DEFINE z == Peer(p)
           m == wire[z][i]
           c == m.copies + 1
           a == IF opened THEN m.accepts + 1 ELSE m.accepts
           new == Counted(m, opened)
           w == [wire[z] EXCEPT ![i] = new]
<1>1. z \in Party /\ wire \in [Party -> Seq(Envelope)] /\ wire[z] \in Seq(Envelope)
  BY PeerFacts DEF TypeOK
<1>2. m \in Envelope
  BY <1>1
<1>3. c \in Nat /\ a \in Nat
  BY <1>2 DEF Envelope
<1>4. wire' = [wire EXCEPT ![z] = w]
  BY DEF Handed
<1>5. new = [m EXCEPT !.copies = c, !.accepts = a]
  BY DEF Counted
<1> HIDE DEF c, a, new
<1>6. new.key = m.key /\ new.header = m.header /\ new.prekey = m.prekey /\ new.copies = c
  BY <1>2, <1>3, <1>5 DEF Envelope
<1>7. Len(w) = Len(wire[z]) /\ \A j \in 1 .. Len(wire[z]) : w[j] = IF j = i THEN new ELSE wire[z][j]
  BY <1>1
<1> HIDE DEF w, m, z
<1>8. wire'[z] = w /\ \A q \in Party : q # z => wire'[q] = wire[q]
  BY <1>1, <1>4
<1>9. \A q \in Party : \A j \in 1 .. Len(wire[q]) : wire[q][j].copies \in Nat
  <2>1. \A q \in Party : wire[q] \in Seq(Envelope)
    BY <1>1
  <2>2. \A q \in Party : \A j \in 1 .. Len(wire[q]) : wire[q][j] \in Envelope
    BY <2>1
  <2>3. \A x \in Envelope : x.copies \in Nat
    BY DEF Envelope
  <2> QED BY <2>2, <2>3
<1>10. \A q \in Party : SameMessages(wire[q], wire'[q])
  BY <1>6, <1>7, <1>8 DEF SameMessages, m
<1>11. \A q \in Party : \A j \in 1 .. Len(wire[q]) :
          /\ wire'[q][j].prekey = wire[q][j].prekey
          /\ wire'[q][j].copies =
               IF q = z /\ j = i THEN wire[q][j].copies + 1 ELSE wire[q][j].copies
  BY <1>6, <1>7, <1>8 DEF m, c
<1> QED BY <1>9, <1>10, <1>11 DEF z

\* Later key pairs are above what was above before.
LEMMA BelowLater ==
    ASSUME NEW d \in DhKey, NEW b \in DhKey, d <= b
    PROVE  /\ \A r : WellFormed(r) /\ Below(r, d) => Below(r, b)
           /\ \A w \in Seq(Envelope) : WireBelow(w, d) => WireBelow(w, b)
<1>1. d \in Nat /\ b \in Nat
  BY DEF DhKey
<1>2. ASSUME NEW r, WellFormed(r), Below(r, d)
      PROVE  Below(r, b)
  <2>1. /\ r.dh_self \in Nat /\ (r.dh_remote # None => r.dh_remote \in Nat)
        /\ \A e \in DOMAIN r.skipped : e[1] \in Nat
    BY <1>2, StateFacts DEF DhKey
  <2> QED BY <1>1, <1>2, <2>1 DEF Below
<1>3. ASSUME NEW w \in Seq(Envelope), WireBelow(w, d)
      PROVE  WireBelow(w, b)
  <2>1. \A i \in 1 .. Len(w) : w[i].header.dh_pub \in Nat
    BY EnvelopeFacts DEF DhKey
  <2> QED BY <1>1, <1>3, <2>1 DEF WireBelow
<1> QED BY <1>2, <1>3

\* The two ends agree from the start: the initiator is one ratchet ahead of a
\* responder that has heard nothing, and nothing is on the wires.
LEMMA StartAgrees ==
    ASSUME NEW fresh \in DhKey, SPK < fresh
    PROVE  LET a == InitInitiator(SPK, fresh)
               b == InitResponder(SPK)
           IN  /\ Agrees(a, b, <<>>, <<>>, {}, {})
               /\ InStep(a) /\ InStep(b)
               /\ Below(a, fresh + 1) /\ Below(b, fresh)
               /\ CacheRight(a, <<>>) /\ CacheRight(b, <<>>)
<1> DEFINE a == InitInitiator(SPK, fresh)
           b == InitResponder(SPK)
<1>1. SPK \in Nat /\ fresh \in Nat /\ SPK # None /\ fresh # None
  BY NoneAssumption DEF DhKey, SPK
<1>2. /\ a.dh_self = fresh /\ a.dh_remote = SPK /\ a.root_key = Append(<<>>, dh(fresh, SPK))
      /\ a.chain_recv = None /\ a.n_send = 0 /\ a.pn = 0 /\ a.n_recv = 0
      /\ a.chain_send.pos = 0 /\ DOMAIN a.skipped = {}
  BY DEF InitInitiator, NoKeys, kdf_rk, FirstChainKey
<1>3. /\ b.dh_self = SPK /\ b.dh_remote = None /\ b.root_key = <<>>
      /\ b.chain_recv = None /\ b.chain_send = None /\ b.n_send = 0 /\ b.pn = 0 /\ b.n_recv = 0
      /\ DOMAIN b.skipped = {}
  BY DEF InitResponder, NoKeys
<1> HIDE DEF a, b
<1>4. Ahead(b, a)
  BY <1>1, <1>2, <1>3 DEF Ahead
<1>5. 1 .. Len(<<>>) = {}
  OBVIOUS
<1>6. Expects(a, b, <<>>, {}) /\ Expects(b, a, <<>>, {})
  BY <1>2, <1>3, <1>5 DEF Expects, SealsSound, ChainSound, CacheBehind
<1>7. Below(a, fresh + 1) /\ Below(b, fresh)
  BY <1>1, <1>2, <1>3 DEF Below
<1>8. InStep(a) /\ InStep(b) /\ CacheRight(a, <<>>) /\ CacheRight(b, <<>>)
  BY <1>2, <1>3, <1>5 DEF InStep, CacheRight
<1> QED BY <1>4, <1>6, <1>7, <1>8 DEF Agrees, Linked, a, b

-----------------------------------------------------------------------------
(* Session: without duplicates, only the limits stand between a message and *)
(* its first copy.                                                         *)

\* The messages p has not been handed.
Due(p) == {i \in 1 .. Len(wire[Peer(p)]) : wire[Peer(p)][i].copies = 0}

\* Each end by itself.
EndsInv ==
    \A p \in Party :
        /\ HeadersDiffer(wire[p])
        /\ WireBelow(wire[p], nextDh)
        /\ Below(ratchet[p], nextDh)
        /\ InStep(ratchet[p])

\* The order of the handshake, and the PreKey messages.
HandshakeInv ==
    /\ Responder \in established => Initiator \in established
    /\ Responder \notin established => ratchet[Responder] = InitResponder(SPK)
    /\ wire[Responder] = <<>> =>
          /\ Initiator \in established => pending[Initiator]
          /\ \A i \in 1 .. Len(wire[Initiator]) : wire[Initiator][i].prekey

\* The two ends against each other.
AgreementInv ==
    \A p \in Party :
        /\ Initiator \in established =>
              Agrees(ratchet[p], ratchet[Peer(p)], wire[Peer(p)], wire[p], Due(p), Due(Peer(p)))
        /\ p \notin overflowed => CacheRight(ratchet[p], wire[Peer(p)])

\* All of it holds as long as the network has duplicated nothing.
AgreeInv ==
    duplicates = 0 => EndsInv /\ HandshakeInv /\ AgreementInv

\* Before there is a session nothing is on the wires.
LEMMA QuietBefore ==
    ASSUME IInv, HandshakeInv, Initiator \notin established
    PROVE  \A p \in Party : p \notin established /\ wire[p] = <<>>
<1>1. \A p \in Party : p \notin established
  BY DEF HandshakeInv, Party
<1> QED BY <1>1 DEF IInv, SendInv

\* The types of what the agreement is about.
LEMMA EndFacts ==
    ASSUME IInv, NEW p \in Party
    PROVE  /\ TypeOK /\ Peer(p) \in Party /\ Peer(p) # p /\ Peer(Peer(p)) = p
           /\ WellFormed(ratchet[p]) /\ wire[p] \in Seq(Envelope)
           /\ Due(p) \in SUBSET (1 .. Len(wire[Peer(p)]))
           /\ nextDh \in DhKey /\ nextDh \in Nat
           /\ p \notin overflowed => InStepRecv(ratchet[p])
           /\ ratchet[p].chain_send # None => ratchet[p].chain_send.id = ratchet[p].root_key
<1>1. Peer(p) \in Party /\ Peer(p) # p /\ Peer(Peer(p)) = p
  BY PeerFacts
<1>2. TypeOK /\ WellFormed(ratchet[p]) /\ wire[p] \in Seq(Envelope) /\ nextDh \in DhKey
  BY DEF IInv, TypeOK
<1>3. p \notin overflowed => InStepRecv(ratchet[p])
  BY DEF IInv, RecvInv, RecvSound, InStepRecv
<1>4. ratchet[p].chain_send # None => ratchet[p].chain_send.id = ratchet[p].root_key
  BY DEF IInv, SendInv, SendSound
<1>5. Due(p) \in SUBSET (1 .. Len(wire[Peer(p)]))
  BY DEF Due
<1> QED BY <1>1, <1>2, <1>3, <1>4, <1>5 DEF DhKey

\* Before anybody has a session there is nothing to disagree about.
LEMMA InitAgree == Init => AgreeInv
<1> SUFFICES ASSUME Init
             PROVE  EndsInv /\ HandshakeInv /\ AgreementInv
  BY DEF AgreeInv
<1>1. \A p \in Party : /\ ratchet[p] = InitResponder(SPK) /\ wire[p] = <<>> /\ Peer(p) \in Party
  BY PeerFacts DEF Init
<1>2. nextDh \in DhKey /\ SPK < nextDh
  BY DEF Init, SPK, DhKey
<1>3. LET b == InitResponder(SPK) IN InStep(b) /\ Below(b, nextDh) /\ CacheRight(b, <<>>)
  BY <1>2, StartAgrees
<1>4. HeadersDiffer(<<>>) /\ WireBelow(<<>>, nextDh) /\ 1 .. Len(<<>>) = {}
  BY DEF HeadersDiffer, WireBelow
<1>5. EndsInv
  BY <1>1, <1>3, <1>4 DEF EndsInv
<1>6. Initiator \in Party /\ Responder \in Party /\ established = {}
  BY DEF Party, Init
<1>7. HandshakeInv
  BY <1>1, <1>4, <1>6 DEF HandshakeInv
<1>8. AgreementInv
  BY <1>1, <1>3, <1>6 DEF AgreementInv
<1> QED BY <1>5, <1>7, <1>8

\* Session::initiate puts the initiator one DH ratchet ahead.
LEMMA InitiateAgree ==
    ASSUME IInv, AgreeInv, Initiate
    PROVE  AgreeInv'
<1> SUFFICES ASSUME duplicates' = 0
             PROVE  EndsInv' /\ HandshakeInv' /\ AgreementInv'
  BY DEF AgreeInv
<1> DEFINE a == InitInitiator(SPK, nextDh)
           b == InitResponder(SPK)
<1>1. /\ duplicates' = duplicates /\ wire' = wire /\ nextDh' = nextDh + 1
      /\ overflowed' = overflowed
      /\ Initiator \notin established /\ established' = established \cup {Initiator}
      /\ ratchet' = [ratchet EXCEPT ![Initiator] = a]
      /\ pending' = [pending EXCEPT ![Initiator] = TRUE]
  BY DEF Initiate
<1>2. EndsInv /\ HandshakeInv /\ AgreementInv
  BY <1>1 DEF AgreeInv
<1>3. /\ Initiator \in Party /\ Responder \in Party /\ Initiator # Responder
      /\ Peer(Initiator) = Responder /\ Peer(Responder) = Initiator
  BY PartyAssumption DEF Party, Peer
<1>4. \A p \in Party : p \notin established /\ wire[p] = <<>>
  BY <1>1, <1>2, QuietBefore
<1>5. ratchet[Responder] = b
  BY <1>2, <1>3, <1>4 DEF HandshakeInv
<1>6. nextDh \in DhKey /\ nextDh \in Nat /\ SPK < nextDh
  <2>1. Below(b, nextDh) /\ b.dh_self = SPK
    BY <1>2, <1>3, <1>5 DEF EndsInv, InitResponder
  <2> QED BY <1>3, <2>1, EndFacts DEF Below
<1>7. /\ Agrees(a, b, <<>>, <<>>, {}, {})
      /\ InStep(a) /\ InStep(b) /\ Below(a, nextDh + 1) /\ Below(b, nextDh)
      /\ CacheRight(a, <<>>) /\ CacheRight(b, <<>>)
  BY <1>6, StartAgrees
<1>8. nextDh + 1 \in DhKey /\ nextDh <= nextDh + 1 /\ SPK \in DhKey
  BY <1>6 DEF DhKey, SPK
<1>9. WellFormed(b)
  BY <1>8, InitWellFormed
<1> HIDE DEF a, b
<1>10. ratchet'[Initiator] = a /\ ratchet'[Responder] = b
  <2>1. DOMAIN ratchet = Party
    BY DEF IInv, TypeOK
  <2> QED BY <1>1, <1>3, <1>5, <2>1
<1>11. Below(b, nextDh + 1)
  BY <1>6, <1>7, <1>8, <1>9, BelowLater
<1>12. \A p \in Party : p = Initiator \/ p = Responder
  BY DEF Party
<1>13. \A p \in Party : wire'[p] = <<>> /\ HeadersDiffer(<<>>) /\ WireBelow(<<>>, nextDh')
  <2>1. 1 .. Len(<<>>) = {}
    OBVIOUS
  <2> QED BY <1>1, <1>4, <2>1 DEF HeadersDiffer, WireBelow
<1>14. EndsInv'
  BY <1>1, <1>7, <1>10, <1>11, <1>12, <1>13 DEF EndsInv
<1>15. HandshakeInv'
  <2>1. pending'[Initiator] = TRUE
    BY <1>1, <1>3 DEF IInv, TypeOK
  <2>2. 1 .. Len(wire'[Initiator]) = {}
    BY <1>3, <1>13
  <2>3. Responder \notin established /\ Initiator \in established'
    BY <1>1, <1>3, <1>4
  <2> QED BY <1>10, <2>1, <2>2, <2>3 DEF HandshakeInv, b
<1>16. \A p \in Party : Due(p)' = {}
  <2>1. \A p \in Party : Peer(p) \in Party
    BY PeerFacts
  <2>2. \A p \in Party : 1 .. Len(wire'[Peer(p)]) = {}
    BY <1>13, <2>1
  <2> QED BY <2>2 DEF Due
<1>17. Agrees(b, a, <<>>, <<>>, {}, {})
  BY <1>7, AgreesBothWays
<1>18. AgreementInv'
  BY <1>3, <1>7, <1>10, <1>12, <1>13, <1>16, <1>17 DEF AgreementInv
<1> QED BY <1>14, <1>15, <1>18

\* Session::encrypt.
LEMMA SendAgree ==
    ASSUME IInv, AgreeInv, NEW p \in Party, Send(p)
    PROVE  AgreeInv'
<1> SUFFICES ASSUME duplicates' = 0
             PROVE  EndsInv' /\ HandshakeInv' /\ AgreementInv'
  BY DEF AgreeInv
<1> DEFINE m == [prekey |-> pending[p], header |-> EncryptHeader(ratchet[p]),
                 key |-> KeyOf(ratchet[p].chain_send), copies |-> 0, accepts |-> 0]
           q == Peer(p)
           s == ratchet[p]
           n == Len(wire[p]) + 1
<1>1. /\ duplicates' = duplicates /\ nextDh' = nextDh /\ overflowed' = overflowed
      /\ established' = established /\ pending' = pending
      /\ p \in established /\ CanEncrypt(s)
      /\ wire' = [wire EXCEPT ![p] = Append(@, m)]
      /\ ratchet' = [ratchet EXCEPT ![p] = EncryptState(s)]
  BY DEF Send
<1>2. EndsInv /\ HandshakeInv /\ AgreementInv
  BY <1>1 DEF AgreeInv
<1>3. /\ q \in Party /\ q # p /\ Peer(q) = p /\ \A x \in Party : x = p \/ x = q
      /\ WellFormed(s) /\ WellFormed(ratchet[q])
      /\ wire[p] \in Seq(Envelope) /\ wire[q] \in Seq(Envelope)
      /\ Due(q) \in SUBSET (1 .. Len(wire[p])) /\ Due(p) \in SUBSET (1 .. Len(wire[q]))
      /\ CanEncrypt(s) => s.chain_send.id = s.root_key
  BY EndFacts, PeerFacts DEF CanEncrypt
<1>4. Initiator \in established
  BY <1>1, <1>2 DEF HandshakeInv, Party
<1>5. m \in Envelope /\ m.header = EncryptHeader(s) /\ m.key = KeyOf(s.chain_send)
      /\ m.prekey = pending[p]
  <2>1. EncryptHeader(s) \in Header /\ KeyOf(s.chain_send) \in MessageKey
    BY <1>1, <1>3, EncryptFields
  <2>2. pending[p] \in BOOLEAN
    BY DEF IInv, TypeOK
  <2> QED BY <2>1, <2>2 DEF Envelope
<1>6. m.copies = 0
  OBVIOUS
<1> HIDE DEF m
<1> DEFINE e == EncryptState(s)
           x == Append(wire[p], m)
<1>7. Agrees(ratchet[q], s, wire[p], wire[q], Due(q), Due(p))
  BY <1>2, <1>3, <1>4 DEF AgreementInv
<1>8. /\ Agrees(ratchet[q], e, x, wire[q], Due(q) \cup {n}, Due(p))
      /\ InStep(e)
      /\ CacheRight(ratchet[q], wire[p]) => CacheRight(ratchet[q], x)
  <2>1. InStep(s)
    BY <1>2 DEF EndsInv
  <2> QED BY <1>1, <1>3, <1>5, <1>7, <2>1, EncryptAgrees
<1>9. HeadersDiffer(x) /\ WireBelow(x, nextDh)
  <2>1. SealsSound(s, wire[p])
    BY <1>7 DEF Agrees, Expects
  <2> QED BY <1>2, <1>3, <1>5, <2>1, EncryptHeaders DEF EndsInv
<1>10. Below(e, nextDh)
  <2>1. SameKeys(s, e) /\ e.skipped = s.skipped
    BY <1>1, <1>3, EncryptFields
  <2>2. Below(s, nextDh)
    BY <1>2 DEF EndsInv
  <2> HIDE DEF e
  <2> QED BY <2>1, <2>2 DEF Below, SameKeys
<1>11. /\ Len(wire[p]) \in Nat /\ Len(x) = n /\ x[n] = m
       /\ \A j \in 1 .. Len(wire[p]) : x[j] = wire[p][j]
  BY <1>3
<1>12. /\ ratchet'[p] = e /\ ratchet'[q] = ratchet[q]
       /\ wire'[p] = x /\ wire'[q] = wire[q]
  <2>1. DOMAIN ratchet = Party /\ DOMAIN wire = Party
    BY DEF IInv, TypeOK
  <2> HIDE DEF e, x
  <2> QED BY <1>1, <1>3, <2>1 DEF e, x
<1> HIDE DEF e, x
<1>13. EndsInv'
  BY <1>1, <1>2, <1>3, <1>8, <1>9, <1>10, <1>12 DEF EndsInv
<1>14. /\ Due(p)' = Due(p)
       /\ Due(q)' = Due(q) \cup {n}
  <2>1. Due(p)' = Due(p)
    BY <1>12 DEF Due
  <2>2. Due(q)' = {j \in 1 .. Len(x) : x[j].copies = 0}
    BY <1>3, <1>12 DEF Due
  <2>3. Due(q) = {j \in 1 .. Len(wire[p]) : wire[p][j].copies = 0}
    BY <1>3 DEF Due
  <2> QED BY <1>6, <1>11, <2>1, <2>2, <2>3
<1>15. AgreementInv'
  <2>1. Agrees(ratchet'[q], ratchet'[p], wire'[p], wire'[q], Due(q)', Due(p)')
    BY <1>8, <1>12, <1>14
  <2>2. Agrees(ratchet'[p], ratchet'[q], wire'[q], wire'[p], Due(p)', Due(q)')
    BY <2>1, AgreesBothWays
  <2>3. q \notin overflowed => CacheRight(ratchet'[q], wire'[p])
    BY <1>2, <1>3, <1>8, <1>12 DEF AgreementInv
  <2>4. p \notin overflowed => CacheRight(e, wire[q])
    <3>1. e.skipped = s.skipped
      BY <1>1, <1>3, EncryptFields DEF e
    <3> QED BY <1>2, <1>3, <3>1 DEF AgreementInv, CacheRight
  <2> QED BY <1>1, <1>3, <1>12, <2>1, <2>2, <2>3, <2>4 DEF AgreementInv
<1>16. HandshakeInv'
  <2>1. Initiator \in Party /\ Responder \in Party /\ Initiator # Responder
    BY PartyAssumption DEF Party
  <2>2. Responder \notin established => p # Responder /\ ratchet'[Responder] = ratchet[Responder]
    BY <1>1, <1>3, <1>12, <2>1
  <2>3. wire'[Responder] = <<>> => p = Initiator /\ wire[Responder] = <<>>
    <3>1. CASE p = Responder
      BY <1>11, <1>12, <3>1
    <3>2. CASE p # Responder
      BY <1>3, <1>12, <2>1, <3>2 DEF Party
    <3> QED BY <3>1, <3>2
  <2>4. ASSUME wire'[Responder] = <<>>
        PROVE  \A i \in 1 .. Len(wire'[Initiator]) : wire'[Initiator][i].prekey
    <3>1. p = Initiator /\ pending[Initiator]
      BY <1>2, <1>4, <2>3, <2>4 DEF HandshakeInv
    <3>2. \A i \in 1 .. Len(wire[Initiator]) : wire[Initiator][i].prekey
      BY <1>2, <2>3, <2>4 DEF HandshakeInv
    <3>3. \A i \in 1 .. n : i = n \/ i \in 1 .. Len(wire[p])
      BY <1>11
    <3> QED BY <1>5, <1>11, <1>12, <3>1, <3>2, <3>3
  <2> QED BY <1>1, <1>2, <1>4, <2>2, <2>3, <2>4 DEF HandshakeInv
<1> QED BY <1>13, <1>15, <1>16

\* p is handed the first copy of message i and goes on with state z: what is
\* left to show is that z agrees with the peer on the other messages.
LEMMA HandAgree ==
    ASSUME IInv, EndsInv, AgreementInv, Initiator \in established,
           NEW p \in Party, NEW i \in Due(p), NEW opened \in BOOLEAN, Handed(p, i, opened),
           NEW z, ratchet'[p] = z, ratchet'[Peer(p)] = ratchet[Peer(p)],
           Initiator \in established',
           nextDh' \in DhKey, nextDh <= nextDh', Below(z, nextDh'), InStep(z),
           Agrees(z, ratchet[Peer(p)], wire[Peer(p)], wire[p], Due(p) \ {i}, Due(Peer(p))),
           overflowed \subseteq overflowed',
           p \notin overflowed' => CacheRight(z, wire[Peer(p)])
    PROVE  EndsInv' /\ AgreementInv'
<1> DEFINE q == Peer(p)
<1>1. /\ q \in Party /\ q # p /\ Peer(q) = p /\ \A x \in Party : x = p \/ x = q
      /\ TypeOK /\ WellFormed(ratchet[q]) /\ wire[p] \in Seq(Envelope) /\ wire[q] \in Seq(Envelope)
      /\ Due(p) \in SUBSET (1 .. Len(wire[q])) /\ Due(q) \in SUBSET (1 .. Len(wire[p]))
      /\ nextDh \in DhKey
  BY EndFacts, PeerFacts
<1>2. /\ \A x \in Party : SameMessages(wire[x], wire'[x])
      /\ \A x \in Party : \A j \in 1 .. Len(wire[x]) :
            /\ wire[x][j].copies \in Nat
            /\ wire'[x][j].copies =
                 IF x = q /\ j = i THEN wire[x][j].copies + 1 ELSE wire[x][j].copies
  BY <1>1, HandedMessages
<1>3. ratchet'[p] = z /\ ratchet'[q] = ratchet[q]
  OBVIOUS
<1>4. \A x \in Party : Len(wire'[x]) = Len(wire[x])
  BY <1>2 DEF SameMessages
<1>5. Due(p)' \in SUBSET (Due(p) \ {i}) /\ Due(q)' \in SUBSET Due(q)
  <2>1. Due(p)' = {j \in 1 .. Len(wire'[q]) : wire'[q][j].copies = 0}
    BY DEF Due
  <2>2. Due(p) = {j \in 1 .. Len(wire[q]) : wire[q][j].copies = 0}
    BY DEF Due
  <2>3. Due(q)' = {j \in 1 .. Len(wire'[p]) : wire'[p][j].copies = 0}
    BY <1>1 DEF Due
  <2>4. Due(q) = {j \in 1 .. Len(wire[p]) : wire[p][j].copies = 0}
    BY <1>1 DEF Due
  <2>5. Due(p)' \subseteq Due(p) \ {i}
    BY <1>1, <1>2, <1>4, <2>1, <2>2
  <2>6. Due(q)' \subseteq Due(q)
    BY <1>1, <1>2, <1>4, <2>3, <2>4
  <2> QED BY <2>5, <2>6
<1>6. Agrees(z, ratchet[q], wire'[q], wire'[p], Due(p)', Due(q)')
  <2>1. SameMessages(wire[q], wire'[q]) /\ SameMessages(wire[p], wire'[p])
    BY <1>1, <1>2
  <2>2. Due(p) \ {i} \in SUBSET (1 .. Len(wire[q]))
    BY <1>1
  <2> QED BY <1>1, <1>5, <2>1, <2>2, AgreesOnFewer
<1>7. Agrees(ratchet[q], z, wire'[p], wire'[q], Due(q)', Due(p)')
  BY <1>6, AgreesBothWays
<1>8. /\ p \notin overflowed' => CacheRight(z, wire'[q])
      /\ q \notin overflowed' => CacheRight(ratchet[q], wire'[p])
  <2>1. q \notin overflowed => CacheRight(ratchet[q], wire[p])
    BY <1>1 DEF AgreementInv
  <2> QED BY <1>1, <1>2, <2>1, RecountedAgrees
<1>9. AgreementInv'
  BY <1>1, <1>3, <1>6, <1>7, <1>8 DEF AgreementInv
<1>10. ASSUME NEW x \in Party
       PROVE  HeadersDiffer(wire'[x]) /\ WireBelow(wire'[x], nextDh')
  <2>1. HeadersDiffer(wire[x]) /\ WireBelow(wire[x], nextDh) /\ wire[x] \in Seq(Envelope)
    BY <1>1 DEF EndsInv
  <2>2. WireBelow(wire[x], nextDh')
    BY <1>1, <2>1, BelowLater
  <2> QED BY <1>2, <2>1, <2>2, RecountedAgrees
<1>11. Below(ratchet[q], nextDh') /\ InStep(ratchet[q])
  <2>1. Below(ratchet[q], nextDh) /\ InStep(ratchet[q])
    BY <1>1 DEF EndsInv
  <2> QED BY <1>1, <2>1, BelowLater
<1>12. EndsInv'
  BY <1>1, <1>3, <1>10, <1>11 DEF EndsInv
<1> QED BY <1>9, <1>12

\* What decrypt does with the first copy of a message, in the state of its
\* receiver, as far as the agreement goes.
LEMMA FirstCopyAgrees ==
    ASSUME IInv, EndsInv, AgreementInv, Initiator \in established,
           NEW p \in Party, NEW i \in Due(p)
    PROVE  LET m == wire[Peer(p)][i]
               out == Decrypt(ratchet[p], m.header, m.key, nextDh)
               z == out.state
           IN  /\ Agrees(z, ratchet[Peer(p)], wire[Peer(p)], wire[p], Due(p) \ {i}, Due(Peer(p)))
               /\ Drew(z) \in DhKey /\ nextDh <= Drew(z)
               /\ Below(z, Drew(z)) /\ InStep(z)
               /\ p \notin overflowed =>
                     /\ CacheRight(z, wire[Peer(p)])
                     /\ out.ok \/ GapTooLong(ratchet[p], m.header) \/ NoRoom(ratchet[p], m.header)
<1> DEFINE q == Peer(p)
           r == ratchet[p]
           h == wire[q][i].header
           key == wire[q][i].key
           out == Decrypt(r, h, key, nextDh)
           z == out.state
<1>1. /\ q \in Party /\ Peer(q) = p
      /\ WellFormed(r) /\ WellFormed(ratchet[q])
      /\ wire[p] \in Seq(Envelope) /\ wire[q] \in Seq(Envelope)
      /\ Due(p) \in SUBSET (1 .. Len(wire[q])) /\ Due(q) \in SUBSET (1 .. Len(wire[p]))
      /\ nextDh \in DhKey /\ nextDh \in Nat
      /\ p \notin overflowed => InStepRecv(r)
  BY EndFacts, PeerFacts
<1>2. /\ HeadersDiffer(wire[q]) /\ WireBelow(wire[q], nextDh) /\ WireBelow(wire[p], nextDh)
      /\ Below(r, nextDh) /\ Below(ratchet[q], nextDh) /\ InStep(r)
  BY <1>1 DEF EndsInv
<1>3. /\ Agrees(r, ratchet[q], wire[q], wire[p], Due(p), Due(q))
      /\ p \notin overflowed => CacheRight(r, wire[q])
  BY DEF AgreementInv
<1>4. /\ Agrees(z, ratchet[q], wire[q], wire[p], Due(p) \ {i}, Due(q))
      /\ CacheRight(r, wire[q]) /\ InStepRecv(r) =>
            CacheRight(z, wire[q]) /\ (out.ok \/ GapTooLong(r, h) \/ NoRoom(r, h))
  BY <1>1, <1>2, <1>3, DecryptAgrees
<1>5. h \in Header /\ h.dh_pub < nextDh
  BY <1>1, <1>2, EnvelopeFacts DEF WireBelow
<1>6. Below(z, After(z, nextDh)) /\ InStep(z)
  <2> HIDE DEF h, key
  <2> QED BY <1>1, <1>2, <1>5, DecryptBelow
<1> HIDE DEF z, out
<1>7. Drew(z) = After(z, nextDh) /\ Drew(z) \in DhKey /\ nextDh <= Drew(z)
  BY <1>1 DEF Drew, After, DhKey
<1> QED BY <1>1, <1>3, <1>4, <1>6, <1>7 DEF z, out

\* A message that arrives while nothing has been duplicated is a first copy.
LEMMA FirstCopy ==
    ASSUME TypeOK, NEW p \in Party, NEW i \in 1 .. Len(wire[Peer(p)]), Arrives(p, i),
           duplicates' = 0
    PROVE  i \in Due(p) /\ duplicates = 0
BY DEF Arrives, Due, TypeOK

\* Session::decrypt.
LEMMA ReceiveAgree ==
    ASSUME IInv, AgreeInv, NEW p \in Party, NEW i \in 1 .. Len(wire[Peer(p)]), Receive(p, i)
    PROVE  AgreeInv'
<1> SUFFICES ASSUME duplicates' = 0
             PROVE  EndsInv' /\ HandshakeInv' /\ AgreementInv'
  BY DEF AgreeInv
<1> DEFINE m == wire[Peer(p)][i]
           out == Decrypt(ratchet[p], m.header, m.key, nextDh)
           z == out.state
<1>1. /\ p \in established /\ Arrives(p, i) /\ Handed(p, i, out.ok)
      /\ ratchet' = [ratchet EXCEPT ![p] = z]
      /\ pending' = [pending EXCEPT ![p] = @ /\ ~out.ok]
      /\ nextDh' = Drew(z)
      /\ overflowed \subseteq overflowed'
      /\ established' = established
  BY DEF Receive
<1>2. TypeOK
  BY DEF IInv
<1>3. i \in Due(p) /\ duplicates = 0
  BY <1>1, <1>2, FirstCopy
<1>4. EndsInv /\ HandshakeInv /\ AgreementInv
  BY <1>3 DEF AgreeInv
<1>5. Initiator \in established
  BY <1>1, <1>4 DEF HandshakeInv, Party
<1>6. /\ Agrees(z, ratchet[Peer(p)], wire[Peer(p)], wire[p], Due(p) \ {i}, Due(Peer(p)))
      /\ Drew(z) \in DhKey /\ nextDh <= Drew(z)
      /\ Below(z, Drew(z)) /\ InStep(z)
      /\ p \notin overflowed => CacheRight(z, wire[Peer(p)])
  BY <1>3, <1>4, <1>5, FirstCopyAgrees
<1>7. out.ok \in BOOLEAN
  BY DecryptOutcomes DEF IInv
<1> HIDE DEF z, out
<1>8. EndsInv' /\ AgreementInv'
  <2>1. ratchet'[p] = z /\ ratchet'[Peer(p)] = ratchet[Peer(p)]
    BY <1>1, <1>2, PeerFacts DEF TypeOK
  <2> QED BY <1>1, <1>3, <1>4, <1>5, <1>6, <1>7, <2>1, HandAgree
<1>9. /\ \A x \in Party : SameMessages(wire[x], wire'[x])
      /\ \A x \in Party : \A j \in 1 .. Len(wire[x]) : wire'[x][j].prekey = wire[x][j].prekey
  BY <1>1, <1>2, <1>7, HandedMessages
<1>10. /\ Initiator \in Party /\ Responder \in Party /\ Initiator # Responder
       /\ Peer(Initiator) = Responder
       /\ DOMAIN ratchet = Party /\ DOMAIN pending = Party
       /\ wire[Responder] \in Seq(Envelope) /\ wire[Peer(p)] \in Seq(Envelope)
  BY <1>2, PartyAssumption, PeerFacts DEF Party, Peer, TypeOK
<1>11. wire'[Responder] = <<>> => wire[Responder] = <<>> /\ p # Initiator
  <2>1. Len(wire'[Responder]) = Len(wire[Responder])
    BY <1>9, <1>10 DEF SameMessages
  <2>2. ASSUME wire'[Responder] = <<>>
        PROVE  wire[Responder] = <<>>
    BY <1>10, <2>1, <2>2
  <2>3. ASSUME wire[Responder] = <<>>, p = Initiator
        PROVE  FALSE
    BY <1>10, <2>3
  <2> QED BY <2>2, <2>3
<1>12. Responder \notin established => ratchet'[Responder] = ratchet[Responder]
  BY <1>1, <1>10
<1>13. p # Initiator => pending'[Initiator] = pending[Initiator]
  BY <1>1, <1>10
<1>14. Len(wire'[Initiator]) = Len(wire[Initiator])
  BY <1>9, <1>10 DEF SameMessages
<1>15. HandshakeInv'
  BY <1>1, <1>4, <1>9, <1>10, <1>11, <1>12, <1>13, <1>14 DEF HandshakeInv
<1> QED BY <1>8, <1>15

\* Session::respond.
LEMMA RespondAgree ==
    ASSUME IInv, AgreeInv, NEW i \in 1 .. Len(wire[Initiator]), Respond(i)
    PROVE  AgreeInv'
<1> SUFFICES ASSUME duplicates' = 0
             PROVE  EndsInv' /\ HandshakeInv' /\ AgreementInv'
  BY DEF AgreeInv
<1> DEFINE p == Responder
           m == wire[Initiator][i]
           fresh == InitResponder(SPK)
           out == Decrypt(fresh, m.header, m.key, nextDh)
<1>1. /\ p \in Party /\ Initiator \in Party /\ Peer(p) = Initiator /\ p # Initiator
      /\ Peer(Initiator) = p /\ i \in 1 .. Len(wire[Peer(p)])
  BY PartyAssumption DEF Party, Peer
<1>2. TypeOK /\ DOMAIN ratchet = Party
  BY DEF IInv, TypeOK
<1>3. /\ p \notin established /\ Arrives(p, i)
      /\ pending' = pending /\ overflowed' = overflowed
  BY DEF Respond
<1>4. i \in Due(p) /\ duplicates = 0
  BY <1>1, <1>2, <1>3, FirstCopy
<1>5. EndsInv /\ HandshakeInv /\ AgreementInv
  BY <1>4 DEF AgreeInv
<1>6. Initiator \in established
  <2>1. ASSUME Initiator \notin established
        PROVE  FALSE
    <3>1. wire[Initiator] = <<>>
      BY <1>1, <1>5, <2>1, QuietBefore
    <3> QED BY <3>1
  <2> QED BY <2>1
<1>7. ratchet[p] = fresh
  BY <1>3, <1>5 DEF HandshakeInv
<1>8. /\ Agrees(out.state, ratchet[Peer(p)], wire[Peer(p)], wire[p], Due(p) \ {i}, Due(Peer(p)))
      /\ Drew(out.state) \in DhKey /\ nextDh <= Drew(out.state)
      /\ Below(out.state, Drew(out.state)) /\ InStep(out.state)
      /\ p \notin overflowed => CacheRight(out.state, wire[Peer(p)])
  <2>1. LET n == wire[Peer(p)][i]
            o == Decrypt(ratchet[p], n.header, n.key, nextDh)
            z == o.state
        IN  /\ Agrees(z, ratchet[Peer(p)], wire[Peer(p)], wire[p], Due(p) \ {i}, Due(Peer(p)))
            /\ Drew(z) \in DhKey /\ nextDh <= Drew(z)
            /\ Below(z, Drew(z)) /\ InStep(z)
            /\ p \notin overflowed => CacheRight(z, wire[Peer(p)])
    BY <1>1, <1>4, <1>5, <1>6, FirstCopyAgrees
  <2> QED BY <1>1, <1>7, <2>1
<1>9. /\ Agrees(fresh, ratchet[Peer(p)], wire[Peer(p)], wire[p], Due(p) \ {i}, Due(Peer(p)))
      /\ Below(fresh, nextDh) /\ InStep(fresh) /\ WellFormed(fresh)
      /\ p \notin overflowed => CacheRight(fresh, wire[Peer(p)])
  <2>1. Agrees(fresh, ratchet[Peer(p)], wire[Peer(p)], wire[p], Due(p), Due(Peer(p)))
    BY <1>1, <1>5, <1>6, <1>7 DEF AgreementInv
  <2>2. /\ SameMessages(wire[p], wire[p]) /\ SameMessages(wire[Peer(p)], wire[Peer(p)])
        /\ Due(p) \in SUBSET (1 .. Len(wire[Peer(p)])) /\ Due(Peer(p)) \in SUBSET (1 .. Len(wire[p]))
    BY <1>1, EndFacts DEF SameMessages
  <2>3. Agrees(fresh, ratchet[Peer(p)], wire[Peer(p)], wire[p], Due(p) \ {i}, Due(Peer(p)))
    <3>1. Due(p) \ {i} \in SUBSET Due(p) /\ Due(Peer(p)) \in SUBSET Due(Peer(p))
      OBVIOUS
    <3> QED BY <2>1, <2>2, <3>1, AgreesOnFewer
  <2>4. Below(fresh, nextDh) /\ InStep(fresh) /\ WellFormed(fresh)
    BY <1>1, <1>5, <1>7 DEF EndsInv, IInv
  <2>5. p \notin overflowed => CacheRight(fresh, wire[Peer(p)])
    BY <1>1, <1>5, <1>7 DEF AgreementInv
  <2> QED BY <2>3, <2>4, <2>5
<1>10. out.ok \in BOOLEAN
  BY <1>1, DecryptOutcomes DEF IInv
<1>11. \/ /\ Handed(p, i, FALSE) /\ UNCHANGED <<established, ratchet, nextDh>>
       \/ /\ Handed(p, i, out.ok) /\ out.ok /\ nextDh' = Drew(out.state)
          /\ established' = established \cup {p}
          /\ ratchet' = [ratchet EXCEPT ![p] = out.state]
       \/ /\ Handed(p, i, out.ok) /\ ~out.ok /\ nextDh' = Drew(out.state)
          /\ UNCHANGED <<established, ratchet>>
  BY DEF Respond
<1> HIDE DEF p, out, fresh
<1>12. PICK ok \in BOOLEAN, z \in {fresh, out.state} :
          /\ Handed(p, i, ok)
          /\ ratchet'[p] = z /\ ratchet'[Peer(p)] = ratchet[Peer(p)]
          /\ nextDh' \in DhKey /\ nextDh <= nextDh' /\ Below(z, nextDh') /\ InStep(z)
          /\ Agrees(z, ratchet[Peer(p)], wire[Peer(p)], wire[p], Due(p) \ {i}, Due(Peer(p)))
          /\ p \notin overflowed => CacheRight(z, wire[Peer(p)])
          /\ (established' = established /\ z = fresh) \/ established' = established \cup {p}
  <2>1. nextDh \in DhKey /\ nextDh <= nextDh
    BY <1>1, EndFacts
  <2>2. ratchet' = [ratchet EXCEPT ![p] = out.state] =>
          ratchet'[p] = out.state /\ ratchet'[Peer(p)] = ratchet[Peer(p)]
    BY <1>1, <1>2
  <2>3. Below(fresh, Drew(out.state))
    BY <1>8, <1>9, <2>1, BelowLater
  <2>4. CASE Handed(p, i, FALSE) /\ UNCHANGED <<established, ratchet, nextDh>>
    BY <1>7, <1>9, <2>1, <2>4
  <2>5. CASE /\ Handed(p, i, out.ok) /\ out.ok /\ nextDh' = Drew(out.state)
             /\ established' = established \cup {p}
             /\ ratchet' = [ratchet EXCEPT ![p] = out.state]
    BY <1>8, <1>10, <2>2, <2>5
  <2>6. CASE /\ Handed(p, i, out.ok) /\ ~out.ok /\ nextDh' = Drew(out.state)
             /\ UNCHANGED <<established, ratchet>>
    BY <1>7, <1>8, <1>9, <1>10, <2>3, <2>6
  <2> QED BY <1>11, <2>4, <2>5, <2>6
<1>13. EndsInv' /\ AgreementInv'
  BY <1>1, <1>3, <1>4, <1>5, <1>6, <1>12, HandAgree
<1>14. /\ \A x \in Party : SameMessages(wire[x], wire'[x])
       /\ \A x \in Party : \A j \in 1 .. Len(wire[x]) : wire'[x][j].prekey = wire[x][j].prekey
  BY <1>1, <1>2, <1>12, HandedMessages
<1>15. HandshakeInv'
  <2>1. Len(wire'[p]) = Len(wire[p]) /\ Len(wire'[Initiator]) = Len(wire[Initiator])
    BY <1>1, <1>14 DEF SameMessages
  <2>2. wire'[p] = <<>> => wire[p] = <<>>
    <3>1. wire[p] \in Seq(Envelope)
      BY <1>1, <1>2 DEF TypeOK
    <3> QED BY <2>1, <3>1
  <2>3. p \notin established' => ratchet'[p] = fresh
    BY <1>1, <1>2, <1>12
  <2>4. Initiator \in established' /\ (Initiator \in established' => pending'[Initiator] = pending[Initiator])
    BY <1>3, <1>6, <1>12
  <2> QED BY <1>1, <1>5, <1>6, <1>14, <2>1, <2>2, <2>3, <2>4 DEF HandshakeInv, p, fresh
<1> QED BY <1>13, <1>15

\* No step breaks the agreement.
LEMMA NextAgree == IInv /\ AgreeInv /\ [Next]_vars => AgreeInv'
<1> SUFFICES ASSUME IInv, AgreeInv, [Next]_vars
             PROVE  AgreeInv'
  OBVIOUS
<1>1. CASE Initiate
  BY <1>1, InitiateAgree
<1>2. ASSUME NEW p \in Party, Send(p)
      PROVE  AgreeInv'
  BY <1>2, SendAgree
<1>3. ASSUME NEW i \in 1 .. Len(wire[Initiator]), Respond(i)
      PROVE  AgreeInv'
  BY <1>3, RespondAgree
<1>4. ASSUME NEW p \in Party, NEW i \in 1 .. Len(wire[Peer(p)]), Receive(p, i)
      PROVE  AgreeInv'
  BY <1>4, ReceiveAgree
<1>5. CASE UNCHANGED vars
  <2>1. UNCHANGED <<established, ratchet, pending, nextDh, wire, duplicates, overflowed>>
    BY <1>5 DEF vars
  <2>2. \A p \in Party : Due(p)' = Due(p)
    BY <2>1 DEF Due
  <2>3. EndsInv' = EndsInv /\ HandshakeInv' = HandshakeInv
    BY <2>1 DEF EndsInv, HandshakeInv
  <2>4. AgreementInv => AgreementInv'
    BY <2>1, <2>2, PeerFacts DEF AgreementInv
  <2> QED BY <2>1, <2>3, <2>4 DEF AgreeInv
<1> QED BY <1>1, <1>2, <1>3, <1>4, <1>5 DEF Next

\* As long as the network duplicates nothing, the two ends of a session agree
\* on every key that is still to be used: each message that is still to come is
\* in the receiver's cache, in its receiving chain, or in the chain its next DH
\* ratchet turns to - whatever was lost, reordered or refused.
THEOREM EndsAgree == Spec => []AgreeInv
<1>1. Init => AgreeInv
  BY InitAgree
<1>2. IInv /\ AgreeInv /\ [Next]_vars => AgreeInv'
  BY NextAgree
<1> QED BY <1>1, <1>2, Invariance, PTL DEF Spec

\* The reasons for which a step may refuse the first copy of a message.
RefusedForLimits ==
    \A p \in Party : \A i \in 1 .. Len(wire[Peer(p)]) :
        FirstCopyRefused(p, i) /\ duplicates = 0 =>
            \/ GapTooLong(ratchet[p], wire[Peer(p)][i].header)
            \/ NoRoom(ratchet[p], wire[Peer(p)][i].header)
            \/ p \in overflowed
            \/ p \notin established /\ withOpk /\ ~opkHeld

\* A message whose copies a step counts was handed over in that step.
LEMMA CountedIsHanded ==
    ASSUME TypeOK, NEW p \in Party, NEW i \in 1 .. Len(wire[Peer(p)]),
           NEW ok \in BOOLEAN, Handed(p, i, ok),
           NEW q \in Party, NEW j \in 1 .. Len(wire[Peer(q)]), FirstCopyRefused(q, j)
    PROVE  q = p /\ j = i /\ ~ok
<1>1. Peer(q) \in Party /\ Peer(Peer(q)) = q /\ Peer(Peer(p)) = p
  BY PeerFacts
<1>2. wire'[Peer(q)][j].copies =
        IF Peer(q) = Peer(p) /\ j = i THEN wire[Peer(q)][j].copies + 1
                                      ELSE wire[Peer(q)][j].copies
  BY <1>1, HandedMessages
<1>3. Peer(q) = Peer(p) /\ j = i
  BY <1>2 DEF FirstCopyRefused
<1>4. wire'[Peer(q)][j].accepts =
        IF ok THEN wire[Peer(q)][j].accepts + 1 ELSE wire[Peer(q)][j].accepts
  BY <1>1, <1>3, HandedFacts
<1>5. wire[Peer(q)][j].accepts \in Nat
  <2>1. wire[Peer(q)] \in Seq(Envelope)
    BY <1>1 DEF TypeOK
  <2>2. wire[Peer(q)][j] \in Envelope
    BY <2>1
  <2> QED BY <2>2 DEF Envelope
<1>6. ~ok
  BY <1>4, <1>5 DEF FirstCopyRefused
<1> QED BY <1>1, <1>3, <1>6

\* Session::decrypt and Session::respond refuse the first copy of a message only
\* for a gap above MAX_SKIP, for a cache that cannot take the keys in front of
\* it (or could not before), or for a one-time prekey that an earlier refusal
\* used up, as long as the network duplicates nothing.
THEOREM OnlyLimitsRefuse == Spec => RefusedOnlyByLimits
<1>1. IInv /\ AgreeInv /\ [Next]_vars => RefusedForLimits
  <2> SUFFICES ASSUME IInv, AgreeInv, [Next]_vars,
                      NEW p \in Party, NEW i \in 1 .. Len(wire[Peer(p)]),
                      FirstCopyRefused(p, i), duplicates = 0,
                      p \notin overflowed, ~(p \notin established /\ withOpk /\ ~opkHeld)
               PROVE  \/ GapTooLong(ratchet[p], wire[Peer(p)][i].header)
                      \/ NoRoom(ratchet[p], wire[Peer(p)][i].header)
    BY DEF RefusedForLimits
  <2>1. EndsInv /\ HandshakeInv /\ AgreementInv /\ TypeOK /\ Peer(p) \in Party
    BY PeerFacts DEF AgreeInv, IInv
  <2>2. wire'[Peer(p)][i] # wire[Peer(p)][i] /\ i \in Due(p)
    BY DEF FirstCopyRefused, Due
  <2>3. Initiator \in established
    <3>1. ASSUME Initiator \notin established
          PROVE  FALSE
      <4>1. wire[Peer(p)] = <<>>
        BY <2>1, <3>1, QuietBefore
      <4> QED BY <4>1
    <3> QED BY <3>1
  <2> DEFINE m == wire[Peer(p)][i]
             out == Decrypt(ratchet[p], m.header, m.key, nextDh)
  <2>4. out.ok \/ GapTooLong(ratchet[p], m.header) \/ NoRoom(ratchet[p], m.header)
    BY <2>1, <2>2, <2>3, FirstCopyAgrees
  <2> HIDE DEF out
  <2>5. SUFFICES ~out.ok
    BY <2>4
  <2>6. CASE Initiate
    BY <2>2, <2>6 DEF Initiate
  <2>7. ASSUME NEW q \in Party, Send(q)
        PROVE  ~out.ok
    BY <2>1, <2>2, <2>7, SendOpens
  <2>8. ASSUME NEW q \in Party, NEW j \in 1 .. Len(wire[Peer(q)]), Receive(q, j)
        PROVE  ~out.ok
    <3> DEFINE n == wire[Peer(q)][j]
               o == Decrypt(ratchet[q], n.header, n.key, nextDh)
    <3>1. Handed(q, j, o.ok) /\ o.ok \in BOOLEAN
      BY <2>8, DecryptOutcomes DEF Receive
    <3> HIDE DEF o
    <3>2. p = q /\ i = j /\ ~o.ok
      BY <2>1, <3>1, CountedIsHanded
    <3> QED BY <3>2 DEF o, out
  <2>9. ASSUME NEW j \in 1 .. Len(wire[Initiator]), Respond(j)
        PROVE  ~out.ok
    <3> DEFINE n == wire[Initiator][j]
               o == Decrypt(InitResponder(SPK), n.header, n.key, nextDh)
    <3>1. Responder \in Party /\ Peer(Responder) = Initiator
      BY PartyAssumption DEF Party, Peer
    <3>2. o.ok \in BOOLEAN
      <4>1. j \in 1 .. Len(wire[Peer(Responder)])
        BY <3>1
      <4>2. LET k == wire[Peer(Responder)][j]
            IN  Decrypt(InitResponder(SPK), k.header, k.key, nextDh).ok \in BOOLEAN
        BY <3>1, <4>1, DecryptOutcomes
      <4> QED BY <3>1, <4>2
    <3>3. Responder \notin established /\ (Handed(Responder, j, FALSE) \/ Handed(Responder, j, o.ok))
      BY <2>9 DEF Respond
    <3>4. p = Responder /\ i = j
      <4> HIDE DEF o
      <4>1. PICK ok \in BOOLEAN : Handed(Responder, j, ok)
        BY <3>2, <3>3
      <4> QED BY <2>1, <3>1, <4>1, CountedIsHanded
    <3>5. ~HandshakeFails(n)
      <4>1. wire[Responder] = <<>>
        BY <3>1, <3>3 DEF IInv, SendInv
      <4>2. n.prekey
        BY <2>1, <4>1 DEF HandshakeInv
      <4> QED BY <3>3, <3>4, <4>2 DEF HandshakeFails
    <3>6. Handed(Responder, j, o.ok)
      BY <2>9, <3>5 DEF Respond
    <3> HIDE DEF o
    <3>7. ~o.ok
      BY <2>1, <3>1, <3>2, <3>4, <3>6, CountedIsHanded
    <3>8. ratchet[Responder] = InitResponder(SPK)
      BY <2>1, <3>3 DEF HandshakeInv
    <3> QED BY <3>1, <3>4, <3>7, <3>8 DEF o, out
  <2>10. CASE UNCHANGED vars
    BY <2>2, <2>10 DEF vars
  <2> QED BY <2>6, <2>7, <2>8, <2>9, <2>10 DEF Next
<1> QED BY <1>1, EndsAgree, Invariance, PTL DEF Spec, RefusedOnlyByLimits, RefusedForLimits
=============================================================================
