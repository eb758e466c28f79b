---------------------------- MODULE PreKeysProofs ----------------------------
(***************************************************************************)
(* Theorems about PreKeys, for every number of peers, prekeys, kills and   *)
(* changes of the transport: what happens to a prekey that was published.  *)
(***************************************************************************)
EXTENDS PreKeys, TLAPS, FiniteSetTheorems, WellFoundedInduction

\* An account in its stored form.
Bytes == [one_time_prekeys : SUBSET Prekey, next_opk_id : Nat]

\* Every id names one prekey, and the next id is above all of them.
GoodBytes(b) ==
    /\ b \in Bytes
    /\ \A x, y \in b.one_time_prekeys : x.id = y.id => x = y
    /\ \A x \in b.one_time_prekeys : x.id < b.next_opk_id

GoodAccount(a) ==
    /\ a = [one_time_prekeys |-> a.one_time_prekeys, next_opk_id |-> a.next_opk_id]
    /\ a.one_time_prekeys = [i \in DOMAIN a.one_time_prekeys |-> a.one_time_prekeys[i]]
    /\ GoodBytes(ToBytes(a))

NoKeyBundle == [opk |-> None]
Write ==
    [what : {"account"}, value : Bytes] \cup [what : {"sessions"}, value : Peer]
        \cup [what : {"contacts"}, value : SUBSET Peer]
PublicationOf == [base : {NoKeyBundle}, one_time : Seq(Prekey), from : {"start", "replenish"}]
Directory == [base : {NoKeyBundle}, one_time : Seq(Prekey)]

\* The prekeys on their way to a peer: asked to be published, published, stored
\* by the relay, or fetched.
InRequests(rs) == UNION {SeqElements(rs[i].one_time) : i \in 1 .. Len(rs)}
InDirectory(d) == IF d = None THEN {} ELSE SeqElements(d.one_time)
InBundles(bs) == {bs[p].opk : p \in {q \in Peer : bs[q] # None}} \ {None}

Offered ==
    InRequests(requests) \cup InDirectory(directory) \cup InDirectory(saved) \cup InBundles(bundle)

\* Every copy of the account the app may go on with: the ones that are being
\* written, the stored one and the one in memory.
AccountsIn(ws) == {i \in 1 .. Len(ws) : ws[i].what = "account"}
AccountWrites == AccountsIn(writes)

Copies ==
    {writes[i].value : i \in AccountWrites}
      \cup ({storage.account} \ {None})
      \cup (IF phase = "down" THEN {} ELSE {ToBytes(account)})

Known == Offered \cup UNION {b.one_time_prekeys : b \in Copies}

ShapeInv ==
    /\ phase \in {"down", "storing", "failed", "starting", "publishing", "running"}
    /\ replenish \in {"idle", "writing", "publishing"}
    /\ restarts \in Nat /\ fresh \in Nat
    /\ sessions \in SUBSET Peer /\ contacts \in SUBSET Peer
    /\ storage = [account |-> storage.account, sessions |-> storage.sessions,
                  contacts |-> storage.contacts]
    /\ storage.sessions \in SUBSET Peer /\ storage.contacts \in SUBSET Peer
    /\ storage.account \in Bytes \cup {None}
    /\ writes \in Seq(Write)
    /\ requests \in Seq(PublicationOf)
    /\ directory # None => directory \in Directory
    /\ saved # None => saved \in Directory
    /\ bundle = [p \in Peer |-> bundle[p]]
    /\ \A p \in Peer : bundle[p] # None => bundle[p] \in [opk : Prekey \cup {None}]
    /\ uses \subseteq Peer \X Nat
    /\ phase # "down" => GoodAccount(account)
    /\ phase = "down" => account = None /\ writes = <<>> /\ requests = <<>> /\ replenish = "idle"

\* Key material is new when it is made: it never comes with two ids.
FreshInv ==
    /\ \A b \in Copies : GoodBytes(b)
    /\ \A x, y \in Known : x.key = y.key => x = y
    /\ \A x \in Known : x.key < fresh
    /\ \A u \in uses : u[2] < fresh

\* At most one write of the account is under way, and it has what memory holds.
Held == ToBytes(account)
Covers(b, c) == c.one_time_prekeys \subseteq b.one_time_prekeys
WritesInv ==
    /\ \A i, j \in AccountWrites : i = j
    /\ AccountWrites # {} => phase = "storing" \/ replenish = "writing"
    /\ phase \in {"storing", "failed"} => replenish = "idle"
    /\ \A i \in AccountWrites : Covers(writes[i].value, Held)
    /\ storage.account = None => Offered = {} /\ phase \in {"down", "storing", "failed"}

\* The worker has something to publish only while it runs, and at most one
\* publication of a replenishment, for which the flag is set.
ReplenishesIn(rs) == {i \in 1 .. Len(rs) : rs[i].from = "replenish"}
RequestsInv ==
    /\ requests # <<>> => phase \in {"publishing", "running"}
    /\ \A i, j \in ReplenishesIn(requests) : i = j
    /\ ReplenishesIn(requests) # {} => replenish = "publishing"

\* No copy of the account has, or will give, the id of an offered prekey to
\* other material, unless it was exposed.
Fits(e, b) ==
    /\ e.id < b.next_opk_id
    /\ \A x \in b.one_time_prekeys : x.id = e.id => x.key = e.key
FitsInv == \A e \in Offered : \A b \in Copies : e.key \notin exposed => Fits(e, b)

\* Every copy of the account has the private half of an offered prekey that was
\* not exposed.
KeptInv ==
    \A e \in Offered : \A b \in Copies :
        e \in b.one_time_prekeys \/ Spent(e.key) \/ e.key \in exposed

\* Without a kill, the account in memory has it whatever was exposed.
NeverKilledInv ==
    restarts = 0 =>
        /\ phase = "down" => storage.account = None
        /\ phase # "down" => \A e \in Offered : e \in Held.one_time_prekeys \/ Spent(e.key)

\* A prekey that was used and is still there was undone by a kill.
Unused(b) == \A x \in b.one_time_prekeys : Used(x.key) => x.key \in undone
UsesInv ==
    /\ phase # "down" => Unused(Held)
    /\ phase = "down" /\ storage.account # None => Unused(storage.account)
    /\ OneSessionPerPrekey

\* A session in memory and its contact are in the storage, in a write under way,
\* or in a write that failed.  The contact lists under way grow, from the stored
\* one to the one in memory.
ContactsIn(ws) == {i \in 1 .. Len(ws) : ws[i].what = "contacts"}
Stored == storage.sessions \cap storage.contacts
ContactsInv ==
    /\ sessions \subseteq contacts
    /\ storage.account = None => contacts = {} /\ storage.contacts = {} /\ uses = {}
    /\ phase # "down" => storage.contacts \subseteq contacts
    /\ \A i \in ContactsIn(writes) :
          storage.contacts \subseteq writes[i].value /\ writes[i].value \subseteq contacts
    /\ \A i, j \in ContactsIn(writes) : i < j => writes[i].value \subseteq writes[j].value
SessionsInv ==
    /\ \A p \in sessions : p \in storage.sessions \cup unsaved \/ SessionOwed(p)
    /\ \A p \in sessions : p \in storage.contacts \cup unsaved \/ ContactOwed(p)
    /\ phase # "down" => \A u \in uses : u[1] \in sessions \cup lost
    /\ phase = "down" => \A u \in uses : u[1] \in Stored \cup lost

PrekeyInv ==
    /\ ShapeInv
    /\ FreshInv
    /\ WritesInv
    /\ RequestsInv
    /\ FitsInv
    /\ KeptInv
    /\ NeverKilledInv
    /\ UsesInv
    /\ ContactsInv
    /\ SessionsInv

-----------------------------------------------------------------------------
(* The operations of the account, on its stored form.                      *)

\* A finite set of numbers has an element with n - 1 smaller ones, for every n
\* up to its size: the ranks are as many as the elements, and no two share one.
LEMMA RankExists ==
    ASSUME NEW D \in SUBSET Nat, IsFiniteSet(D), NEW n \in 1 .. Cardinality(D)
    PROVE  \E i \in D : Cardinality({j \in D : j < i}) = n - 1
<1> DEFINE Below(i) == {j \in D : j < i}
           N == Cardinality(D)
           R == 0 .. (N - 1)
           f == [i \in D |-> Cardinality(Below(i))]
<1>1. N \in Nat BY FS_CardinalityType
<1>2. \A i \in D : IsFiniteSet(Below(i)) /\ Cardinality(Below(i)) \in Nat
  <2> SUFFICES ASSUME NEW i \in D PROVE IsFiniteSet(Below(i)) /\ Cardinality(Below(i)) \in Nat
    OBVIOUS
  <2>1. Below(i) \in SUBSET D OBVIOUS
  <2> HIDE DEF Below
  <2> QED BY <2>1, FS_Subset, FS_CardinalityType
<1>3. \A i \in D : Cardinality(Below(i)) <= N - 1
  <2> SUFFICES ASSUME NEW i \in D PROVE Cardinality(Below(i)) <= N - 1
    OBVIOUS
  <2>1. Below(i) \in SUBSET (D \ {i}) OBVIOUS
  <2>2. IsFiniteSet(D \ {i}) /\ Cardinality(D \ {i}) = N - 1 BY FS_RemoveElement
  <2> HIDE DEF Below, N
  <2> QED BY <2>1, <2>2, FS_Subset
<1>4. \A i, k \in D : i < k => Cardinality(Below(i)) < Cardinality(Below(k))
  <2> SUFFICES ASSUME NEW i \in D, NEW k \in D, i < k
               PROVE  Cardinality(Below(i)) < Cardinality(Below(k))
    OBVIOUS
  <2>0. \A j \in D : j < i => j < k OBVIOUS
  <2>1a. Below(i) \in SUBSET Below(k) BY <2>0
  <2>1b. i \in Below(k) OBVIOUS
  <2>1c. ~(i < i) OBVIOUS
  <2>1d. i \notin Below(i) BY <2>1c
  <2>1. Below(i) \in SUBSET Below(k) /\ i \in Below(k) /\ i \notin Below(i) BY <2>1a, <2>1b, <2>1d
  <2>2. IsFiniteSet(Below(k)) /\ Cardinality(Below(k)) \in Nat /\ Cardinality(Below(i)) \in Nat BY <1>2
  <2> HIDE DEF Below
  <2>3. /\ Cardinality(Below(i)) <= Cardinality(Below(k))
        /\ Cardinality(Below(k)) = Cardinality(Below(i)) => Below(k) = Below(i)
    BY <2>1, <2>2, FS_Subset
  <2> QED BY <2>1, <2>2, <2>3
<1> HIDE DEF Below, N
<1>5. \A i \in D : f[i] \in R BY <1>1, <1>2, <1>3
<1>6. f \in [D -> R] BY <1>5
<1>7. \A i, k \in D : f[i] = f[k] => i = k
  <2> SUFFICES ASSUME NEW i \in D, NEW k \in D, f[i] = f[k], i # k PROVE FALSE
    OBVIOUS
  <2>1. i < k \/ k < i OBVIOUS
  <2> QED BY <1>2, <1>4, <2>1
<1>8. IsFiniteSet(R) /\ Cardinality(R) = N
  <2>1. N # 0 BY <1>1 DEF N
  <2>2. 0 \in Int /\ N - 1 \in Int /\ ~(0 > N - 1) /\ (N - 1) - 0 + 1 = N BY <1>1, <2>1
  <2>3. IsFiniteSet(0 .. (N - 1)) /\ Cardinality(0 .. (N - 1)) = IF 0 > N - 1 THEN 0 ELSE (N - 1) - 0 + 1
    BY <2>2, FS_Interval
  <2> QED BY <2>2, <2>3
<1> HIDE DEF f, R
<1>9. f \in Injection(D, R) BY <1>6, <1>7 DEF Injection, IsInjective
<1>10. f \in Surjection(D, R) BY <1>8, <1>9, FS_Injection DEF N
<1>11. n - 1 \in R BY <1>1 DEF R, N
<1>12. \E i \in D : f[i] = n - 1 BY <1>10, <1>11 DEF Surjection
<1> QED BY <1>12 DEF f, Below

\* The ids of an account are below its next id, so they are finitely many.
LEMMA PoolFinite ==
    ASSUME NEW a, GoodAccount(a)
    PROVE  /\ DOMAIN a.one_time_prekeys \in SUBSET Nat
           /\ \A i \in DOMAIN a.one_time_prekeys : a.one_time_prekeys[i] \in Nat /\ i < a.next_opk_id
           /\ a.next_opk_id \in Nat
           /\ IsFiniteSet(DOMAIN a.one_time_prekeys)
           /\ Remaining(a) \in Nat
<1> DEFINE pool == a.one_time_prekeys
           n == a.next_opk_id
<1>1. \A i \in DOMAIN pool : [id |-> i, key |-> pool[i]] \in ToBytes(a).one_time_prekeys
  BY DEF ToBytes, Entries
<1>2. ToBytes(a).next_opk_id = n /\ ToBytes(a) \in Bytes BY DEF GoodAccount, GoodBytes, ToBytes
<1>3. n \in Nat /\ ToBytes(a).one_time_prekeys \in SUBSET Prekey BY <1>2 DEF Bytes
<1>4. \A i \in DOMAIN pool : i \in Nat /\ pool[i] \in Nat BY <1>1, <1>3 DEF Prekey, Key
<1>5. \A i \in DOMAIN pool : i < n
  <2> SUFFICES ASSUME NEW i \in DOMAIN pool PROVE i < n OBVIOUS
  <2>1. [id |-> i, key |-> pool[i]].id < ToBytes(a).next_opk_id
    BY <1>1 DEF GoodAccount, GoodBytes
  <2> QED BY <1>2, <2>1
<1> HIDE DEF n, pool
<1>6. DOMAIN pool \in SUBSET (0 .. n) BY <1>3, <1>4, <1>5
<1>7. IsFiniteSet(0 .. n) BY <1>3, FS_Interval
<1>8. IsFiniteSet(DOMAIN pool) BY <1>6, <1>7, FS_Subset
<1>9. Cardinality(DOMAIN pool) \in Nat BY <1>8, FS_CardinalityType
<1> QED BY <1>3, <1>4, <1>5, <1>8, <1>9 DEF Remaining, n, pool

\* one_time_prekey_publics lists prekeys of the account.
LEMMA PublicsAreEntries ==
    ASSUME NEW a, GoodAccount(a)
    PROVE  /\ OneTimePrekeyPublics(a) \in Seq(Prekey)
           /\ SeqElements(OneTimePrekeyPublics(a)) \subseteq ToBytes(a).one_time_prekeys
<1> DEFINE pool == a.one_time_prekeys
           D == DOMAIN pool
           B == ToBytes(a).one_time_prekeys
           Nth(n) == CHOOSE i \in D : Cardinality({j \in D : j < i}) = n - 1
           s == OneTimePrekeyPublics(a)
           N == Remaining(a)
<1>1. D \in SUBSET Nat /\ IsFiniteSet(D) /\ N \in Nat BY PoolFinite
<1>2. ASSUME NEW n \in 1 .. N PROVE Nth(n) \in D
  <2>1. n \in 1 .. Cardinality(D) BY DEF Remaining
  <2> HIDE DEF D
  <2>2. \E i \in D : Cardinality({j \in D : j < i}) = n - 1 BY <1>1, <2>1, RankExists
  <2> QED BY <2>2
<1>3. s = [n \in 1 .. N |-> [id |-> Nth(n), key |-> pool[Nth(n)]]]
  BY DEF OneTimePrekeyPublics
<1>4. \A i \in D : [id |-> i, key |-> pool[i]] \in B BY DEF ToBytes, Entries
<1>5. B \in SUBSET Prekey BY DEF GoodAccount, GoodBytes, Bytes
<1> HIDE DEF s, Nth, N, D, B, pool
<1>6. \A n \in 1 .. N : s[n] \in B BY <1>2, <1>3, <1>4
<1>7. s \in [1 .. N -> Prekey] BY <1>3, <1>5, <1>6
<1>8. s \in Seq(Prekey) /\ Len(s) = N BY <1>1, <1>7
<1>9. SeqElements(s) \subseteq B BY <1>6, <1>8 DEF SeqElements
<1> QED BY <1>8, <1>9 DEF s, B

\* What is in c and not in b was made from the generator since it stood at f,
\* under ids that b had not given out.
Minting(b, c, f, g) ==
    /\ b.next_opk_id <= c.next_opk_id
    /\ \A x \in c.one_time_prekeys \ b.one_time_prekeys :
          b.next_opk_id <= x.id /\ f <= x.key /\ x.key < g
    /\ \A x, y \in c.one_time_prekeys \ b.one_time_prekeys : x.key = y.key => x = y

\* The entries of a pool.
LEMMA EntriesOf ==
    ASSUME NEW pool, NEW n
    PROVE  LET b == ToBytes([one_time_prekeys |-> pool, next_opk_id |-> n])
           IN  /\ b.next_opk_id = n
               /\ b = [one_time_prekeys |-> b.one_time_prekeys, next_opk_id |-> n]
               /\ \A i \in DOMAIN pool : [id |-> i, key |-> pool[i]] \in b.one_time_prekeys
               /\ \A x \in b.one_time_prekeys :
                     /\ x.id \in DOMAIN pool /\ x.key = pool[x.id]
                     /\ x = [id |-> x.id, key |-> x.key]
BY DEF ToBytes, Entries

\* A pool of numbers below the next id makes a good account.
LEMMA PoolGood ==
    ASSUME NEW pool, NEW n \in Nat, pool = [i \in DOMAIN pool |-> pool[i]],
           \A i \in DOMAIN pool : i \in Nat /\ i < n /\ pool[i] \in Nat
    PROVE  GoodAccount([one_time_prekeys |-> pool, next_opk_id |-> n])
<1> DEFINE a == [one_time_prekeys |-> pool, next_opk_id |-> n]
           b == ToBytes(a)
<1>1. /\ b.next_opk_id = n
      /\ b = [one_time_prekeys |-> b.one_time_prekeys, next_opk_id |-> n]
      /\ \A x \in b.one_time_prekeys : /\ x.id \in DOMAIN pool /\ x.key = pool[x.id]
                                       /\ x = [id |-> x.id, key |-> x.key]
  BY EntriesOf
<1>2. a.one_time_prekeys = pool /\ a.next_opk_id = n OBVIOUS
<1> HIDE DEF b
<1>3. b.one_time_prekeys \in SUBSET Prekey
  BY <1>1 DEF Prekey, Key
<1>4. b \in Bytes BY <1>1, <1>3 DEF Bytes
<1>5. GoodBytes(b)
  <2>1. \A x, y \in b.one_time_prekeys : x.id = y.id => x = y BY <1>1
  <2>2. \A x \in b.one_time_prekeys : x.id < b.next_opk_id BY <1>1
  <2> QED BY <1>4, <2>1, <2>2 DEF GoodBytes
<1> QED BY <1>2, <1>5 DEF GoodAccount, b

\* Account::generate_with_prekeys
LEMMA GenerateGood ==
    ASSUME NEW count \in Nat, fresh \in Nat
    PROVE  LET a == GenerateWithPrekeys(count)
           IN  /\ GoodAccount(a)
               /\ \A x \in ToBytes(a).one_time_prekeys : fresh <= x.key /\ x.key < fresh + count
               /\ \A x, y \in ToBytes(a).one_time_prekeys : x.key = y.key => x = y
<1> DEFINE pool == [i \in 0 .. (count - 1) |-> fresh + i]
           a == GenerateWithPrekeys(count)
<1>1. a = [one_time_prekeys |-> pool, next_opk_id |-> count] BY DEF GenerateWithPrekeys
<1>2. /\ pool = [i \in DOMAIN pool |-> pool[i]]
      /\ \A i \in DOMAIN pool : /\ i \in Nat /\ i < count /\ pool[i] = fresh + i
                                /\ pool[i] \in Nat
  OBVIOUS
<1> HIDE DEF pool, a
<1>3. GoodAccount(a) BY <1>1, <1>2, PoolGood
<1>4. \A x \in ToBytes(a).one_time_prekeys : /\ x.id \in DOMAIN pool /\ x.key = pool[x.id]
                                             /\ x = [id |-> x.id, key |-> x.key]
  BY <1>1, EntriesOf
<1>5. \A x \in ToBytes(a).one_time_prekeys : fresh <= x.key /\ x.key < fresh + count
  BY <1>2, <1>4
<1>6. \A x, y \in ToBytes(a).one_time_prekeys : x.key = y.key => x = y
  <2> SUFFICES ASSUME NEW x \in ToBytes(a).one_time_prekeys, NEW y \in ToBytes(a).one_time_prekeys,
                      x.key = y.key
               PROVE  x = y
    OBVIOUS
  <2>1. x.key = fresh + x.id /\ y.key = fresh + y.id /\ x.id \in Nat /\ y.id \in Nat BY <1>2, <1>4
  <2>1a. fresh + x.id = fresh + y.id BY <2>1
  <2>2. x.id = y.id BY <2>1, <2>1a
  <2> QED BY <1>4, <2>2
<1> QED BY <1>3, <1>5, <1>6 DEF a

\* Account::take_one_time_prekey removes the entry of that id and no other.
LEMMA TakeGood ==
    ASSUME NEW a, GoodAccount(a), NEW id
    PROVE  /\ GoodAccount(TakeOneTimePrekey(a, id))
           /\ ToBytes(TakeOneTimePrekey(a, id)).next_opk_id = ToBytes(a).next_opk_id
           /\ ToBytes(TakeOneTimePrekey(a, id)).one_time_prekeys =
                 {x \in ToBytes(a).one_time_prekeys : x.id # id}
<1> DEFINE pool == a.one_time_prekeys
           n == a.next_opk_id
           less == [i \in DOMAIN pool \ {id} |-> pool[i]]
           t == TakeOneTimePrekey(a, id)
<1>1. a = [one_time_prekeys |-> pool, next_opk_id |-> n] BY DEF GoodAccount
<1>2. t = [one_time_prekeys |-> less, next_opk_id |-> n] BY <1>1 DEF TakeOneTimePrekey
<1>3. /\ n \in Nat /\ \A i \in DOMAIN pool : i \in Nat /\ i < n /\ pool[i] \in Nat
  BY PoolFinite
<1> HIDE DEF pool, n
<1>4. /\ less = [i \in DOMAIN less |-> less[i]] /\ DOMAIN less = DOMAIN pool \ {id}
      /\ \A i \in DOMAIN less : less[i] = pool[i]
  OBVIOUS
<1> HIDE DEF less, t
<1>5. GoodAccount(t) BY <1>2, <1>3, <1>4, PoolGood
<1>6. /\ ToBytes(a).next_opk_id = n
      /\ \A i \in DOMAIN pool : [id |-> i, key |-> pool[i]] \in ToBytes(a).one_time_prekeys
      /\ \A x \in ToBytes(a).one_time_prekeys : /\ x.id \in DOMAIN pool /\ x.key = pool[x.id]
                                                /\ x = [id |-> x.id, key |-> x.key]
  BY <1>1, EntriesOf
<1>7. /\ ToBytes(t).next_opk_id = n
      /\ \A i \in DOMAIN less : [id |-> i, key |-> less[i]] \in ToBytes(t).one_time_prekeys
      /\ \A x \in ToBytes(t).one_time_prekeys : /\ x.id \in DOMAIN less /\ x.key = less[x.id]
                                                /\ x = [id |-> x.id, key |-> x.key]
  BY <1>2, EntriesOf
<1>8. ASSUME NEW x \in ToBytes(t).one_time_prekeys
      PROVE  x \in ToBytes(a).one_time_prekeys /\ x.id # id
  BY <1>4, <1>6, <1>7
<1>9. ASSUME NEW x \in ToBytes(a).one_time_prekeys, x.id # id
      PROVE  x \in ToBytes(t).one_time_prekeys
  BY <1>4, <1>6, <1>7, <1>9
<1> QED BY <1>5, <1>6, <1>7, <1>8, <1>9 DEF t

\* Account::replenish_one_time_prekeys keeps what is there and mints the rest.
LEMMA ReplenishGood ==
    ASSUME NEW a, GoodAccount(a), NEW count \in Nat, fresh \in Nat
    PROVE  LET r == ReplenishOneTimePrekeys(a, count)
           IN  /\ GoodAccount(r)
               /\ ToBytes(a).one_time_prekeys \subseteq ToBytes(r).one_time_prekeys
               /\ Minting(ToBytes(a), ToBytes(r), fresh, fresh + count)
<1> DEFINE pool == a.one_time_prekeys
           n == a.next_opk_id
           new == n .. (n + count - 1)
           more == [i \in DOMAIN pool \cup new |-> IF i \in new THEN fresh + i - n ELSE pool[i]]
           r == ReplenishOneTimePrekeys(a, count)
<1>1. a = [one_time_prekeys |-> pool, next_opk_id |-> n] BY DEF GoodAccount
<1>2. r = [one_time_prekeys |-> more, next_opk_id |-> n + count] BY DEF ReplenishOneTimePrekeys
<1>3. /\ n \in Nat /\ \A i \in DOMAIN pool : i \in Nat /\ i < n /\ pool[i] \in Nat
  BY PoolFinite
<1> HIDE DEF pool, n
<1>4. \A i \in DOMAIN pool : i \notin new BY <1>3
<1>5. /\ more = [i \in DOMAIN more |-> more[i]] /\ DOMAIN more = DOMAIN pool \cup new
      /\ \A i \in DOMAIN pool : more[i] = pool[i]
      /\ \A i \in new : more[i] = fresh + i - n
  BY <1>4
<1>6. \A i \in new : /\ i \in Nat /\ n <= i /\ i < n + count
                     /\ fresh + i - n \in Nat /\ fresh <= fresh + i - n /\ fresh + i - n < fresh + count
  BY <1>3
<1> HIDE DEF more, new
<1>7. n + count \in Nat /\ n <= n + count /\ \A i \in DOMAIN pool : i < n + count BY <1>3
<1>8. \A i \in DOMAIN more : i \in Nat /\ i < n + count /\ more[i] \in Nat
  BY <1>3, <1>5, <1>6, <1>7
<1>9. GoodAccount(r) BY <1>2, <1>5, <1>7, <1>8, PoolGood
<1> HIDE DEF r
<1>10. /\ ToBytes(a).next_opk_id = n
       /\ \A i \in DOMAIN pool : [id |-> i, key |-> pool[i]] \in ToBytes(a).one_time_prekeys
       /\ \A x \in ToBytes(a).one_time_prekeys : /\ x.id \in DOMAIN pool /\ x.key = pool[x.id]
                                                 /\ x = [id |-> x.id, key |-> x.key]
  BY <1>1, EntriesOf
<1>11. /\ ToBytes(r).next_opk_id = n + count
       /\ \A i \in DOMAIN more : [id |-> i, key |-> more[i]] \in ToBytes(r).one_time_prekeys
       /\ \A x \in ToBytes(r).one_time_prekeys : /\ x.id \in DOMAIN more /\ x.key = more[x.id]
                                                 /\ x = [id |-> x.id, key |-> x.key]
  BY <1>2, EntriesOf
<1>12. ToBytes(a).one_time_prekeys \subseteq ToBytes(r).one_time_prekeys
  BY <1>5, <1>10, <1>11
<1>13. ASSUME NEW x \in ToBytes(r).one_time_prekeys \ ToBytes(a).one_time_prekeys
       PROVE  x.id \in new /\ x.key = fresh + x.id - n /\ x = [id |-> x.id, key |-> x.key]
  BY <1>5, <1>10, <1>11
<1>14. ASSUME NEW x \in ToBytes(r).one_time_prekeys \ ToBytes(a).one_time_prekeys,
              NEW y \in ToBytes(r).one_time_prekeys \ ToBytes(a).one_time_prekeys, x.key = y.key
       PROVE  x = y
  <2>1. x.id \in Nat /\ y.id \in Nat /\ fresh + x.id - n = fresh + y.id - n BY <1>6, <1>13, <1>14
  <2>2. x.id = y.id BY <1>3, <2>1
  <2>3. x = [id |-> x.id, key |-> x.key] /\ y = [id |-> y.id, key |-> y.key] BY <1>13
  <2> QED BY <1>14, <2>2, <2>3
<1>15. Minting(ToBytes(a), ToBytes(r), fresh, fresh + count)
  BY <1>6, <1>7, <1>10, <1>11, <1>13, <1>14 DEF Minting
<1> QED BY <1>9, <1>12, <1>15 DEF r

\* Account::from_bytes gives back what to_bytes wrote.
LEMMA FromBytesGood ==
    ASSUME NEW b, GoodBytes(b)
    PROVE  GoodAccount(FromBytes(b)) /\ ToBytes(FromBytes(b)) = b
<1> DEFINE P == b.one_time_prekeys
           n == b.next_opk_id
           D == {p.id : p \in P}
           pool == [i \in D |-> (CHOOSE p \in P : p.id = i).key]
           a == FromBytes(b)
<1>1. a = [one_time_prekeys |-> pool, next_opk_id |-> n] BY DEF FromBytes
<1>2. /\ n \in Nat /\ P \in SUBSET Prekey /\ b = [one_time_prekeys |-> P, next_opk_id |-> n]
      /\ \A x, y \in P : x.id = y.id => x = y
      /\ \A x \in P : x.id < n
  BY DEF GoodBytes, Bytes
<1>3. \A x \in P : x.id \in Nat /\ x.key \in Nat /\ x = [id |-> x.id, key |-> x.key]
  BY <1>2 DEF Prekey, Key
<1> HIDE DEF P, n
<1>4. ASSUME NEW x \in P PROVE (CHOOSE p \in P : p.id = x.id) = x
  BY <1>2
<1>5. /\ pool = [i \in DOMAIN pool |-> pool[i]] /\ DOMAIN pool = D
      /\ \A x \in P : x.id \in D /\ pool[x.id] = x.key
  BY <1>4
<1>6. \A i \in D : \E x \in P : i = x.id OBVIOUS
<1> HIDE DEF pool, D
<1>7. \A i \in DOMAIN pool : i \in Nat /\ i < n /\ pool[i] \in Nat
  BY <1>2, <1>3, <1>5, <1>6
<1>8. GoodAccount(a) BY <1>1, <1>2, <1>5, <1>7, PoolGood
<1>9. /\ ToBytes(a) = [one_time_prekeys |-> ToBytes(a).one_time_prekeys, next_opk_id |-> n]
      /\ \A i \in DOMAIN pool : [id |-> i, key |-> pool[i]] \in ToBytes(a).one_time_prekeys
      /\ \A x \in ToBytes(a).one_time_prekeys : /\ x.id \in DOMAIN pool /\ x.key = pool[x.id]
                                                /\ x = [id |-> x.id, key |-> x.key]
  BY <1>1, EntriesOf
<1> HIDE DEF a
<1>10. ToBytes(a).one_time_prekeys = P
  <2>1. ASSUME NEW x \in P PROVE x \in ToBytes(a).one_time_prekeys BY <1>3, <1>5, <1>9
  <2>2. ASSUME NEW x \in ToBytes(a).one_time_prekeys PROVE x \in P
    <3>1. PICK y \in P : x.id = y.id BY <1>5, <1>6, <1>9
    <3>2. x.key = y.key BY <1>5, <1>9, <3>1
    <3> QED BY <1>3, <1>9, <3>1, <3>2
  <2> QED BY <2>1, <2>2
<1> QED BY <1>2, <1>8, <1>9, <1>10 DEF a

-----------------------------------------------------------------------------
(* The queues, the directory and the bundles.                              *)

\* A write lands.
LEMMA AccountsInTail ==
    ASSUME NEW s \in Seq(Write), s # <<>>
    PROVE  /\ Tail(s) \in Seq(Write) /\ Head(s) \in Write /\ Head(s) = s[1]
           /\ \A i \in AccountsIn(Tail(s)) : i + 1 \in AccountsIn(s) /\ Tail(s)[i] = s[i + 1]
           /\ \A j \in AccountsIn(s) : j # 1 => AccountsIn(Tail(s)) # {}
           /\ Head(s).what = "account" => 1 \in AccountsIn(s)
<1>1. /\ Tail(s) \in Seq(Write) /\ Len(s) \in Nat \ {0} /\ Len(Tail(s)) = Len(s) - 1
      /\ \A i \in 1 .. Len(Tail(s)) : Tail(s)[i] = s[i + 1]
      /\ Head(s) = s[1] /\ Head(s) \in Write
  OBVIOUS
<1>2. \A i \in AccountsIn(Tail(s)) : i + 1 \in AccountsIn(s) /\ Tail(s)[i] = s[i + 1]
  BY <1>1 DEF AccountsIn
<1>3. ASSUME NEW j \in AccountsIn(s), j # 1 PROVE j - 1 \in AccountsIn(Tail(s))
  <2>1. j - 1 \in 1 .. Len(Tail(s)) /\ (j - 1) + 1 = j BY <1>1, <1>3 DEF AccountsIn
  <2> QED BY <1>1, <1>3, <2>1 DEF AccountsIn
<1>4. Head(s).what = "account" => 1 \in AccountsIn(s) BY <1>1 DEF AccountsIn
<1> QED BY <1>1, <1>2, <1>3, <1>4

\* Writes are issued, none of them of the account.
LEMMA AccountsInConcat ==
    ASSUME NEW s \in Seq(Write), NEW w \in Seq(Write), AccountsIn(w) = {}
    PROVE  /\ s \o w \in Seq(Write)
           /\ AccountsIn(s \o w) = AccountsIn(s)
           /\ \A i \in AccountsIn(s) : (s \o w)[i] = s[i]
<1>1. /\ s \o w \in Seq(Write) /\ Len(s) \in Nat /\ Len(w) \in Nat
      /\ Len(s \o w) = Len(s) + Len(w)
      /\ \A i \in 1 .. Len(s) : (s \o w)[i] = s[i]
      /\ \A i \in (Len(s) + 1) .. (Len(s) + Len(w)) : (s \o w)[i] = w[i - Len(s)]
  OBVIOUS
<1> DEFINE t == s \o w
<1> HIDE DEF t
<1>2. \A i \in 1 .. Len(s) : i \in 1 .. Len(t) BY <1>1 DEF t
<1>3. ASSUME NEW i \in 1 .. Len(t), i \notin 1 .. Len(s) PROVE t[i].what # "account"
  <2>1. i \in (Len(s) + 1) .. (Len(s) + Len(w)) /\ i - Len(s) \in 1 .. Len(w) BY <1>1, <1>3 DEF t
  <2>2. t[i] = w[i - Len(s)] BY <1>1, <2>1 DEF t
  <2> QED BY <2>1, <2>2 DEF AccountsIn
<1>4. AccountsIn(t) = AccountsIn(s) BY <1>1, <1>2, <1>3 DEF AccountsIn, t
<1>5. \A i \in AccountsIn(s) : t[i] = s[i] BY <1>1 DEF AccountsIn, t
<1> QED BY <1>1, <1>4, <1>5 DEF t

\* An account write is issued when none is under way.
LEMMA AccountsInAppend ==
    ASSUME NEW s \in Seq(Write), AccountsIn(s) = {}, NEW a \in Write, a.what = "account"
    PROVE  /\ s \o <<a>> \in Seq(Write)
           /\ \A i \in AccountsIn(s \o <<a>>) : i = Len(s) + 1 /\ (s \o <<a>>)[i] = a
           /\ AccountsIn(s \o <<a>>) # {}
<1>1. /\ s \o <<a>> \in Seq(Write) /\ Len(s) \in Nat
      /\ Len(s \o <<a>>) = Len(s) + 1
      /\ \A i \in 1 .. Len(s) : (s \o <<a>>)[i] = s[i]
      /\ (s \o <<a>>)[Len(s) + 1] = a
  OBVIOUS
<1> DEFINE t == s \o <<a>>
<1> HIDE DEF t
<1>2. ASSUME NEW i \in AccountsIn(t) PROVE i = Len(s) + 1 /\ t[i] = a
  <2>1. i \notin 1 .. Len(s) BY <1>1 DEF AccountsIn, t
  <2>2. i = Len(s) + 1 BY <1>1, <2>1 DEF AccountsIn, t
  <2> QED BY <1>1, <2>2 DEF t
<1>3. Len(s) + 1 \in AccountsIn(t) BY <1>1 DEF AccountsIn, t
<1> QED BY <1>1, <1>2, <1>3 DEF t

\* A publication is asked for.
LEMMA RequestsAppend ==
    ASSUME NEW rs \in Seq(PublicationOf), NEW r \in PublicationOf
    PROVE  /\ Append(rs, r) \in Seq(PublicationOf)
           /\ InRequests(Append(rs, r)) \subseteq InRequests(rs) \cup SeqElements(r.one_time)
<1>1. /\ Append(rs, r) \in Seq(PublicationOf) /\ Len(rs) \in Nat
      /\ Len(Append(rs, r)) = Len(rs) + 1
      /\ \A i \in 1 .. Len(rs) : Append(rs, r)[i] = rs[i]
      /\ Append(rs, r)[Len(rs) + 1] = r
  OBVIOUS
<1>2. \A i \in 1 .. (Len(rs) + 1) : i \in 1 .. Len(rs) \/ i = Len(rs) + 1 BY <1>1
<1> DEFINE t == Append(rs, r)
<1> HIDE DEF t
<1> SUFFICES ASSUME NEW e \in InRequests(t)
             PROVE  e \in InRequests(rs) \/ e \in SeqElements(r.one_time)
  BY <1>1 DEF t
<1>3. PICK i \in 1 .. Len(t) : e \in SeqElements(t[i].one_time) BY DEF InRequests
<1>4. CASE i \in 1 .. Len(rs)
  <2>1. t[i] = rs[i] BY <1>1, <1>4 DEF t
  <2> QED BY <1>3, <1>4, <2>1 DEF InRequests
<1>5. CASE i = Len(rs) + 1
  <2>1. t[i] = r BY <1>1, <1>5 DEF t
  <2> QED BY <1>3, <2>1
<1> QED BY <1>1, <1>2, <1>3, <1>4, <1>5 DEF t

\* The worker has served a publication.
LEMMA RequestsTail ==
    ASSUME NEW rs \in Seq(PublicationOf), rs # <<>>
    PROVE  /\ Tail(rs) \in Seq(PublicationOf)
           /\ InRequests(Tail(rs)) \subseteq InRequests(rs)
           /\ Head(rs) \in PublicationOf
           /\ SeqElements(Head(rs).one_time) \subseteq InRequests(rs)
<1>1. /\ Tail(rs) \in Seq(PublicationOf) /\ Len(rs) \in Nat \ {0}
      /\ Len(Tail(rs)) = Len(rs) - 1
      /\ \A i \in 1 .. Len(Tail(rs)) : Tail(rs)[i] = rs[i + 1]
      /\ Head(rs) = rs[1] /\ Head(rs) \in PublicationOf
  OBVIOUS
<1> DEFINE t == Tail(rs)
<1> HIDE DEF t
<1>2. 1 \in 1 .. Len(rs) BY <1>1
<1>3. SeqElements(Head(rs).one_time) \subseteq InRequests(rs) BY <1>1, <1>2 DEF InRequests
<1>4. ASSUME NEW e \in InRequests(t) PROVE e \in InRequests(rs)
  <2>1. PICK i \in 1 .. Len(t) : e \in SeqElements(t[i].one_time) BY DEF InRequests
  <2>2. i + 1 \in 1 .. Len(rs) /\ t[i] = rs[i + 1] BY <1>1 DEF t
  <2> QED BY <2>1, <2>2 DEF InRequests
<1> QED BY <1>1, <1>3, <1>4 DEF t

\* RelayStore::fetch_bundle hands out what the pool has.
LEMMA DispensedGood ==
    ASSUME NEW d \in Directory, d # None
    PROVE  /\ Dispensed(d) \in [opk : Prekey \cup {None}]
           /\ Dispensed(d).opk # None => Dispensed(d).opk \in InDirectory(d)
           /\ Rest(d) \in Directory
           /\ InDirectory(Rest(d)) \subseteq InDirectory(d)
<1>1. d = [base |-> NoKeyBundle, one_time |-> d.one_time] /\ d.one_time \in Seq(Prekey)
  BY DEF Directory
<1>2. CASE d.one_time = <<>>
  <2>1. Dispensed(d) = [opk |-> None] BY <1>1, <1>2 DEF Dispensed, NoKeyBundle
  <2>2. Rest(d) = d BY <1>1, <1>2 DEF Rest
  <2> QED BY <2>1, <2>2
<1>3. CASE d.one_time # <<>>
  <2> DEFINE s == d.one_time
  <2>1. /\ Head(s) \in Prekey /\ Head(s) = s[1] /\ Len(s) \in Nat \ {0} /\ Tail(s) \in Seq(Prekey)
        /\ Len(Tail(s)) = Len(s) - 1 /\ \A i \in 1 .. Len(Tail(s)) : Tail(s)[i] = s[i + 1]
    BY <1>1, <1>3
  <2>2. Dispensed(d) = [opk |-> Head(s)] BY <1>3 DEF Dispensed
  <2>3. Rest(d) = [base |-> NoKeyBundle, one_time |-> Tail(s)]
    <3>1. Rest(d) = [d EXCEPT !.one_time = Tail(s)] BY <1>3, Zenon DEF Rest
    <3>2. \A t : [d EXCEPT !.one_time = t] = [base |-> NoKeyBundle, one_time |-> t]
      <4>1. DOMAIN d = {"base", "one_time"} /\ d.base = NoKeyBundle BY <1>1
      <4> QED BY <4>1
    <3> QED BY <3>1, <3>2, Zenon
  <2>4. Rest(d) \in Directory /\ Rest(d).one_time = Tail(s) BY <2>1, <2>3 DEF Directory
  <2> HIDE DEF s
  <2>5. 1 \in 1 .. Len(s) /\ \A i \in 1 .. Len(Tail(s)) : i + 1 \in 1 .. Len(s) BY <2>1
  <2>6. Head(s) \in SeqElements(s) /\ SeqElements(Tail(s)) \subseteq SeqElements(s)
    BY <2>1, <2>5 DEF SeqElements
  <2>7. InDirectory(d) = SeqElements(s) BY DEF InDirectory, s
  <2>8. InDirectory(Rest(d)) \subseteq SeqElements(s) BY <2>4, <2>6 DEF InDirectory
  <2>9. Dispensed(d).opk = Head(s) BY <2>2
  <2> QED BY <2>1, <2>2, <2>4, <2>6, <2>7, <2>8, <2>9
<1> QED BY <1>2, <1>3

-----------------------------------------------------------------------------
(* The invariant.                                                          *)

\* An entry of a good copy fits it.
LEMMA MemberFits ==
    ASSUME NEW b, GoodBytes(b), NEW e \in b.one_time_prekeys
    PROVE  Fits(e, b)
BY DEF GoodBytes, Fits

\* A prekey that fits the account still fits it when new ones are minted.
LEMMA MintingFits ==
    ASSUME NEW b, GoodBytes(b), NEW c, GoodBytes(c), NEW f, NEW g, Minting(b, c, f, g),
           NEW e \in Prekey, Fits(e, b)
    PROVE  Fits(e, c)
<1>1. /\ e.id < b.next_opk_id /\ b.next_opk_id <= c.next_opk_id
      /\ e.id \in Nat /\ b.next_opk_id \in Nat /\ c.next_opk_id \in Nat
  BY DEF Fits, Minting, GoodBytes, Bytes, Prekey
<1>2. e.id < c.next_opk_id BY <1>1
<1>3. ASSUME NEW x \in c.one_time_prekeys, x.id = e.id PROVE x.key = e.key
  <2>1. CASE x \in b.one_time_prekeys BY <1>3, <2>1 DEF Fits
  <2>2. CASE x \notin b.one_time_prekeys
    <3>1. b.next_opk_id <= x.id BY <2>2 DEF Minting
    <3> QED BY <1>1, <1>3, <3>1
  <2> QED BY <2>1, <2>2
<1> QED BY <1>2, <1>3 DEF Fits

\* Offered prekeys are prekeys.
LEMMA OfferedType ==
    ASSUME ShapeInv
    PROVE  Offered \subseteq Prekey
<1>1. InRequests(requests) \subseteq Prekey
  <2> SUFFICES ASSUME NEW i \in 1 .. Len(requests), NEW e \in SeqElements(requests[i].one_time)
               PROVE  e \in Prekey
    BY DEF InRequests
  <2>1. requests[i] \in PublicationOf BY DEF ShapeInv
  <2>2. requests[i].one_time \in Seq(Prekey) BY <2>1 DEF PublicationOf
  <2> QED BY <2>2 DEF SeqElements
<1>2. ASSUME NEW d, d # None => d \in Directory PROVE InDirectory(d) \subseteq Prekey
  <2>1. CASE d = None BY <2>1 DEF InDirectory
  <2>2. CASE d # None
    <3>1. d.one_time \in Seq(Prekey) BY <1>2, <2>2 DEF Directory
    <3> QED BY <2>2, <3>1 DEF InDirectory, SeqElements
  <2> QED BY <2>1, <2>2
<1>3. InDirectory(directory) \subseteq Prekey /\ InDirectory(saved) \subseteq Prekey
  BY <1>2 DEF ShapeInv
<1>4. InBundles(bundle) \subseteq Prekey
  <2> SUFFICES ASSUME NEW q \in Peer, bundle[q] # None, bundle[q].opk # None
               PROVE  bundle[q].opk \in Prekey
    BY DEF InBundles
  <2>1. bundle[q] \in [opk : Prekey \cup {None}] BY DEF ShapeInv
  <2> QED BY <2>1
<1> QED BY <1>1, <1>3, <1>4 DEF Offered

\* What every step of a running app, or around one, has in common.
UpStep ==
    /\ phase # "down" /\ phase' # "down"
    /\ \A e \in Offered' : e \in Offered \/ (/\ e \in Held'.one_time_prekeys
                                             /\ e.key \notin exposed' =>
                                                  \A b \in Copies' : e \in b.one_time_prekeys)
    /\ \A b \in Copies' : b \in Copies \/ b = Held'
    /\ fresh <= fresh'
    /\ Minting(Held, Held', fresh, fresh')
    /\ \A x \in Held.one_time_prekeys \ Held'.one_time_prekeys : Spent(x.key)'
    /\ uses \subseteq uses'
    /\ \A u \in uses' \ uses :
          /\ \E x \in Held.one_time_prekeys : x.key = u[2]
          /\ \A x \in Held'.one_time_prekeys : x.key # u[2]
    /\ \A u, v \in uses' \ uses : u = v
    /\ burned \subseteq burned'
    /\ exposed \subseteq exposed'
    /\ UNCHANGED <<undone, restarts>>

\* Such a step keeps the invariant.
LEMMA UpStepKeeps ==
    ASSUME PrekeyInv, ShapeInv', WritesInv', RequestsInv', ContactsInv', SessionsInv', UpStep
    PROVE  PrekeyInv'
<1>1. /\ Held \in Copies /\ Held' \in Copies' /\ GoodBytes(Held) /\ GoodBytes(Held')
  BY DEF UpStep, Copies, Held, PrekeyInv, ShapeInv, GoodAccount
<1>2. Offered \subseteq Prekey BY OfferedType DEF PrekeyInv
<1>3. fresh \in Nat /\ fresh' \in Nat /\ fresh <= fresh' BY DEF PrekeyInv, ShapeInv, UpStep
<1> DEFINE N == Held'.one_time_prekeys \ Held.one_time_prekeys
<1>4. /\ \A x \in N : fresh <= x.key /\ x.key < fresh'
      /\ \A x, y \in N : x.key = y.key => x = y
  BY DEF UpStep, Minting
<1>4a. \A x \in N : x.key \in Nat BY <1>1 DEF GoodBytes, Bytes, Prekey, Key
<1>5. \A x \in Known' : x \in Known \/ x \in N
  <2> SUFFICES ASSUME NEW x \in Known', x \notin N PROVE x \in Known
    OBVIOUS
  <2>1. ASSUME x \in Held'.one_time_prekeys PROVE x \in Known
    BY <1>1, <2>1 DEF Known
  <2>2. CASE x \in Offered' BY <2>1, <2>2 DEF UpStep, Known
  <2>3. ASSUME NEW b \in Copies', x \in b.one_time_prekeys PROVE x \in Known
    BY <2>1, <2>3 DEF UpStep, Known
  <2> QED BY <2>2, <2>3 DEF Known
<1> HIDE DEF N
<1>6. \A x \in Known : x.key \in Nat /\ x.key < fresh
  <2>1. \A x \in Known : x.key < fresh BY DEF PrekeyInv, FreshInv
  <2>2. \A b \in Copies : b.one_time_prekeys \subseteq Prekey
    BY DEF PrekeyInv, FreshInv, GoodBytes, Bytes
  <2>3. Known \subseteq Prekey BY <1>2, <2>2 DEF Known
  <2> QED BY <2>1, <2>3 DEF Prekey, Key
<1>7. \A u \in uses' : u[2] < fresh' /\ u[2] \in Nat
  <2> SUFFICES ASSUME NEW u \in uses' PROVE u[2] < fresh' /\ u[2] \in Nat
    OBVIOUS
  <2>0. u[2] \in Nat
    <3>1. u \in Peer \X Nat BY DEF ShapeInv
    <3> QED BY <3>1
  <2>1. CASE u \in uses
    <3>1. u[2] < fresh BY <2>1 DEF PrekeyInv, FreshInv
    <3> QED BY <1>3, <2>0, <3>1
  <2>2. CASE u \notin uses
    <3>1. \E x \in Held.one_time_prekeys : x.key = u[2] BY <2>2 DEF UpStep
    <3>2. u[2] < fresh BY <1>1, <1>6, <3>1 DEF Known
    <3> QED BY <1>3, <2>0, <3>2
  <2> QED BY <2>1, <2>2
<1>8. FreshInv'
  <2>1. \A b \in Copies' : GoodBytes(b) BY <1>1 DEF UpStep, PrekeyInv, FreshInv
  <2>2. ASSUME NEW x \in Known', NEW y \in Known', x.key = y.key PROVE x = y
    <3>1. CASE x \in Known /\ y \in Known BY <2>2, <3>1 DEF PrekeyInv, FreshInv
    <3>2. CASE x \in N /\ y \in N BY <1>4, <2>2, <3>2
    <3>3. CASE x \in Known /\ y \in N BY <1>3, <1>4, <1>4a, <1>6, <2>2, <3>3
    <3>4. CASE x \in N /\ y \in Known BY <1>3, <1>4, <1>4a, <1>6, <2>2, <3>4
    <3> QED BY <1>5, <3>1, <3>2, <3>3, <3>4
  <2>3. ASSUME NEW x \in Known' PROVE x.key < fresh'
    BY <1>3, <1>4, <1>5, <1>6
  <2> QED BY <1>7, <2>1, <2>2, <2>3 DEF FreshInv
<1>9. FitsInv'
  <2> SUFFICES ASSUME NEW e \in Offered', NEW b \in Copies', e.key \notin exposed'
               PROVE  Fits(e, b)
    BY DEF FitsInv, Fits
  <2>1. CASE e \notin Offered
    <3>1. e \in b.one_time_prekeys BY <2>1 DEF UpStep
    <3>2. GoodBytes(b) BY <1>8 DEF FreshInv
    <3> QED BY <3>1, <3>2, MemberFits
  <2>2. CASE e \in Offered
    <3>1. e.key \notin exposed BY DEF UpStep
    <3>2. ASSUME NEW c \in Copies PROVE Fits(e, c) BY <2>2, <3>1 DEF PrekeyInv, FitsInv
    <3>3. CASE b \in Copies BY <3>2, <3>3
    <3>4. CASE b = Held'
      <4>1. Fits(e, Held) BY <1>1, <3>2
      <4>2. Minting(Held, Held', fresh, fresh') BY DEF UpStep
      <4>3. e \in Prekey BY <1>2, <2>2
      <4> QED BY <1>1, <3>4, <4>1, <4>2, <4>3, MintingFits
    <3> QED BY <3>3, <3>4 DEF UpStep
  <2> QED BY <2>1, <2>2
<1>10a. ASSUME NEW key PROVE Spent(key) => Spent(key)' BY DEF Spent, Used, UpStep
<1>10. KeptInv'
  <2> SUFFICES ASSUME NEW e \in Offered', NEW b \in Copies', e.key \notin exposed'
               PROVE  e \in b.one_time_prekeys \/ Spent(e.key)'
    BY DEF KeptInv
  <2>0. e.key \notin exposed BY DEF UpStep
  <2>1. CASE e \notin Offered BY <2>1 DEF UpStep
  <2>2. CASE e \in Offered
    <3>1. ASSUME NEW c \in Copies PROVE e \in c.one_time_prekeys \/ Spent(e.key)
      BY <2>0, <2>2 DEF PrekeyInv, KeptInv
    <3>2. Spent(e.key) => Spent(e.key)' BY <1>10a
    <3>3. CASE b \in Copies BY <3>1, <3>2, <3>3
    <3>4. CASE b = Held'
      <4>1. e \in Held.one_time_prekeys \/ Spent(e.key) BY <1>1, <3>1
      <4>2. e \in Held.one_time_prekeys \ Held'.one_time_prekeys => Spent(e.key)'
        BY DEF UpStep
      <4> QED BY <3>2, <3>4, <4>1, <4>2
    <3> QED BY <3>3, <3>4 DEF UpStep
  <2> QED BY <2>1, <2>2
<1>11. NeverKilledInv'
  <2> SUFFICES ASSUME restarts' = 0 PROVE NeverKilledInv'
    BY DEF NeverKilledInv
  <2>0. restarts = 0 /\ phase # "down" BY DEF UpStep
  <2>1. ASSUME NEW e \in Offered'
        PROVE  e \in Held'.one_time_prekeys \/ Spent(e.key)'
    <3>1. CASE e \notin Offered BY <3>1 DEF UpStep
    <3>2. CASE e \in Offered
      <4>1. e \in Held.one_time_prekeys \/ Spent(e.key)
        BY <2>0, <3>2 DEF PrekeyInv, NeverKilledInv
      <4>2. Spent(e.key) => Spent(e.key)' BY <1>10a
      <4>3. e \in Held.one_time_prekeys \ Held'.one_time_prekeys => Spent(e.key)'
        BY DEF UpStep
      <4> QED BY <4>1, <4>2, <4>3
    <3> QED BY <3>1, <3>2
  <2>2. phase' # "down" BY DEF UpStep
  <2> QED BY <2>1, <2>2 DEF NeverKilledInv
<1>12. UsesInv'
  <2>1. ASSUME NEW x \in Held'.one_time_prekeys, Used(x.key)' PROVE x.key \in undone'
    <3>1. PICK q \in Peer : <<q, x.key>> \in uses' BY <2>1 DEF Used
    <3>2. <<q, x.key>> \in uses
      <4>1. <<q, x.key>>[2] = x.key OBVIOUS
      <4> QED BY <3>1, <4>1 DEF UpStep
    <3>3. x \in Held.one_time_prekeys
      <4>1. x \in N => fresh <= x.key /\ x.key \in Nat BY <1>4, <1>4a
      <4>2. <<q, x.key>>[2] < fresh BY <3>2 DEF PrekeyInv, FreshInv
      <4>3. x.key < fresh BY <4>2
      <4> QED BY <1>3, <4>1, <4>3 DEF N
    <3>4. Used(x.key) BY <3>2 DEF Used
    <3> QED BY <3>3, <3>4 DEF PrekeyInv, UsesInv, Unused, UpStep
  <2>2. phase' # "down" BY DEF UpStep
  <2>5. OneSessionPerPrekey'
    <3> SUFFICES ASSUME NEW q \in Peer, NEW r \in Peer, NEW u \in uses',
                        <<q, u[2]>> \in uses', <<r, u[2]>> \in uses', q # r
                 PROVE  u[2] \in undone'
      BY DEF OneSessionPerPrekey
    <3> DEFINE k == u[2]
    <3> HIDE DEF k
    <3>0. <<q, k>> \in uses' /\ <<r, k>> \in uses' BY DEF k
    <3>1. CASE <<q, k>> \in uses /\ <<r, k>> \in uses
      <4>1. <<q, k>>[2] = k OBVIOUS
      <4>2. k \in undone BY <3>1, <4>1 DEF PrekeyInv, UsesInv, OneSessionPerPrekey
      <4> QED BY <4>2 DEF UpStep, k
    <3>2. ASSUME NEW a \in Peer, NEW b \in Peer, <<a, k>> \in uses' \ uses, <<b, k>> \in uses
          PROVE  k \in undone
      <4>1. PICK x \in Held.one_time_prekeys : x.key = <<a, k>>[2] BY <3>2 DEF UpStep
      <4>2. x.key = k BY <4>1
      <4>3. Used(k) BY <3>2 DEF Used
      <4> QED BY <4>2, <4>3 DEF PrekeyInv, UsesInv, Unused, UpStep
    <3>3. ~(<<q, k>> \notin uses /\ <<r, k>> \notin uses)
      <4>1. <<q, k>> # <<r, k>> OBVIOUS
      <4> QED BY <3>0, <4>1 DEF UpStep
    <3> QED BY <3>0, <3>1, <3>2, <3>3 DEF UpStep, k
  <2> QED BY <2>1, <2>2, <2>5 DEF UsesInv, Unused
<1> QED BY <1>8, <1>9, <1>10, <1>11, <1>12 DEF PrekeyInv

\* handshake::respond uses up the prekey it was asked for.
LEMMA ConsumeGood ==
    ASSUME NEW a, GoodAccount(a), NEW opk
    PROVE  /\ GoodAccount(Consume(a, opk))
           /\ ToBytes(Consume(a, opk)).next_opk_id = ToBytes(a).next_opk_id
           /\ ToBytes(Consume(a, opk)).one_time_prekeys \subseteq ToBytes(a).one_time_prekeys
           /\ \A x \in ToBytes(a).one_time_prekeys \ ToBytes(Consume(a, opk)).one_time_prekeys :
                 opk # None /\ x.id = opk.id
           /\ opk # None => \A x \in ToBytes(Consume(a, opk)).one_time_prekeys : x.id # opk.id
<1>1. CASE opk = None
  <2>1. Consume(a, opk) = a BY <1>1 DEF Consume
  <2> QED BY <1>1, <2>1
<1>2. CASE opk # None
  <2>1. Consume(a, opk) = TakeOneTimePrekey(a, opk.id) BY <1>2 DEF Consume
  <2> QED BY <1>2, <2>1, TakeGood
<1> QED BY <1>1, <1>2

\* _maybeReplenishPrekeys stores what it mints, and only one write at a time.
LEMMA MaybeReplenishes ==
    ASSUME PrekeyInv, phase \in {"publishing", "running"}, phase' \in {"publishing", "running"},
           NEW a, GoodAccount(a),
           ToBytes(a).one_time_prekeys \subseteq Held.one_time_prekeys,
           ToBytes(a).next_opk_id = Held.next_opk_id,
           NEW w \in Seq(Write), AccountsIn(w) = {}, MaybeReplenish(a, w), storage' = storage
    PROVE  /\ GoodAccount(account') /\ writes' \in Seq(Write) /\ fresh' \in Nat /\ fresh <= fresh'
           /\ replenish' = replenish \/ (replenish = "idle" /\ replenish' = "writing")
           /\ ToBytes(a).one_time_prekeys \subseteq Held'.one_time_prekeys
           /\ Minting(Held, Held', fresh, fresh')
           /\ \A x \in Held'.one_time_prekeys \ ToBytes(a).one_time_prekeys : fresh <= x.key
           /\ \A b \in Copies' : b \in Copies \/ b = Held'
           /\ WritesInv'
<1>0. /\ fresh \in Nat /\ writes \in Seq(Write) /\ GoodBytes(Held) /\ GoodBytes(ToBytes(a))
      /\ storage.account # None
  BY DEF PrekeyInv, ShapeInv, GoodAccount, Held, WritesInv
<1>1. CASE replenish # "idle" \/ Remaining(a) >= LowWater
  <2>1. account' = a /\ writes' = writes \o w /\ replenish' = replenish /\ fresh' = fresh
    BY <1>1 DEF MaybeReplenish
  <2>2. Held' = ToBytes(a) BY <2>1 DEF Held
  <2>3. fresh <= fresh' BY <1>0, <2>1
  <2>4. Minting(Held, Held', fresh, fresh')
    <3>1. Held'.one_time_prekeys \ Held.one_time_prekeys = {} BY <2>2
    <3>2. Held.next_opk_id <= Held'.next_opk_id BY <1>0, <2>2 DEF GoodBytes, Bytes
    <3> QED BY <3>1, <3>2 DEF Minting
  <2>5. /\ writes' \in Seq(Write) /\ AccountsIn(writes') = AccountsIn(writes)
        /\ \A i \in AccountsIn(writes) : writes'[i] = writes[i]
    BY <1>0, <2>1, AccountsInConcat
  <2>6. \A b \in Copies' : b \in Copies \/ b = Held'
    BY <2>5 DEF Copies, AccountWrites, Held
  <2>7. WritesInv'
    <3>2. \A i \in AccountsIn(writes) : Covers(writes[i].value, Held) BY DEF PrekeyInv, WritesInv, AccountWrites
    <3>3. \A i \in AccountWrites' : Covers(writes'[i].value, Held')
      <4> SUFFICES ASSUME NEW i \in AccountWrites' PROVE Covers(writes'[i].value, Held')
        OBVIOUS
      <4>1. i \in AccountsIn(writes) /\ writes'[i] = writes[i] BY <2>5 DEF AccountWrites
      <4>2. Covers(writes[i].value, Held) BY <3>2, <4>1
      <4> QED BY <2>2, <4>1, <4>2 DEF Covers
    <3>5. AccountWrites' = AccountWrites BY <2>5 DEF AccountWrites
    <3>6. /\ \A i, j \in AccountWrites' : i = j
          /\ AccountWrites' # {} => replenish' = "writing"
      BY <2>1, <3>5 DEF PrekeyInv, WritesInv
    <3> QED BY <1>0, <3>3, <3>6 DEF WritesInv
  <2> QED BY <1>0, <2>1, <2>2, <2>3, <2>4, <2>5, <2>6, <2>7
<1>2. CASE ~(replenish # "idle" \/ Remaining(a) >= LowWater)
  <2> DEFINE count == Target - Remaining(a)
             new == [what |-> "account", value |-> ToBytes(account')]
  <2>1. Remaining(a) \in Nat BY PoolFinite
  <2>2. count \in Nat BY <1>2, <2>1, PreKeysAssumption
  <2>3. /\ account' = ReplenishOneTimePrekeys(a, count) /\ fresh' = fresh + Target - Remaining(a)
        /\ writes' = writes \o <<new>> \o w /\ replenish' = "writing" /\ replenish = "idle"
    BY <1>2 DEF MaybeReplenish
  <2>4. fresh' = fresh + count /\ fresh' \in Nat /\ fresh <= fresh'
    BY <1>0, <2>1, <2>2, <2>3, PreKeysAssumption
  <2> HIDE DEF count
  <2>5. /\ GoodAccount(account') /\ ToBytes(a).one_time_prekeys \subseteq Held'.one_time_prekeys
        /\ Minting(ToBytes(a), Held', fresh, fresh')
    BY <1>0, <2>2, <2>3, <2>4, ReplenishGood DEF Held
  <2>6. Minting(Held, Held', fresh, fresh') BY <2>5 DEF Minting
  <2>7. new \in Write /\ new.what = "account" /\ new.value = Held'
    BY <2>5 DEF Write, GoodAccount, GoodBytes, Held
  <2> HIDE DEF new
  <2>8. AccountsIn(writes) = {} BY <2>3 DEF PrekeyInv, WritesInv, AccountWrites
  <2> DEFINE mid == writes \o <<new>>
  <2>9. /\ mid \in Seq(Write) /\ AccountsIn(mid) # {}
        /\ \A i \in AccountsIn(mid) : i = Len(writes) + 1 /\ mid[i] = new
    BY <1>0, <2>7, <2>8, AccountsInAppend
  <2>10. writes' = mid \o w BY <2>3
  <2> HIDE DEF mid
  <2>11. /\ writes' \in Seq(Write) /\ AccountsIn(writes') # {}
         /\ \A i \in AccountsIn(writes') : i = Len(writes) + 1 /\ writes'[i] = new
    <3>1. /\ mid \o w \in Seq(Write) /\ AccountsIn(mid \o w) = AccountsIn(mid)
          /\ \A i \in AccountsIn(mid) : (mid \o w)[i] = mid[i]
      BY <2>9, AccountsInConcat
    <3> QED BY <2>9, <2>10, <3>1
  <2>12. \A b \in Copies' : b \in Copies \/ b = Held'
    BY <2>7, <2>11 DEF Copies, AccountWrites, Held
  <2>13. WritesInv'
    <3>1. \A i \in AccountWrites' : Covers(writes'[i].value, Held')
      BY <2>7, <2>11 DEF Covers, AccountWrites, Held
    <3>2. /\ \A i, j \in AccountWrites' : i = j
          /\ AccountWrites' # {}
      BY <2>11 DEF AccountWrites
    <3> QED BY <1>0, <2>3, <3>1, <3>2 DEF WritesInv
  <2>14. \A x \in Held'.one_time_prekeys \ ToBytes(a).one_time_prekeys : fresh <= x.key
    BY <2>5 DEF Minting
  <2> QED BY <2>3, <2>4, <2>5, <2>6, <2>11, <2>12, <2>13, <2>14
<1> QED BY <1>1, <1>2

\* The publication of what memory holds.
LEMMA PublicationGood ==
    ASSUME GoodAccount(account), NEW from \in {"start", "replenish"}
    PROVE  /\ Publication(account, from) \in PublicationOf
           /\ Publication(account, from).from = from
           /\ SeqElements(Publication(account, from).one_time) \subseteq Held.one_time_prekeys
<1>1. BundleBase(account) = NoKeyBundle BY DEF BundleBase, Bundle, NoKeyBundle
<1>2. /\ OneTimePrekeyPublics(account) \in Seq(Prekey)
      /\ SeqElements(OneTimePrekeyPublics(account)) \subseteq Held.one_time_prekeys
  BY PublicsAreEntries DEF Held
<1> QED BY <1>1, <1>2 DEF Publication, PublicationOf

\* A publication joins the queue: replenishments stay alone in it.
LEMMA ReplenishesAppend ==
    ASSUME NEW rs \in Seq(PublicationOf), NEW r \in PublicationOf
    PROVE  /\ r.from = "start" => ReplenishesIn(Append(rs, r)) = ReplenishesIn(rs)
           /\ ReplenishesIn(rs) = {} => \A i \in ReplenishesIn(Append(rs, r)) : i = Len(rs) + 1
<1>1. /\ Len(rs) \in Nat /\ Len(Append(rs, r)) = Len(rs) + 1
      /\ \A i \in 1 .. Len(rs) : Append(rs, r)[i] = rs[i]
      /\ Append(rs, r)[Len(rs) + 1] = r
  OBVIOUS
<1> DEFINE t == Append(rs, r)
<1> HIDE DEF t
<1>2. \A i \in 1 .. Len(t) : i \in 1 .. Len(rs) \/ i = Len(rs) + 1 BY <1>1 DEF t
<1>3. \A i \in 1 .. Len(rs) : i \in 1 .. Len(t) BY <1>1 DEF t
<1>4. ASSUME r.from = "start" PROVE ReplenishesIn(t) = ReplenishesIn(rs)
  <2>1. ASSUME NEW i \in ReplenishesIn(t) PROVE i \in ReplenishesIn(rs)
    BY <1>1, <1>2, <1>4 DEF ReplenishesIn, t
  <2>2. ASSUME NEW i \in ReplenishesIn(rs) PROVE i \in ReplenishesIn(t)
    BY <1>1, <1>3 DEF ReplenishesIn, t
  <2> QED BY <2>1, <2>2
<1>5. ASSUME ReplenishesIn(rs) = {}, NEW i \in ReplenishesIn(t) PROVE i = Len(rs) + 1
  BY <1>1, <1>2, <1>5 DEF ReplenishesIn, t
<1> QED BY <1>4, <1>5 DEF t

\* One has been served.
LEMMA ReplenishesTail ==
    ASSUME NEW rs \in Seq(PublicationOf), rs # <<>>
    PROVE  /\ \A i \in ReplenishesIn(Tail(rs)) : i + 1 \in ReplenishesIn(rs)
           /\ ReplenishesIn(Tail(rs)) # {} => ReplenishesIn(rs) # {}
           /\ Head(rs).from = "replenish" => 1 \in ReplenishesIn(rs)
           /\ \A i \in ReplenishesIn(Tail(rs)) : i \in Nat \ {0}
<1>1. /\ Len(rs) \in Nat \ {0} /\ Len(Tail(rs)) = Len(rs) - 1
      /\ \A i \in 1 .. Len(Tail(rs)) : Tail(rs)[i] = rs[i + 1]
      /\ Head(rs) = rs[1]
  OBVIOUS
<1>2. \A i \in ReplenishesIn(Tail(rs)) : i + 1 \in ReplenishesIn(rs) BY <1>1 DEF ReplenishesIn
<1>3. Head(rs).from = "replenish" => 1 \in ReplenishesIn(rs) BY <1>1 DEF ReplenishesIn
<1>4. \A i \in ReplenishesIn(Tail(rs)) : i \in Nat \ {0} BY <1>1 DEF ReplenishesIn
<1> QED BY <1>2, <1>3, <1>4

\* A step that leaves sessions, contacts and their writes alone.
LEMMA SessionsUntouched ==
    ASSUME PrekeyInv, (phase = "down") = (phase' = "down"),
           UNCHANGED <<sessions, contacts, storage, writes, uses, unsaved, lost>>
    PROVE  ContactsInv' /\ SessionsInv'
BY DEF PrekeyInv, ContactsInv, SessionsInv, ContactsIn, SessionOwed, ContactOwed, Stored

\* The queue t is s with writes of the account and of A behind it.
Grown(s, t, A) ==
    /\ \A i \in 1 .. Len(s) : i \in 1 .. Len(t) /\ t[i] = s[i]
    /\ \A i \in 1 .. Len(t) :
          i \notin 1 .. Len(s) =>
              (\A j \in 1 .. Len(s) : j < i) /\ (t[i].what = "account" \/ t[i] \in A)

\* Writes are issued.
LEMMA ConcatGrows ==
    ASSUME NEW s \in Seq(Write), NEW t \in Seq(Write)
    PROVE  /\ Grown(s, s \o t, SeqElements(t))
           /\ \A j \in 1 .. Len(t) : \E i \in 1 .. Len(s \o t) : (s \o t)[i] = t[j]
           /\ \A j \in 1 .. Len(t) : \E i \in 1 .. Len(s \o t) : (s \o t)[i] = t[j]
<1> DEFINE u == s \o t
<1>1. /\ Len(s) \in Nat /\ Len(t) \in Nat /\ Len(u) = Len(s) + Len(t)
      /\ \A i \in 1 .. Len(s) : u[i] = s[i]
      /\ \A i \in (Len(s) + 1) .. (Len(s) + Len(t)) : u[i] = t[i - Len(s)]
  OBVIOUS
<1> HIDE DEF u
<1>2. \A i \in 1 .. Len(s) : i \in 1 .. Len(u) /\ u[i] = s[i] BY <1>1
<1>3. ASSUME NEW i \in 1 .. Len(u), i \notin 1 .. Len(s)
      PROVE  (\A j \in 1 .. Len(s) : j < i) /\ u[i] \in SeqElements(t)
  <2>1. i \in (Len(s) + 1) .. (Len(s) + Len(t)) /\ i - Len(s) \in 1 .. Len(t) BY <1>1, <1>3
  <2>2. u[i] = t[i - Len(s)] BY <1>1, <2>1
  <2>3. \A j \in 1 .. Len(s) : j < i BY <1>1, <2>1
  <2> QED BY <2>1, <2>2, <2>3 DEF SeqElements
<1>4. ASSUME NEW j \in 1 .. Len(t) PROVE \E i \in 1 .. Len(u) : u[i] = t[j]
  <2>1. /\ j + Len(s) \in (Len(s) + 1) .. (Len(s) + Len(t)) /\ j + Len(s) \in 1 .. Len(u)
        /\ (j + Len(s)) - Len(s) = j
    BY <1>1
  <2>2. u[j + Len(s)] = t[j] BY <1>1, <2>1
  <2> QED BY <2>1, <2>2
<1> QED BY <1>2, <1>3, <1>4 DEF Grown, u

\* MaybeReplenish issues its own write, and the given ones behind it.
LEMMA MaybeReplenishGrows ==
    ASSUME writes \in Seq(Write), NEW a, NEW w \in Seq(Write), MaybeReplenish(a, w),
           writes' \in Seq(Write), GoodAccount(account')
    PROVE  /\ Grown(writes, writes', SeqElements(w))
           /\ \A j \in 1 .. Len(w) : \E i \in 1 .. Len(writes') : writes'[i] = w[j]
<1>1. CASE writes' = writes \o w
  <2>1. /\ Grown(writes, writes \o w, SeqElements(w))
        /\ \A j \in 1 .. Len(w) : \E i \in 1 .. Len(writes \o w) : (writes \o w)[i] = w[j]
    BY ConcatGrows
  <2> QED BY <1>1, <2>1
<1>2. CASE writes' # writes \o w
  <2> DEFINE new == [what |-> "account", value |-> ToBytes(account')]
             mid == writes \o <<new>>
  <2>1. writes' = mid \o w BY <1>2 DEF MaybeReplenish
  <2>2. /\ Len(writes) \in Nat /\ mid = Append(writes, new) /\ Len(mid) = Len(writes) + 1
        /\ \A i \in 1 .. Len(writes) : mid[i] = writes[i]
        /\ mid[Len(writes) + 1] = new
    OBVIOUS
  <2>3. \A i \in 1 .. Len(writes) : i \in 1 .. Len(mid) /\ mid[i] = writes[i] BY <2>2
  <2>4. \A i \in 1 .. Len(mid) :
          i \notin 1 .. Len(writes) => (\A j \in 1 .. Len(writes) : j < i) /\ mid[i].what = "account"
    <3> SUFFICES ASSUME NEW i \in 1 .. Len(mid), i \notin 1 .. Len(writes)
                 PROVE  (\A j \in 1 .. Len(writes) : j < i) /\ mid[i].what = "account"
      OBVIOUS
    <3>1. i = Len(writes) + 1 BY <2>2
    <3>2. \A j \in 1 .. Len(writes) : j < i BY <2>2, <3>1
    <3> QED BY <2>2, <3>1, <3>2
  <2>5. mid \in Seq(Write)
    <3>1. new \in Write BY DEF Write, GoodAccount, GoodBytes
    <3> QED BY <3>1
  <2> HIDE DEF mid
  <2>6. /\ Grown(mid, mid \o w, SeqElements(w))
        /\ \A j \in 1 .. Len(w) : \E i \in 1 .. Len(mid \o w) : (mid \o w)[i] = w[j]
    BY <2>5, ConcatGrows
  <2>7. /\ Grown(mid, writes', SeqElements(w))
        /\ \A j \in 1 .. Len(w) : \E i \in 1 .. Len(writes') : writes'[i] = w[j]
    BY <2>1, <2>6
  <2>8. /\ \A i \in 1 .. Len(mid) : i \in 1 .. Len(writes') /\ writes'[i] = mid[i]
        /\ \A i \in 1 .. Len(writes') :
              i \notin 1 .. Len(mid) =>
                  (\A j \in 1 .. Len(mid) : j < i) /\ (writes'[i].what = "account" \/ writes'[i] \in SeqElements(w))
    BY <2>7 DEF Grown
  <2> QED BY <2>3, <2>4, <2>7, <2>8 DEF Grown
<1> QED BY <1>1, <1>2

\* Sessions and contacts that come with their writes are accounted for.
LEMMA GrownKeeps ==
    ASSUME PrekeyInv, phase # "down", phase' # "down", storage.account # None,
           NEW p \in Peer,
           Grown(writes, writes', {[what |-> "sessions", value |-> p],
                                   [what |-> "contacts", value |-> contacts']}),
           UNCHANGED <<storage, unsaved, lost>>,
           contacts \subseteq contacts', sessions \subseteq sessions',
           sessions' \subseteq contacts',
           \A q \in sessions' \ sessions : SessionOwed(q)' /\ ContactOwed(q)',
           \A u \in uses' : u \in uses \/ u[1] \in sessions'
    PROVE  ContactsInv' /\ SessionsInv'
<1> DEFINE S == [what |-> "sessions", value |-> p]
           C == [what |-> "contacts", value |-> contacts']
<1>1. /\ \A i \in 1 .. Len(writes) : i \in 1 .. Len(writes') /\ writes'[i] = writes[i]
      /\ \A i \in 1 .. Len(writes') :
            i \notin 1 .. Len(writes) =>
                /\ \A j \in 1 .. Len(writes) : j < i
                /\ writes'[i].what = "account" \/ writes'[i] \in {S, C}
  BY DEF Grown
<1>2. \A i \in ContactsIn(writes') : i \in ContactsIn(writes) \/ writes'[i].value = contacts'
  <2> SUFFICES ASSUME NEW i \in ContactsIn(writes'), i \notin ContactsIn(writes)
               PROVE  writes'[i].value = contacts'
    OBVIOUS
  <2>1. i \in 1 .. Len(writes') /\ writes'[i].what = "contacts" BY DEF ContactsIn
  <2>2. i \notin 1 .. Len(writes) BY <1>1, <2>1 DEF ContactsIn
  <2>3. writes'[i] = S \/ writes'[i] = C BY <1>1, <2>1, <2>2
  <2>4. S.what # "contacts" /\ C.value = contacts' OBVIOUS
  <2> HIDE DEF S, C
  <2> QED BY <2>1, <2>3, <2>4
<1>3. \A i \in ContactsIn(writes') :
          i \notin ContactsIn(writes) => \A j \in ContactsIn(writes) : j < i /\ ~(i < j)
  <2> SUFFICES ASSUME NEW i \in ContactsIn(writes'), i \notin ContactsIn(writes),
                      NEW j \in ContactsIn(writes)
               PROVE  j < i /\ ~(i < j)
    OBVIOUS
  <2>1. i \notin 1 .. Len(writes) /\ i \in 1 .. Len(writes') BY <1>1 DEF ContactsIn
  <2>2. j < i BY <1>1, <2>1 DEF ContactsIn
  <2>3. i \in Int /\ j \in Int BY DEF ContactsIn
  <2> QED BY <2>2, <2>3
<1> HIDE DEF S, C
<1>4. \A i \in ContactsIn(writes) : writes'[i] = writes[i] BY <1>1 DEF ContactsIn
<1>5. /\ storage.contacts \subseteq contacts
      /\ \A i \in ContactsIn(writes) :
            storage.contacts \subseteq writes[i].value /\ writes[i].value \subseteq contacts
      /\ \A i, j \in ContactsIn(writes) : i < j => writes[i].value \subseteq writes[j].value
  BY DEF PrekeyInv, ContactsInv
<1>6. ContactsInv'
  <2>1. ASSUME NEW i \in ContactsIn(writes')
        PROVE  storage'.contacts \subseteq writes'[i].value /\ writes'[i].value \subseteq contacts'
    <3>1. CASE i \in ContactsIn(writes) BY <1>4, <1>5, <3>1
    <3>2. CASE i \notin ContactsIn(writes) BY <1>2, <1>5, <3>2
    <3> QED BY <3>1, <3>2
  <2>2. ASSUME NEW i \in ContactsIn(writes'), NEW j \in ContactsIn(writes'), i < j
        PROVE  writes'[i].value \subseteq writes'[j].value
    <3>1. CASE j \notin ContactsIn(writes) BY <1>2, <2>1, <3>1
    <3>2. CASE j \in ContactsIn(writes)
      <4>1. i \in ContactsIn(writes) BY <1>3, <2>2, <3>2
      <4> QED BY <1>4, <1>5, <2>2, <3>2, <4>1
    <3> QED BY <3>1, <3>2
  <2> QED BY <1>5, <2>1, <2>2 DEF ContactsInv
<1>7. SessionsInv'
  <2>1. \A q : SessionOwed(q) => SessionOwed(q)' BY <1>1 DEF SessionOwed
  <2>2. \A q : ContactOwed(q) => ContactOwed(q)' BY <1>1 DEF ContactOwed
  <2>3. /\ \A q \in sessions : q \in storage.sessions \cup unsaved \/ SessionOwed(q)
        /\ \A q \in sessions : q \in storage.contacts \cup unsaved \/ ContactOwed(q)
        /\ \A u \in uses : u[1] \in sessions \cup lost
    BY DEF PrekeyInv, SessionsInv
  <2>4. \A u \in uses' : u[1] \in sessions' \cup lost' BY <2>3
  <2>5. \A q \in sessions' : q \in storage'.sessions \cup unsaved' \/ SessionOwed(q)' BY <2>1, <2>3
  <2>6. \A q \in sessions' : q \in storage'.contacts \cup unsaved' \/ ContactOwed(q)' BY <2>2, <2>3
  <2> QED BY <2>4, <2>5, <2>6 DEF SessionsInv
<1> QED BY <1>6, <1>7

\* The write at the head is done with.
LEMMA TailOf ==
    ASSUME NEW s \in Seq(Write), s # <<>>
    PROVE  /\ 1 \in 1 .. Len(s) /\ Head(s) = s[1]
           /\ \A i \in 1 .. Len(Tail(s)) : i + 1 \in 1 .. Len(s) /\ Tail(s)[i] = s[i + 1] /\ 1 < i + 1
           /\ \A j \in 1 .. Len(s) :
                 j = 1 \/ (j - 1 \in 1 .. Len(Tail(s)) /\ Tail(s)[j - 1] = s[j])
<1>1. /\ Len(s) \in Nat \ {0} /\ Len(Tail(s)) = Len(s) - 1 /\ Head(s) = s[1]
      /\ \A i \in 1 .. Len(Tail(s)) : Tail(s)[i] = s[i + 1]
  OBVIOUS
<1> DEFINE t == Tail(s)
<1> HIDE DEF t
<1>2. ASSUME NEW j \in 1 .. Len(s), j # 1 PROVE j - 1 \in 1 .. Len(t) /\ t[j - 1] = s[j]
  <2>1. j - 1 \in 1 .. Len(t) /\ (j - 1) + 1 = j BY <1>1, <1>2 DEF t
  <2> QED BY <1>1, <2>1 DEF t
<1>3. \A i \in 1 .. Len(t) : i + 1 \in 1 .. Len(s) /\ 1 < i + 1 BY <1>1 DEF t
<1> QED BY <1>1, <1>2, <1>3 DEF t

\* initialize on the first start.
LEMMA GenerateKeeps ==
    ASSUME PrekeyInv, Generate
    PROVE  PrekeyInv'
<1> DEFINE w == [what |-> "account", value |-> ToBytes(account')]
<1>1. /\ phase = "down" /\ storage.account = None /\ account' = GenerateWithPrekeys(Minted)
      /\ fresh' = fresh + Minted /\ writes' = <<w>> /\ phase' = "storing"
      /\ UNCHANGED <<sessions, contacts, storage, requests, replenish, directory, saved, bundle,
                     restarts, uses, burned, undone, exposed, unsaved, lost>>
  BY DEF Generate, bounds, history
<1>2. /\ fresh \in Nat /\ fresh' \in Nat /\ requests = <<>> /\ replenish = "idle" /\ Offered = {}
  BY <1>1, PreKeysAssumption DEF PrekeyInv, ShapeInv, WritesInv
<1>3. /\ GoodAccount(account')
      /\ \A x \in Held'.one_time_prekeys : fresh <= x.key /\ x.key < fresh'
      /\ \A x, y \in Held'.one_time_prekeys : x.key = y.key => x = y
  BY <1>1, <1>2, GenerateGood, PreKeysAssumption DEF Held
<1>4. GoodBytes(Held') /\ Held'.one_time_prekeys \subseteq Prekey
  BY <1>3 DEF GoodAccount, GoodBytes, Held, Bytes
<1>5. w \in Write /\ w.what = "account" /\ w.value = Held'
  BY <1>4 DEF Write, GoodBytes, Held
<1> HIDE DEF w
<1>6. /\ writes' \in Seq(Write) /\ Len(writes') = 1 /\ writes'[1] = w BY <1>1, <1>5
<1>7. AccountWrites' = {1}
  <2>1. \A i \in 1 .. 1 : i = 1 OBVIOUS
  <2> QED BY <1>5, <1>6, <2>1 DEF AccountWrites, AccountsIn
<1>8. \A b \in Copies' : b = Held'
  BY <1>1, <1>5, <1>6, <1>7 DEF Copies, Held
<1>8a. Held' \in Copies' BY <1>1 DEF Copies, Held
<1>9. Offered' = {} BY <1>1, <1>2 DEF Offered
<1>10. ShapeInv'
  BY <1>1, <1>2, <1>3, <1>6 DEF PrekeyInv, ShapeInv
<1>11. FreshInv'
  <2>1. \A x \in Known' : x \in Held'.one_time_prekeys BY <1>8, <1>9 DEF Known
  <2>2. \A u \in uses' : u[2] < fresh'
    <3> SUFFICES ASSUME NEW u \in uses PROVE u[2] < fresh' BY <1>1
    <3>1. u \in Peer \X Nat BY DEF PrekeyInv, ShapeInv
    <3>2. u[2] \in Nat /\ u[2] < fresh BY <3>1 DEF PrekeyInv, FreshInv
    <3> QED BY <1>1, <1>2, <3>2, PreKeysAssumption
  <2> QED BY <1>3, <1>4, <1>8, <2>1, <2>2 DEF FreshInv
<1>12. WritesInv'
  <2>1. Covers(writes'[1].value, Held') BY <1>5, <1>6 DEF Covers
  <2> QED BY <1>1, <1>2, <1>7, <1>9, <2>1 DEF WritesInv
<1>13. RequestsInv'
  BY <1>1, <1>2 DEF RequestsInv, ReplenishesIn
<1>14. FitsInv' /\ KeptInv' BY <1>9 DEF FitsInv, KeptInv
<1>15. NeverKilledInv'
  BY <1>1, <1>9 DEF NeverKilledInv
<1>16. UsesInv'
  <2>1. ASSUME NEW x \in Held'.one_time_prekeys, Used(x.key)' PROVE FALSE
    <3>1. PICK q \in Peer : <<q, x.key>> \in uses BY <1>1, <2>1 DEF Used
    <3>2. <<q, x.key>>[2] < fresh BY <3>1 DEF PrekeyInv, FreshInv
    <3>3. x.key < fresh BY <3>2
    <3>4. x.key \in Nat BY <1>4 DEF Prekey, Key
    <3> QED BY <1>2, <1>3, <3>3, <3>4
  <2>2. OneSessionPerPrekey' BY <1>1 DEF PrekeyInv, UsesInv, OneSessionPerPrekey
  <2> QED BY <1>1, <2>1, <2>2 DEF PrekeyInv, UsesInv, Unused
<1>17. ContactsInv'
  <2>1. ContactsIn(writes') = {}
    <3>1. \A i \in 1 .. 1 : i = 1 OBVIOUS
    <3> QED BY <1>5, <1>6, <3>1 DEF ContactsIn
  <2> QED BY <1>1, <2>1 DEF PrekeyInv, ContactsInv
<1>18. SessionsInv'
  <2>1. contacts = {} /\ sessions = {} /\ uses = {} BY <1>1 DEF PrekeyInv, ContactsInv
  <2> QED BY <1>1, <2>1 DEF SessionsInv
<1> QED BY <1>10, <1>11, <1>12, <1>13, <1>14, <1>15, <1>16, <1>17, <1>18 DEF PrekeyInv

\* initialize on a later start.
LEMMA RestoreKeeps ==
    ASSUME PrekeyInv, Restore
    PROVE  PrekeyInv'
<1>1. /\ phase = "down" /\ storage.account # None /\ account' = FromBytes(storage.account)
      /\ contacts' = storage.contacts /\ sessions' = storage.sessions \cap storage.contacts
      /\ phase' = "starting"
      /\ UNCHANGED <<storage, writes, requests, replenish, directory, saved, bundle,
                     fresh, restarts, uses, burned, undone, exposed, unsaved, lost>>
  BY DEF Restore, bounds, history
<1>2. writes = <<>> /\ requests = <<>> /\ replenish = "idle" BY <1>1 DEF PrekeyInv, ShapeInv
<1>3. storage.account \in Copies BY <1>1 DEF Copies
<1>4. GoodBytes(storage.account) BY <1>3 DEF PrekeyInv, FreshInv
<1>5. GoodAccount(account') /\ Held' = storage.account BY <1>1, <1>4, FromBytesGood DEF Held
<1>6. AccountWrites = {} /\ AccountWrites' = {}
  BY <1>1, <1>2 DEF AccountWrites, AccountsIn
<1>7. Copies = {storage.account} /\ Copies' = {storage.account}
  BY <1>1, <1>5, <1>6 DEF Copies, Held
<1>8. Offered' = Offered BY <1>1 DEF Offered
<1>9. ShapeInv' BY <1>1, <1>2, <1>5 DEF PrekeyInv, ShapeInv
<1>10. FreshInv'
  <2>1. Known' = Known BY <1>7, <1>8 DEF Known
  <2> QED BY <1>1, <1>7, <2>1 DEF PrekeyInv, FreshInv
<1>11. WritesInv' BY <1>1, <1>2, <1>5, <1>6 DEF WritesInv, Covers
<1>12. RequestsInv' BY <1>1, <1>2 DEF RequestsInv, ReplenishesIn
<1>13. FitsInv' BY <1>1, <1>7, <1>8 DEF PrekeyInv, FitsInv, Fits
<1>14. KeptInv' BY <1>1, <1>7, <1>8 DEF PrekeyInv, KeptInv, Spent, Used
<1>15. NeverKilledInv' BY <1>1 DEF PrekeyInv, NeverKilledInv
<1>16. UsesInv'
  <2>1. OneSessionPerPrekey' BY <1>1 DEF PrekeyInv, UsesInv, OneSessionPerPrekey
  <2>2. Unused(storage.account)' BY <1>1 DEF PrekeyInv, UsesInv, Unused, Used
  <2>3. Unused(Held)' BY <1>1, <1>5, <2>2 DEF Unused
  <2> QED BY <1>1, <2>1, <2>2, <2>3 DEF PrekeyInv, UsesInv
<1>17. ContactsInv'
  <2>1. ContactsIn(writes') = {} BY <1>1, <1>2 DEF ContactsIn
  <2> QED BY <1>1, <2>1 DEF PrekeyInv, ContactsInv
<1>18. SessionsInv' BY <1>1 DEF PrekeyInv, SessionsInv, Stored
<1> QED BY <1>9, <1>10, <1>11, <1>12, <1>13, <1>14, <1>15, <1>16, <1>17, <1>18 DEF PrekeyInv

\* Nothing is minted, used or lost.
LEMMA HeldUnchanged ==
    ASSUME PrekeyInv, phase # "down"
    PROVE  /\ Minting(Held, Held, fresh, fresh) /\ fresh <= fresh
           /\ GoodBytes(Held) /\ Held \in Copies
<1>1. GoodBytes(Held) /\ fresh \in Nat BY DEF PrekeyInv, ShapeInv, GoodAccount, Held
<1>2. Held.next_opk_id \in Nat BY <1>1 DEF GoodBytes, Bytes
<1>3. Held.next_opk_id <= Held.next_opk_id /\ fresh <= fresh BY <1>1, <1>2
<1>4. Held \in Copies BY DEF Copies, Held
<1> QED BY <1>1, <1>3, <1>4 DEF Minting

\* _startTransport publishes what memory holds: what is not stored is exposed.
LEMMA StartTransportKeeps ==
    ASSUME PrekeyInv, StartTransport
    PROVE  PrekeyInv'
<1> DEFINE pub == Publication(account, "start")
<1>1. /\ phase = "starting" /\ requests' = Append(requests, pub) /\ phase' = "publishing"
      /\ exposed' = exposed \cup (KeysOf(Entries(account.one_time_prekeys))
                                     \ KeysOf(storage.account.one_time_prekeys))
      /\ UNCHANGED <<account, sessions, contacts, storage, writes, replenish, directory,
                     saved, bundle, fresh, restarts, uses, burned, undone, unsaved, lost>>
  BY DEF StartTransport, Publish, bounds
<1>2. GoodAccount(account) /\ requests \in Seq(PublicationOf) BY <1>1 DEF PrekeyInv, ShapeInv
<1>3. /\ pub \in PublicationOf /\ pub.from = "start"
      /\ SeqElements(pub.one_time) \subseteq Held.one_time_prekeys
  BY <1>2, PublicationGood
<1> HIDE DEF pub
<1>4. /\ requests' \in Seq(PublicationOf)
      /\ InRequests(requests') \subseteq InRequests(requests) \cup SeqElements(pub.one_time)
      /\ ReplenishesIn(requests') = ReplenishesIn(requests)
  BY <1>1, <1>2, <1>3, RequestsAppend, ReplenishesAppend
<1>5. \A e \in Offered' : e \in Offered \/ e \in Held.one_time_prekeys
  BY <1>1, <1>3, <1>4 DEF Offered
<1>6. Held' = Held /\ AccountWrites' = AccountWrites BY <1>1 DEF Held, AccountWrites
<1>7. Copies' = Copies BY <1>1, <1>6 DEF Copies, Held
<1>8. storage.account # None BY <1>1 DEF PrekeyInv, WritesInv
<1>9. ShapeInv' BY <1>1, <1>4 DEF PrekeyInv, ShapeInv
<1>10. WritesInv' BY <1>1, <1>6, <1>8 DEF PrekeyInv, WritesInv
<1>11. RequestsInv' BY <1>1, <1>4 DEF PrekeyInv, RequestsInv
<1>12. ASSUME NEW e \in Held.one_time_prekeys, e.key \notin exposed', NEW b \in Copies
       PROVE  e \in b.one_time_prekeys
  <2>1. CASE b = Held BY <2>1
  <2>2. ASSUME NEW i \in AccountWrites, b = writes[i].value PROVE e \in b.one_time_prekeys
    BY <2>2 DEF PrekeyInv, WritesInv, Covers
  <2>3. CASE b = storage.account
    <3>1. Held.one_time_prekeys = Entries(account.one_time_prekeys) BY DEF Held, ToBytes
    <3>2. e.key \in KeysOf(Entries(account.one_time_prekeys)) BY <3>1 DEF KeysOf
    <3>3. e.key \in KeysOf(storage.account.one_time_prekeys) BY <1>1, <1>12, <2>3, <3>2
    <3>4. PICK y \in storage.account.one_time_prekeys : y.key = e.key BY <3>3 DEF KeysOf
    <3>5. storage.account \in Copies /\ Held \in Copies BY <1>1, <1>8 DEF Copies, Held
    <3>6. y \in Known /\ e \in Known BY <3>5 DEF Known
    <3>7. y = e BY <3>4, <3>6 DEF PrekeyInv, FreshInv
    <3> QED BY <2>3, <3>7
  <2> QED BY <1>1, <2>1, <2>2, <2>3 DEF Copies, Held
<1>13. UpStep
  <2>1. Minting(Held, Held, fresh, fresh) /\ fresh <= fresh BY <1>1, HeldUnchanged
  <2>2. Minting(Held, Held', fresh, fresh') /\ fresh <= fresh' BY <1>1, <1>6, <2>1
  <2>3. exposed \subseteq exposed' BY <1>1
  <2>4. \A e \in Offered' : e \in Offered \/ (/\ e \in Held'.one_time_prekeys
                                              /\ e.key \notin exposed' =>
                                                   \A b \in Copies' : e \in b.one_time_prekeys)
    BY <1>5, <1>6, <1>7, <1>12
  <2> QED BY <1>1, <1>6, <1>7, <2>2, <2>3, <2>4 DEF UpStep
<1>14. ContactsInv' /\ SessionsInv' BY <1>1, SessionsUntouched
<1> QED BY <1>9, <1>10, <1>11, <1>13, <1>14, UpStepKeeps

\* setConfig drops the worker with what it has not served.
LEMMA SwitchTransportKeeps ==
    ASSUME PrekeyInv, SwitchTransport
    PROVE  PrekeyInv'
<1>1. /\ phase = "running" /\ requests' = <<>> /\ phase' = "starting"
      /\ UNCHANGED <<account, sessions, contacts, storage, writes, replenish, directory,
                     saved, bundle, fresh, restarts, uses, burned, undone, exposed, unsaved, lost>>
  BY DEF SwitchTransport, history
<1>2. Held' = Held /\ AccountWrites' = AccountWrites BY <1>1 DEF Held, AccountWrites
<1>3. Copies' = Copies BY <1>1, <1>2 DEF Copies, Held
<1>4. requests' \in Seq(PublicationOf) /\ InRequests(requests') = {} /\ ReplenishesIn(requests') = {}
  BY <1>1 DEF InRequests, ReplenishesIn
<1>5. \A e \in Offered' : e \in Offered BY <1>1, <1>4 DEF Offered
<1>6. storage.account # None BY <1>1 DEF PrekeyInv, WritesInv
<1>7. ShapeInv' BY <1>1, <1>4 DEF PrekeyInv, ShapeInv
<1>8. WritesInv' BY <1>1, <1>2, <1>6 DEF PrekeyInv, WritesInv
<1>9. RequestsInv' BY <1>1, <1>4 DEF RequestsInv
<1>10. UpStep
  <2>1. Minting(Held, Held, fresh, fresh) /\ fresh <= fresh BY <1>1, HeldUnchanged
  <2>2. Minting(Held, Held', fresh, fresh') /\ fresh <= fresh' BY <1>1, <1>2, <2>1
  <2> QED BY <1>1, <1>2, <1>3, <1>5, <2>2 DEF UpStep
<1>11. ContactsInv' /\ SessionsInv' BY <1>1, SessionsUntouched
<1> QED BY <1>7, <1>8, <1>9, <1>10, <1>11, UpStepKeeps

\* A write is done with: it has landed, or its peers are marked.
LEMMA WriteDoneKeeps ==
    ASSUME PrekeyInv, phase # "down", phase' # "down", writes # <<>>, writes' = Tail(writes),
           UNCHANGED <<sessions, contacts, uses, lost>>,
           storage.sessions \subseteq storage'.sessions, unsaved \subseteq unsaved',
           storage'.account = None => storage.account = None,
           \/ storage'.contacts = storage.contacts
           \/ Head(writes).what = "contacts" /\ storage'.contacts = Head(writes).value,
           Head(writes).what = "sessions" => Head(writes).value \in storage'.sessions \cup unsaved',
           Head(writes).what = "contacts" =>
               Head(writes).value \subseteq storage'.contacts \cup unsaved'
    PROVE  ContactsInv' /\ SessionsInv'
<1> DEFINE w == Head(writes)
<1>1. writes \in Seq(Write) BY DEF PrekeyInv, ShapeInv
<1>2. /\ 1 \in 1 .. Len(writes) /\ w = writes[1]
      /\ \A i \in 1 .. Len(writes') : i + 1 \in 1 .. Len(writes) /\ writes'[i] = writes[i + 1] /\ 1 < i + 1
      /\ \A j \in 1 .. Len(writes) :
            j = 1 \/ (j - 1 \in 1 .. Len(writes') /\ writes'[j - 1] = writes[j])
  BY <1>1, TailOf
<1> HIDE DEF w
<1>3. \A i \in ContactsIn(writes') :
          i + 1 \in ContactsIn(writes) /\ writes'[i] = writes[i + 1] /\ 1 < i + 1
  BY <1>2 DEF ContactsIn
<1>4. w.what = "contacts" => 1 \in ContactsIn(writes) /\ writes[1] = w BY <1>2 DEF ContactsIn
<1>5. /\ sessions \subseteq contacts /\ storage.contacts \subseteq contacts
      /\ storage.account = None => contacts = {} /\ storage.contacts = {} /\ uses = {}
      /\ \A i \in ContactsIn(writes) :
            storage.contacts \subseteq writes[i].value /\ writes[i].value \subseteq contacts
      /\ \A i, j \in ContactsIn(writes) : i < j => writes[i].value \subseteq writes[j].value
  BY DEF PrekeyInv, ContactsInv
<1>6. storage.contacts \subseteq storage'.contacts /\ storage'.contacts \subseteq contacts
  BY <1>4, <1>5 DEF w
<1>7. ContactsInv'
  <2>1. ASSUME NEW i \in ContactsIn(writes')
        PROVE  storage'.contacts \subseteq writes'[i].value /\ writes'[i].value \subseteq contacts'
    <3>1. i + 1 \in ContactsIn(writes) /\ writes'[i] = writes[i + 1] /\ 1 < i + 1 BY <1>3
    <3>2. CASE storage'.contacts = storage.contacts
      <4>1. storage.contacts \subseteq writes[i + 1].value /\ writes[i + 1].value \subseteq contacts
        BY <1>5, <3>1
      <4> QED BY <3>1, <3>2, <4>1
    <3>3. CASE w.what = "contacts" /\ storage'.contacts = w.value
      <4>1. 1 \in ContactsIn(writes) /\ writes[1] = w BY <1>4, <3>3
      <4>2. writes[1].value \subseteq writes[i + 1].value /\ writes[i + 1].value \subseteq contacts
        BY <1>5, <3>1, <4>1
      <4> QED BY <3>1, <3>3, <4>1, <4>2
    <3> QED BY <3>2, <3>3 DEF w
  <2>2. ASSUME NEW i \in ContactsIn(writes'), NEW j \in ContactsIn(writes'), i < j
        PROVE  writes'[i].value \subseteq writes'[j].value
    <3>1. i + 1 < j + 1 BY <2>2 DEF ContactsIn
    <3>2. /\ i + 1 \in ContactsIn(writes) /\ writes'[i] = writes[i + 1]
          /\ j + 1 \in ContactsIn(writes) /\ writes'[j] = writes[j + 1]
      BY <1>3, <2>2
    <3>3. writes[i + 1].value \subseteq writes[j + 1].value BY <1>5, <3>1, <3>2
    <3> QED BY <3>2, <3>3
  <2>3. storage'.account = None => contacts' = {} /\ storage'.contacts = {} /\ uses' = {}
    BY <1>5, <1>6
  <2> QED BY <1>5, <1>6, <2>1, <2>2, <2>3 DEF ContactsInv
<1>8. SessionsInv'
  <2>1. ASSUME NEW q \in sessions'
        PROVE  q \in storage'.sessions \cup unsaved' \/ SessionOwed(q)'
    <3>1. CASE q \in storage.sessions \cup unsaved BY <3>1
    <3>2. CASE SessionOwed(q)
      <4>1. PICK j \in 1 .. Len(writes) : writes[j] = [what |-> "sessions", value |-> q]
        BY <3>2 DEF SessionOwed
      <4>2. CASE j = 1
        <5>1. w.what = "sessions" /\ w.value = q BY <1>2, <4>1, <4>2
        <5> QED BY <5>1 DEF w
      <4>3. CASE j # 1
        <5>1. j - 1 \in 1 .. Len(writes') /\ writes'[j - 1] = [what |-> "sessions", value |-> q]
          BY <1>2, <4>1, <4>3
        <5> QED BY <5>1 DEF SessionOwed
      <4> QED BY <4>2, <4>3
    <3> QED BY <3>1, <3>2 DEF PrekeyInv, SessionsInv
  <2>2. ASSUME NEW q \in sessions'
        PROVE  q \in storage'.contacts \cup unsaved' \/ ContactOwed(q)'
    <3>1. CASE q \in storage.contacts \cup unsaved BY <1>6, <3>1
    <3>2. CASE ContactOwed(q)
      <4>1. PICK j \in 1 .. Len(writes) : writes[j].what = "contacts" /\ q \in writes[j].value
        BY <3>2 DEF ContactOwed
      <4>2. CASE j = 1
        <5>1. w.what = "contacts" /\ q \in w.value BY <1>2, <4>1, <4>2
        <5> QED BY <5>1 DEF w
      <4>3. CASE j # 1
        <5>1. j - 1 \in 1 .. Len(writes') /\ writes'[j - 1] = writes[j] BY <1>2, <4>3
        <5> QED BY <4>1, <5>1 DEF ContactOwed
      <4> QED BY <4>2, <4>3
    <3> QED BY <3>1, <3>2 DEF PrekeyInv, SessionsInv
  <2>3. \A u \in uses' : u[1] \in sessions' \cup lost' BY DEF PrekeyInv, SessionsInv
  <2> QED BY <2>1, <2>2, <2>3 DEF SessionsInv
<1> QED BY <1>7, <1>8

\* A storage write fails: fewer copies of the account are under way.
LEMMA WriteFailsKeeps ==
    ASSUME PrekeyInv, WriteFails
    PROVE  PrekeyInv'
<1> DEFINE w == Head(writes)
<1>1. /\ writes # <<>> /\ writes' = Tail(writes)
      /\ IF w.what # "account" THEN UNCHANGED <<phase, replenish>>
         ELSE /\ phase' = IF phase = "storing" THEN "failed" ELSE phase
              /\ replenish' = "idle"
      /\ unsaved' = CASE w.what = "account"  -> unsaved
                       [] w.what = "sessions" -> unsaved \cup {w.value}
                       [] w.what = "contacts" -> unsaved \cup (w.value \ storage.contacts)
      /\ UNCHANGED <<account, sessions, contacts, storage, requests, directory, saved, bundle,
                     fresh, restarts, uses, burned, undone, exposed, lost>>
  BY DEF WriteFails
<1>2. writes \in Seq(Write) BY DEF PrekeyInv, ShapeInv
<1>3. /\ Tail(writes) \in Seq(Write) /\ w \in Write
      /\ \A i \in AccountWrites' : i + 1 \in AccountWrites /\ writes'[i] = writes[i + 1]
      /\ w.what = "account" => 1 \in AccountWrites
  BY <1>1, <1>2, AccountsInTail DEF AccountWrites
<1>4. phase # "down" BY <1>1 DEF PrekeyInv, ShapeInv
<1>5. Held' = Held /\ Offered' = Offered BY <1>1 DEF Held, Offered
<1>6. w.what \in {"account", "sessions", "contacts"} BY <1>3 DEF Write
<1> HIDE DEF w
<1>7. /\ phase' \in {"storing", "failed", "starting", "publishing", "running"}
      /\ phase' = "failed" \/ phase' = phase
      /\ replenish' \in {"idle", "writing", "publishing"}
  BY <1>1, <1>4 DEF PrekeyInv, ShapeInv
<1>8. /\ unsaved \subseteq unsaved'
      /\ w.what = "sessions" => w.value \in unsaved'
      /\ w.what = "contacts" => w.value \subseteq storage.contacts \cup unsaved'
  <2>1. CASE w.what = "account" BY <1>1, <2>1
  <2>2. CASE w.what = "sessions" BY <1>1, <2>2
  <2>3. CASE w.what = "contacts"
    <3>1. unsaved' = unsaved \cup (w.value \ storage.contacts) BY <1>1, <2>3
    <3> QED BY <2>3, <3>1
  <2> QED BY <1>6, <2>1, <2>2, <2>3
<1>9. \A b \in Copies' : b \in Copies
  <2> SUFFICES ASSUME NEW b \in Copies' PROVE b \in Copies OBVIOUS
  <2>1. ASSUME NEW i \in AccountWrites', b = writes'[i].value PROVE b \in Copies
    <3>1. i + 1 \in AccountWrites /\ b = writes[i + 1].value BY <1>3, <2>1
    <3> QED BY <3>1 DEF Copies
  <2>2. CASE b = storage'.account /\ b # None BY <1>1, <2>2 DEF Copies
  <2>3. CASE b = Held' BY <1>4, <1>5, <2>3 DEF Copies, Held
  <2> QED BY <2>1, <2>2, <2>3 DEF Copies, Held
<1>10. ShapeInv' BY <1>1, <1>3, <1>4, <1>7 DEF PrekeyInv, ShapeInv
<1>11. /\ \A i, j \in AccountWrites' : i = j
       /\ w.what = "account" => AccountWrites' = {}
  <2>1. ASSUME NEW i \in AccountWrites', NEW j \in AccountWrites' PROVE i = j
    <3>1. i + 1 = j + 1 /\ i \in Nat /\ j \in Nat
      BY <1>3 DEF PrekeyInv, WritesInv, AccountWrites, AccountsIn
    <3> QED BY <3>1
  <2>2. ASSUME w.what = "account", NEW i \in AccountWrites' PROVE FALSE
    <3>1. i + 1 = 1 BY <1>3, <2>2 DEF PrekeyInv, WritesInv
    <3>2. i \in Nat \ {0} BY DEF AccountWrites, AccountsIn
    <3> QED BY <3>1, <3>2
  <2> QED BY <2>1, <2>2
<1>12. WritesInv'
  <2>1. \A i \in AccountWrites' : Covers(writes'[i].value, Held')
    BY <1>3, <1>5 DEF PrekeyInv, WritesInv
  <2>2. AccountWrites' # {} => phase' = "storing" \/ replenish' = "writing"
    <3> SUFFICES ASSUME AccountWrites' # {} PROVE phase' = "storing" \/ replenish' = "writing"
      OBVIOUS
    <3>1. w.what # "account" /\ AccountWrites # {} BY <1>3, <1>11
    <3> QED BY <1>1, <3>1 DEF PrekeyInv, WritesInv
  <2>3. phase' \in {"storing", "failed"} => replenish' = "idle"
    BY <1>1 DEF PrekeyInv, WritesInv
  <2>4. storage'.account = None => Offered' = {} /\ phase' \in {"down", "storing", "failed"}
    BY <1>1, <1>5, <1>7 DEF PrekeyInv, WritesInv
  <2> QED BY <1>11, <2>1, <2>2, <2>3, <2>4 DEF WritesInv
<1>13. RequestsInv'
  <2>1. CASE w.what # "account" BY <1>1, <2>1 DEF PrekeyInv, RequestsInv
  <2>2. CASE w.what = "account"
    <3>1. AccountWrites # {} BY <1>3, <2>2
    <3>2. CASE phase = "storing"
      <4>1. requests = <<>> BY <3>2 DEF PrekeyInv, RequestsInv
      <4> QED BY <1>1, <4>1 DEF RequestsInv, ReplenishesIn
    <3>3. CASE phase # "storing"
      <4>1. replenish = "writing" BY <3>1, <3>3 DEF PrekeyInv, WritesInv
      <4>2. ReplenishesIn(requests) = {} BY <4>1 DEF PrekeyInv, RequestsInv
      <4>3. phase' = phase /\ requests' = requests BY <1>1, <2>2, <3>3
      <4> QED BY <4>2, <4>3 DEF PrekeyInv, RequestsInv
    <3> QED BY <3>2, <3>3
  <2> QED BY <2>1, <2>2
<1>14. UpStep
  <2>1. Minting(Held, Held, fresh, fresh) /\ fresh <= fresh BY <1>4, HeldUnchanged
  <2>2. Minting(Held, Held', fresh, fresh') /\ fresh <= fresh' BY <1>1, <1>5, <2>1
  <2> QED BY <1>1, <1>4, <1>5, <1>7, <1>9, <2>2 DEF UpStep
<1>15. ContactsInv' /\ SessionsInv'
  <2>1. phase' # "down" BY <1>7
  <2> QED BY <1>1, <1>4, <1>8, <2>1, WriteDoneKeeps DEF w
<1> QED BY <1>10, <1>12, <1>13, <1>14, <1>15, UpStepKeeps

\* A storage write lands; a replenishment goes on to publish.
LEMMA WriteLandsKeeps ==
    ASSUME PrekeyInv, WriteLands
    PROVE  PrekeyInv'
<1> DEFINE w == Head(writes)
<1>1. /\ writes # <<>> /\ writes' = Tail(writes)
      /\ storage' = (IF w.what = "sessions" THEN [storage EXCEPT !.sessions = @ \cup {w.value}]
                     ELSE [storage EXCEPT ![w.what] = w.value])
      /\ IF w.what = "account" THEN AfterAccountWrite ELSE UNCHANGED <<requests, replenish, phase>>
      /\ UNCHANGED <<account, sessions, contacts, directory, saved, bundle, fresh,
                     restarts, uses, burned, undone, exposed, unsaved, lost>>
  BY DEF WriteLands, bounds, history
<1>2. /\ writes \in Seq(Write) /\ requests \in Seq(PublicationOf)
      /\ storage = [account |-> storage.account, sessions |-> storage.sessions, contacts |-> storage.contacts]
  BY DEF PrekeyInv, ShapeInv
<1>3. /\ Tail(writes) \in Seq(Write) /\ w \in Write /\ w = writes[1]
      /\ \A i \in AccountWrites' : i + 1 \in AccountWrites /\ writes'[i] = writes[i + 1]
      /\ \A j \in AccountWrites : j # 1 => AccountWrites' # {}
      /\ w.what = "account" => 1 \in AccountWrites
  BY <1>1, <1>2, AccountsInTail DEF AccountWrites
<1>4. phase # "down" BY <1>1 DEF PrekeyInv, ShapeInv
<1>5. GoodAccount(account) BY <1>4 DEF PrekeyInv, ShapeInv
<1>6. Held' = Held BY <1>1 DEF Held
<1> HIDE DEF w
<1>7. Minting(Held, Held', fresh, fresh') /\ fresh <= fresh'
  <2>1. Minting(Held, Held, fresh, fresh) /\ fresh <= fresh BY <1>4, HeldUnchanged
  <2> QED BY <1>1, <1>6, <2>1
<1>8. CASE w.what # "account"
  <2>1. requests' = requests /\ replenish' = replenish /\ phase' = phase BY <1>1, <1>8
  <2>2. /\ storage'.account = storage.account /\ storage'.sessions \in SUBSET Peer
        /\ storage'.contacts \in SUBSET Peer
        /\ storage' = [account |-> storage'.account, sessions |-> storage'.sessions,
                       contacts |-> storage'.contacts]
        /\ storage.sessions \subseteq storage'.sessions
        /\ w.what = "sessions" => w.value \in storage'.sessions /\ storage'.contacts = storage.contacts
        /\ w.what = "contacts" => storage'.contacts = w.value
    <3>1. storage.sessions \in SUBSET Peer /\ storage.contacts \in SUBSET Peer BY DEF PrekeyInv, ShapeInv
    <3>2. CASE w.what = "sessions"
      <4>1. w.value \in Peer BY <1>3, <3>2 DEF Write
      <4>2. storage' = [storage EXCEPT !.sessions = @ \cup {w.value}] BY <1>1, <3>2
      <4>3. storage' = [account |-> storage.account, sessions |-> storage.sessions \cup {w.value},
                        contacts |-> storage.contacts]
        BY <1>2, <4>2
      <4> QED BY <3>1, <3>2, <4>1, <4>3
    <3>3. CASE w.what = "contacts"
      <4>1. w.value \in SUBSET Peer BY <1>3, <3>3 DEF Write
      <4>2. storage' = [storage EXCEPT !["contacts"] = w.value] BY <1>1, <3>3
      <4>3. storage' = [account |-> storage.account, sessions |-> storage.sessions,
                        contacts |-> w.value]
        BY <1>2, <4>2
      <4> QED BY <3>1, <3>3, <4>1, <4>3
    <3> QED BY <1>3, <1>8, <3>2, <3>3 DEF Write
  <2>3. \A b \in Copies' : b \in Copies
    <3> SUFFICES ASSUME NEW b \in Copies' PROVE b \in Copies OBVIOUS
    <3>1. ASSUME NEW i \in AccountWrites', b = writes'[i].value PROVE b \in Copies
      <4>1. i + 1 \in AccountWrites /\ b = writes[i + 1].value BY <1>3, <3>1
      <4> QED BY <4>1 DEF Copies
    <3>2. CASE b = storage'.account /\ b # None BY <2>2, <3>2 DEF Copies
    <3>3. CASE b = Held' /\ phase' # "down" BY <1>6, <2>1, <3>3 DEF Copies, Held
    <3> QED BY <3>1, <3>2, <3>3 DEF Copies, Held
  <2>4. Offered' = Offered BY <1>1, <2>1 DEF Offered
  <2>5. ShapeInv' BY <1>1, <1>3, <1>4, <2>1, <2>2 DEF PrekeyInv, ShapeInv
  <2>6. AccountWrites' = {} => AccountWrites = {}
    <3>1. 1 \notin AccountWrites BY <1>3, <1>8 DEF AccountWrites, AccountsIn
    <3> QED BY <1>3, <3>1
  <2>7. WritesInv'
    <3>1. \A i, j \in AccountWrites' : i = j
      <4> SUFFICES ASSUME NEW i \in AccountWrites', NEW j \in AccountWrites' PROVE i = j
        OBVIOUS
      <4>1. i + 1 = j + 1 /\ i \in Nat /\ j \in Nat
        BY <1>3 DEF PrekeyInv, WritesInv, AccountWrites, AccountsIn
      <4> QED BY <4>1
    <3>2. \A i \in AccountWrites' : Covers(writes'[i].value, Held')
      BY <1>3, <1>6 DEF PrekeyInv, WritesInv
    <3>3. AccountWrites' # {} => AccountWrites # {} BY <1>3
    <3> QED BY <1>4, <1>6, <2>1, <2>2, <2>4, <2>6, <3>1, <3>2, <3>3 DEF PrekeyInv, WritesInv
  <2>8. RequestsInv' BY <2>1 DEF PrekeyInv, RequestsInv
  <2>9. UpStep BY <1>1, <1>4, <1>6, <1>7, <2>1, <2>3, <2>4 DEF UpStep
  <2>10. ContactsInv' /\ SessionsInv'
    <3>1. phase' # "down" /\ w.what \in {"sessions", "contacts"}
      BY <1>3, <1>4, <1>8, <2>1 DEF Write
    <3>2. unsaved' = unsaved /\ UNCHANGED <<sessions, contacts, uses, lost>> BY <1>1
    <3> QED BY <1>1, <1>4, <2>2, <3>1, <3>2, WriteDoneKeeps DEF w
  <2> QED BY <2>5, <2>7, <2>8, <2>9, <2>10, UpStepKeeps
<1>9. CASE w.what = "account"
  <2>1. AfterAccountWrite BY <1>1, <1>9
  <2>2. w.value \in Bytes BY <1>3, <1>9 DEF Write
  <2>3. /\ storage' = [account |-> w.value, sessions |-> storage.sessions, contacts |-> storage.contacts]
    <3>1. storage' = [storage EXCEPT !["account"] = w.value] BY <1>1, <1>9
    <3> QED BY <1>2, <3>1
  <2>4. storage'.account = w.value /\ w.value # None BY <2>2, <2>3, NoneAssumption DEF Bytes
  <2>5. AccountWrites' = {}
    <3> SUFFICES ASSUME NEW i \in AccountWrites' PROVE FALSE OBVIOUS
    <3>1. i + 1 \in AccountWrites /\ 1 \in AccountWrites BY <1>3, <1>9
    <3>2. i + 1 = 1 BY <3>1 DEF PrekeyInv, WritesInv
    <3>3. i \in Nat \ {0} BY DEF AccountWrites, AccountsIn
    <3> QED BY <3>2, <3>3
  <2>6. Covers(w.value, Held) BY <1>3, <1>9 DEF PrekeyInv, WritesInv
  <2>7. phase' # "down" BY <1>4, <2>1 DEF AfterAccountWrite
  <2>8. \A b \in Copies' : b = w.value \/ b = Held'
    BY <2>4, <2>5, <2>7 DEF Copies, Held
  <2>9. w.value \in Copies BY <1>3, <1>9 DEF Copies
  <2>10. \A b \in Copies' : b \in Copies \/ b = Held' BY <2>8, <2>9
  <2>11. \A e \in Held.one_time_prekeys : \A b \in Copies' : e \in b.one_time_prekeys
    BY <1>6, <2>6, <2>8 DEF Covers
  <2>12. /\ requests' \in Seq(PublicationOf) /\ RequestsInv'
         /\ replenish' \in {"idle", "publishing"}
         /\ phase' \in {"starting", "publishing", "running"}
         /\ \A e \in Offered' : e \in Offered \/ e \in Held.one_time_prekeys
    <3>1. CASE phase = "storing"
      <4>1. phase' = "starting" /\ requests' = requests /\ replenish' = replenish
        BY <2>1, <3>1 DEF AfterAccountWrite
      <4>2. replenish = "idle" /\ requests = <<>> BY <3>1 DEF PrekeyInv, WritesInv, RequestsInv
      <4>3. Offered' = Offered BY <1>1, <4>1 DEF Offered
      <4> QED BY <1>2, <4>1, <4>2, <4>3 DEF RequestsInv, ReplenishesIn
    <3>2. CASE phase = "starting"
      <4>1. phase' = phase /\ requests' = requests /\ replenish' = "idle"
        BY <2>1, <3>2 DEF AfterAccountWrite
      <4>2. requests = <<>> BY <3>2 DEF PrekeyInv, RequestsInv
      <4>3. Offered' = Offered BY <1>1, <4>1 DEF Offered
      <4> QED BY <1>2, <3>2, <4>1, <4>2, <4>3 DEF RequestsInv, ReplenishesIn
    <3>3. CASE phase \in {"publishing", "running"}
      <4> DEFINE pub == Publication(account, "replenish")
      <4>1. phase' = phase /\ requests' = Append(requests, pub) /\ replenish' = "publishing"
        BY <2>1, <3>3 DEF AfterAccountWrite, Publish
      <4>2. /\ pub \in PublicationOf
            /\ SeqElements(pub.one_time) \subseteq Held.one_time_prekeys
        BY <1>5, PublicationGood
      <4> HIDE DEF pub
      <4>3. AccountWrites # {} BY <1>3, <1>9
      <4>4. replenish = "writing" BY <3>3, <4>3 DEF PrekeyInv, WritesInv
      <4>5. ReplenishesIn(requests) = {} BY <4>4 DEF PrekeyInv, RequestsInv
      <4>6. /\ requests' \in Seq(PublicationOf)
            /\ InRequests(requests') \subseteq InRequests(requests) \cup SeqElements(pub.one_time)
            /\ \A i \in ReplenishesIn(requests') : i = Len(requests) + 1
        BY <1>2, <4>1, <4>2, <4>5, RequestsAppend, ReplenishesAppend
      <4>7. \A e \in Offered' : e \in Offered \/ e \in Held.one_time_prekeys
        BY <1>1, <4>2, <4>6 DEF Offered
      <4> QED BY <3>3, <4>1, <4>6, <4>7 DEF RequestsInv
    <3>4. CASE phase = "failed"
      <4>1. AccountWrites # {} BY <1>3, <1>9
      <4> QED BY <3>4, <4>1 DEF PrekeyInv, WritesInv
    <3> QED BY <1>4, <3>1, <3>2, <3>3, <3>4 DEF PrekeyInv, ShapeInv
  <2>13. ShapeInv'
    BY <1>1, <1>3, <1>5, <2>2, <2>3, <2>4, <2>12 DEF PrekeyInv, ShapeInv
  <2>14. WritesInv'
    BY <1>6, <2>4, <2>5, <2>6, <2>12 DEF WritesInv
  <2>15. UpStep
    <3>1. \A e \in Offered' : e \in Offered \/ (/\ e \in Held'.one_time_prekeys
                                                /\ e.key \notin exposed' =>
                                                     \A b \in Copies' : e \in b.one_time_prekeys)
      BY <1>6, <2>11, <2>12
    <3> QED BY <1>1, <1>4, <1>6, <1>7, <2>7, <2>10, <3>1 DEF UpStep
  <2>16. ContactsInv' /\ SessionsInv'
    <3>1. /\ storage'.sessions = storage.sessions /\ storage'.contacts = storage.contacts
          /\ storage'.account # None /\ w.what \notin {"sessions", "contacts"}
      BY <1>9, <2>3, <2>4
    <3>2. unsaved' = unsaved /\ UNCHANGED <<sessions, contacts, uses, lost>> BY <1>1
    <3> QED BY <1>1, <1>4, <2>7, <3>1, <3>2, WriteDoneKeeps DEF w
  <2> QED BY <2>12, <2>13, <2>14, <2>15, <2>16, UpStepKeeps
<1> QED BY <1>8, <1>9

\* The worker has served a publication, whatever came of it.
LEMMA AnsweredKeeps ==
    ASSUME PrekeyInv, requests # <<>>, Answered(Head(requests)),
           directory' # None => directory' \in Directory,
           InDirectory(directory') \subseteq InDirectory(directory) \cup SeqElements(Head(requests).one_time)
    PROVE  PrekeyInv'
<1> DEFINE r == Head(requests)
<1>1. /\ requests' = Tail(requests)
      /\ IF r.from = "start" THEN phase' = "running" /\ MaybeReplenish(account, <<>>)
         ELSE replenish' = "idle" /\ UNCHANGED <<phase, account, writes, fresh>>
      /\ UNCHANGED <<sessions, contacts, storage, saved, bundle, restarts, uses, burned, undone,
                     exposed, unsaved, lost>>
  BY DEF Answered, history
<1>2. /\ requests \in Seq(PublicationOf) /\ phase \in {"publishing", "running"}
      /\ GoodAccount(account) /\ replenish \in {"idle", "writing", "publishing"}
      /\ writes \in Seq(Write) /\ fresh \in Nat
  BY DEF PrekeyInv, ShapeInv, RequestsInv
<1>3. /\ requests' \in Seq(PublicationOf) /\ InRequests(requests') \subseteq InRequests(requests)
      /\ r \in PublicationOf /\ SeqElements(r.one_time) \subseteq InRequests(requests)
  BY <1>1, <1>2, RequestsTail
<1>4. /\ \A i \in ReplenishesIn(requests') : i + 1 \in ReplenishesIn(requests) /\ i \in Nat \ {0}
      /\ ReplenishesIn(requests') # {} => ReplenishesIn(requests) # {}
      /\ r.from = "replenish" => 1 \in ReplenishesIn(requests)
  BY <1>1, <1>2, ReplenishesTail
<1>5. \A e \in Offered' : e \in Offered BY <1>1, <1>3 DEF Offered
<1> HIDE DEF r
<1>6. \A i, j \in ReplenishesIn(requests') : i = j
  <2> SUFFICES ASSUME NEW i \in ReplenishesIn(requests'), NEW j \in ReplenishesIn(requests') PROVE i = j
    OBVIOUS
  <2>1. i + 1 \in ReplenishesIn(requests) /\ j + 1 \in ReplenishesIn(requests) BY <1>4
  <2>2. i + 1 = j + 1 BY <2>1 DEF PrekeyInv, RequestsInv
  <2>3. i \in Nat /\ j \in Nat BY <1>4
  <2> QED BY <2>2, <2>3
<1>7. /\ phase' \in {"publishing", "running"} /\ GoodAccount(account') /\ writes' \in Seq(Write)
      /\ fresh' \in Nat /\ fresh <= fresh' /\ replenish' \in {"idle", "writing", "publishing"}
      /\ ReplenishesIn(requests') # {} => replenish' = "publishing"
      /\ Held.one_time_prekeys \subseteq Held'.one_time_prekeys
      /\ Minting(Held, Held', fresh, fresh')
      /\ \A b \in Copies' : b \in Copies \/ b = Held'
      /\ WritesInv'
  <2>1. CASE r.from = "start"
    <3>1. phase' = "running" /\ MaybeReplenish(account, <<>>) /\ storage' = storage BY <1>1, <2>1
    <3>2. <<>> \in Seq(Write) /\ AccountsIn(<<>>) = {} BY DEF AccountsIn
    <3>3. /\ ToBytes(account).one_time_prekeys \subseteq Held.one_time_prekeys
          /\ ToBytes(account).next_opk_id = Held.next_opk_id
      BY DEF Held
    <3>4. phase' \in {"publishing", "running"} BY <3>1
    <3>5. /\ GoodAccount(account') /\ writes' \in Seq(Write) /\ fresh' \in Nat /\ fresh <= fresh'
          /\ replenish' = replenish \/ (replenish = "idle" /\ replenish' = "writing")
          /\ ToBytes(account).one_time_prekeys \subseteq Held'.one_time_prekeys
          /\ Minting(Held, Held', fresh, fresh')
          /\ \A b \in Copies' : b \in Copies \/ b = Held'
          /\ WritesInv'
      BY <1>2, <3>1, <3>2, <3>3, <3>4, MaybeReplenishes
    <3>6. ReplenishesIn(requests') # {} => replenish' = "publishing"
      BY <1>4, <3>5 DEF PrekeyInv, RequestsInv
    <3>7. Held.one_time_prekeys \subseteq Held'.one_time_prekeys BY <3>5 DEF Held
    <3> QED BY <1>2, <3>4, <3>5, <3>6, <3>7
  <2>2. CASE r.from # "start"
    <3>1. r.from = "replenish" BY <1>3, <2>2 DEF PublicationOf
    <3>2. replenish' = "idle" /\ UNCHANGED <<phase, account, writes, fresh, storage>>
      BY <1>1, <2>2
    <3>3. 1 \in ReplenishesIn(requests) /\ replenish = "publishing"
      BY <1>4, <3>1 DEF PrekeyInv, RequestsInv
    <3>4. ReplenishesIn(requests') = {}
      <4> SUFFICES ASSUME NEW i \in ReplenishesIn(requests') PROVE FALSE OBVIOUS
      <4>1. i + 1 = 1 /\ i \in Nat \ {0} BY <1>4, <3>3 DEF PrekeyInv, RequestsInv
      <4> QED BY <4>1
    <3>5. Held' = Held /\ AccountWrites' = AccountWrites BY <3>2 DEF Held, AccountWrites
    <3>6. AccountWrites = {} BY <1>2, <3>3 DEF PrekeyInv, WritesInv
    <3>7. Copies' = Copies BY <3>2, <3>5 DEF Copies, Held
    <3>8. Minting(Held, Held, fresh, fresh) /\ fresh <= fresh BY <1>2, HeldUnchanged
    <3>9. WritesInv'
      <4>1. storage.account # None BY <1>2 DEF PrekeyInv, WritesInv
      <4> QED BY <1>2, <3>2, <3>5, <3>6, <4>1 DEF PrekeyInv, WritesInv
    <3> QED BY <1>2, <3>2, <3>4, <3>5, <3>7, <3>8, <3>9
  <2> QED BY <2>1, <2>2
<1>8. ShapeInv' BY <1>1, <1>3, <1>7 DEF PrekeyInv, ShapeInv
<1>9. RequestsInv' BY <1>6, <1>7 DEF RequestsInv
<1>10. UpStep BY <1>1, <1>2, <1>5, <1>7 DEF UpStep
<1>11. ContactsInv' /\ SessionsInv'
  <2>1. CASE r.from = "start"
    <3> DEFINE w == <<>>
    <3>1. w \in Seq(Write) /\ SeqElements(w) = {} BY DEF SeqElements
    <3>2. MaybeReplenish(account, w) BY <1>1, <2>1
    <3> HIDE DEF w
    <3>3. Grown(writes, writes', SeqElements(w)) BY <1>2, <1>7, <3>1, <3>2, MaybeReplenishGrows
    <3>4. CASE \E p : p \in Peer
      <4>1. PICK p : p \in Peer BY <3>4
      <4>2. Grown(writes, writes', {[what |-> "sessions", value |-> p],
                                    [what |-> "contacts", value |-> contacts']})
        BY <3>1, <3>3 DEF Grown
      <4>3. storage.account # None /\ sessions \subseteq contacts
        BY <1>2 DEF PrekeyInv, WritesInv, ContactsInv
      <4>4. phase # "down" /\ phase' # "down" BY <1>2, <1>7
      <4> QED BY <1>1, <4>1, <4>2, <4>3, <4>4, GrownKeeps
    <3>5. CASE ~\E p : p \in Peer
      <4>1. /\ sessions' = {} /\ contacts' = {} /\ storage'.contacts = {} /\ uses' = {}
        BY <1>1, <3>5 DEF PrekeyInv, ShapeInv
      <4>2. \A i \in ContactsIn(writes') : writes'[i].value = {}
        <5> SUFFICES ASSUME NEW i \in ContactsIn(writes') PROVE writes'[i].value = {}
          OBVIOUS
        <5>1. writes'[i] \in Write /\ writes'[i].what = "contacts" BY <1>7 DEF ContactsIn
        <5>2. writes'[i].value \in SUBSET Peer BY <5>1 DEF Write
        <5> QED BY <3>5, <5>2
      <4> QED BY <4>1, <4>2 DEF ContactsInv, SessionsInv
    <3> QED BY <3>4, <3>5
  <2>2. CASE r.from # "start"
    <3>1. writes' = writes /\ phase' = phase BY <1>1, <2>2
    <3> QED BY <1>1, <3>1, SessionsUntouched
  <2> QED BY <2>1, <2>2
<1> QED BY <1>7, <1>8, <1>9, <1>10, <1>11, UpStepKeeps

\* RelayTransport::publish reaches the relay: its directory takes the pool.
LEMMA PublishLandsKeeps ==
    ASSUME PrekeyInv, PublishLands
    PROVE  PrekeyInv'
<1> DEFINE r == Head(requests)
<1>1. requests # <<>> /\ requests \in Seq(PublicationOf)
  BY DEF PublishLands, PrekeyInv, ShapeInv
<1>2. r \in PublicationOf BY <1>1, RequestsTail
<1>3. r.base = NoKeyBundle /\ r.one_time \in Seq(Prekey) BY <1>2 DEF PublicationOf
<1>4. [r.base EXCEPT !.opk = None] = NoKeyBundle BY <1>3 DEF NoKeyBundle
<1>5. directory' = [base |-> NoKeyBundle, one_time |-> r.one_time] BY <1>4 DEF PublishLands
<1>6. directory' \in Directory BY <1>3, <1>5 DEF Directory
<1>7. InDirectory(directory') \subseteq SeqElements(r.one_time) BY <1>5 DEF InDirectory
<1> QED BY <1>1, <1>6, <1>7, AnsweredKeeps DEF PublishLands

\* The relay was not reached.
LEMMA PublishFailsKeeps ==
    ASSUME PrekeyInv, PublishFails
    PROVE  PrekeyInv'
BY AnsweredKeeps DEF PublishFails, PrekeyInv, ShapeInv

\* A kill of the app goes back to the stored copy; what it undid is counted.
LEMMA KillAppKeeps ==
    ASSUME PrekeyInv, KillApp
    PROVE  PrekeyInv'
<1>1. /\ phase # "down" /\ restarts' = restarts + 1 /\ account' = None /\ sessions' = {}
      /\ contacts' = {} /\ writes' = <<>> /\ requests' = <<>> /\ phase' = "down"
      /\ replenish' = "idle"
      /\ undone' = (IF storage.account = None THEN undone
                    ELSE undone \cup (KeysOf(storage.account.one_time_prekeys)
                                        \cap {u[2] : u \in uses}))
      /\ lost' = lost \cup ((Owed \cup unsaved) \ (storage.sessions \cap storage.contacts))
      /\ UNCHANGED <<storage, directory, saved, bundle, fresh, uses, burned, exposed>>
  BY DEF KillApp
<1>2. AccountWrites' = {} /\ InRequests(requests') = {} /\ ReplenishesIn(requests') = {}
  BY <1>1 DEF AccountWrites, AccountsIn, InRequests, ReplenishesIn
<1>3. \A b \in Copies' : b \in Copies BY <1>1, <1>2 DEF Copies
<1>4. \A e \in Offered' : e \in Offered BY <1>1, <1>2 DEF Offered
<1>5. restarts' \in Nat /\ restarts' # 0 BY <1>1 DEF PrekeyInv, ShapeInv
<1>6. ShapeInv' BY <1>1, <1>5 DEF PrekeyInv, ShapeInv
<1>7. FreshInv'
  <2>1. \A x \in Known' : x \in Known BY <1>3, <1>4 DEF Known
  <2> QED BY <1>1, <1>3, <2>1 DEF PrekeyInv, FreshInv
<1>8. WritesInv' BY <1>1, <1>2, <1>4 DEF PrekeyInv, WritesInv
<1>9. RequestsInv' BY <1>1, <1>2 DEF RequestsInv
<1>10. FitsInv' BY <1>1, <1>3, <1>4 DEF PrekeyInv, FitsInv, Fits
<1>11. KeptInv' BY <1>1, <1>3, <1>4 DEF PrekeyInv, KeptInv, Spent, Used
<1>12. NeverKilledInv' BY <1>5 DEF NeverKilledInv
<1>13. UsesInv'
  <2>1. undone \subseteq undone' BY <1>1
  <2>2. OneSessionPerPrekey' BY <1>1, <2>1 DEF PrekeyInv, UsesInv, OneSessionPerPrekey
  <2>3. ASSUME storage.account # None PROVE Unused(storage.account)'
    <3> SUFFICES ASSUME NEW x \in storage.account.one_time_prekeys, Used(x.key)
                 PROVE  x.key \in undone'
      BY <1>1 DEF Unused, Used
    <3>1. PICK q \in Peer : <<q, x.key>> \in uses BY DEF Used
    <3>2. <<q, x.key>>[2] = x.key OBVIOUS
    <3>3. x.key \in {u[2] : u \in uses} BY <3>1, <3>2
    <3>4. x.key \in KeysOf(storage.account.one_time_prekeys) BY DEF KeysOf
    <3> QED BY <1>1, <2>3, <3>3, <3>4
  <2> QED BY <1>1, <2>2, <2>3 DEF PrekeyInv, UsesInv
<1>14. ContactsInv'
  <2>1. ContactsIn(writes') = {} BY <1>1 DEF ContactsIn
  <2> QED BY <1>1, <2>1 DEF PrekeyInv, ContactsInv
<1>15. SessionsInv'
  <2>1. ASSUME NEW u \in uses' PROVE u[1] \in Stored' \cup lost'
    <3>1. u[1] \in sessions \cup lost BY <1>1, <2>1 DEF PrekeyInv, SessionsInv
    <3>2. ASSUME u[1] \in sessions, u[1] \notin Stored PROVE u[1] \in Owed \cup unsaved
      <4>1. u[1] \in Peer BY <3>2 DEF PrekeyInv, ShapeInv
      <4>2. /\ u[1] \in storage.sessions \cup unsaved \/ SessionOwed(u[1])
            /\ u[1] \in storage.contacts \cup unsaved \/ ContactOwed(u[1])
        BY <3>2 DEF PrekeyInv, SessionsInv
      <4> QED BY <3>2, <4>1, <4>2 DEF Owed, Stored
    <3>3. Stored' = Stored BY <1>1 DEF Stored
    <3> HIDE DEF Owed
    <3> QED BY <1>1, <3>1, <3>2, <3>3 DEF Stored
  <2> QED BY <1>1, <2>1 DEF SessionsInv
<1> QED BY <1>6, <1>7, <1>8, <1>9, <1>10, <1>11, <1>12, <1>13, <1>14, <1>15 DEF PrekeyInv

\* A step of the relay or of a peer offers no prekey that was not offered.
LEMMA RelayStepKeeps ==
    ASSUME PrekeyInv, ShapeInv', UNCHANGED <<app, fresh, restarts, history>>,
           \A e \in Offered' : e \in Offered
    PROVE  PrekeyInv'
<1>1. UNCHANGED <<account, sessions, contacts, storage, writes, requests, phase, replenish, fresh,
                  restarts, uses, burned, undone, exposed, unsaved, lost>>
  BY DEF app, history
<1>2. Held' = Held /\ AccountWrites' = AccountWrites BY <1>1 DEF Held, AccountWrites
<1>3. Copies' = Copies BY <1>1, <1>2 DEF Copies, Held
<1>4. FreshInv'
  <2>1. \A x \in Known' : x \in Known BY <1>3 DEF Known
  <2> QED BY <1>1, <1>3, <2>1 DEF PrekeyInv, FreshInv
<1>5. WritesInv' BY <1>1, <1>2 DEF PrekeyInv, WritesInv
<1>6. RequestsInv' BY <1>1 DEF PrekeyInv, RequestsInv
<1>7. FitsInv' BY <1>1, <1>3 DEF PrekeyInv, FitsInv, Fits
<1>8. KeptInv' BY <1>1, <1>3 DEF PrekeyInv, KeptInv, Spent, Used
<1>9. NeverKilledInv'
  <2>1. \A key : Spent(key)' = Spent(key) BY <1>1 DEF Spent, Used
  <2> QED BY <1>1, <1>2, <2>1 DEF PrekeyInv, NeverKilledInv
<1>10. UsesInv'
  <2>1. OneSessionPerPrekey' BY <1>1 DEF PrekeyInv, UsesInv, OneSessionPerPrekey
  <2>2. phase # "down" => Unused(Held)' BY <1>1, <1>2 DEF PrekeyInv, UsesInv, Unused, Used
  <2>3. phase = "down" /\ storage.account # None => Unused(storage.account)'
    BY <1>1 DEF PrekeyInv, UsesInv, Unused, Used
  <2> QED BY <1>1, <2>1, <2>2, <2>3 DEF PrekeyInv, UsesInv
<1>11. ContactsInv' /\ SessionsInv' BY <1>1, SessionsUntouched
<1> QED BY <1>4, <1>5, <1>6, <1>7, <1>8, <1>9, <1>10, <1>11 DEF PrekeyInv

\* RelayStore::fetch_bundle: the prekey goes from the directory to the peer.
LEMMA FetchBundleKeeps ==
    ASSUME PrekeyInv, NEW p \in Peer, FetchBundle(p)
    PROVE  PrekeyInv'
<1> DEFINE d == Dispensed(directory)
<1>1. /\ bundle[p] = None /\ directory # None /\ bundle' = [bundle EXCEPT ![p] = d]
      /\ directory' = Rest(directory)
      /\ UNCHANGED <<app, saved, fresh, restarts, history>>
  BY DEF FetchBundle, bounds
<1>2. directory \in Directory BY <1>1 DEF PrekeyInv, ShapeInv
<1>3. /\ d \in [opk : Prekey \cup {None}]
      /\ d.opk # None => d.opk \in InDirectory(directory)
      /\ directory' \in Directory /\ InDirectory(directory') \subseteq InDirectory(directory)
  BY <1>1, <1>2, DispensedGood
<1> HIDE DEF d
<1>4. UNCHANGED <<account, sessions, contacts, storage, writes, requests, phase, replenish>>
  BY <1>1 DEF app
<1>5. bundle = [q \in Peer |-> bundle[q]] BY DEF PrekeyInv, ShapeInv
<1>6. bundle' = [q \in Peer |-> bundle'[q]] /\ \A q \in Peer : bundle'[q] = IF q = p THEN d ELSE bundle[q]
  BY <1>1, <1>5
<1>7. \A e \in Offered' : e \in Offered
  <2>1. ASSUME NEW e \in InBundles(bundle') PROVE e \in InBundles(bundle) \/ e \in InDirectory(directory)
    <3>1. PICK q \in Peer : bundle'[q] # None /\ e = bundle'[q].opk /\ e # None BY <2>1 DEF InBundles
    <3>2. CASE q = p
      <4>1. bundle'[q] = d BY <1>6, <3>2
      <4>2. d.opk # None /\ e = d.opk BY <3>1, <4>1
      <4> QED BY <1>3, <4>2
    <3>3. CASE q # p
      <4>1. bundle[q] # None /\ e = bundle[q].opk BY <1>6, <3>1, <3>3
      <4> QED BY <3>1, <4>1 DEF InBundles
    <3> QED BY <3>2, <3>3
  <2> QED BY <1>1, <1>3, <1>4, <2>1 DEF Offered
<1>8. ShapeInv'
  <2>1. \A q \in Peer : bundle'[q] # None => bundle'[q] \in [opk : Prekey \cup {None}]
    <3> SUFFICES ASSUME NEW q \in Peer, bundle'[q] # None PROVE bundle'[q] \in [opk : Prekey \cup {None}]
      OBVIOUS
    <3>1. CASE q = p
      <4>1. bundle'[q] = d BY <1>6, <3>1
      <4> QED BY <1>3, <4>1
    <3>2. CASE q # p
      <4>1. bundle'[q] = bundle[q] BY <1>6, <3>2
      <4> QED BY <4>1 DEF PrekeyInv, ShapeInv
    <3> QED BY <3>1, <3>2
  <2> QED BY <1>1, <1>3, <1>4, <1>6, <2>1 DEF PrekeyInv, ShapeInv, history
<1> QED BY <1>1, <1>7, <1>8, RelayStepKeeps

\* The other steps of the relay: a lost response, a flush, a kill.
LEMMA RelayKeeps ==
    ASSUME PrekeyInv, FetchLost \/ FlushDirectory \/ KillRelay
    PROVE  PrekeyInv'
<1>1. UNCHANGED <<app, bundle, fresh, restarts, history>>
  BY DEF FetchLost, FlushDirectory, KillRelay, bounds
<1>2. /\ directory # None => directory \in Directory
      /\ saved # None => saved \in Directory
  BY DEF PrekeyInv, ShapeInv
<1>3. /\ directory' # None => directory' \in Directory
      /\ saved' # None => saved' \in Directory
      /\ InDirectory(directory') \subseteq InDirectory(directory) \cup InDirectory(saved)
      /\ InDirectory(saved') \subseteq InDirectory(directory) \cup InDirectory(saved)
  <2>1. CASE FetchLost
    <3>1. directory # None /\ directory' = Rest(directory) /\ saved' = saved BY <2>1 DEF FetchLost
    <3>2. directory' \in Directory /\ InDirectory(directory') \subseteq InDirectory(directory)
      BY <1>2, <3>1, DispensedGood
    <3> QED BY <1>2, <3>1, <3>2
  <2>2. CASE FlushDirectory
    <3>1. saved' = directory /\ directory' = directory BY <2>2 DEF FlushDirectory
    <3> QED BY <1>2, <3>1
  <2>3. CASE KillRelay
    <3>1. directory' = saved /\ saved' = saved BY <2>3 DEF KillRelay
    <3> QED BY <1>2, <3>1
  <2> QED BY <2>1, <2>2, <2>3
<1>4. UNCHANGED <<account, sessions, contacts, storage, writes, requests, phase, replenish>>
  BY <1>1 DEF app
<1>5. \A e \in Offered' : e \in Offered BY <1>1, <1>3, <1>4 DEF Offered
<1>6. ShapeInv' BY <1>1, <1>3, <1>4 DEF PrekeyInv, ShapeInv, history
<1> QED BY <1>1, <1>5, <1>6, RelayStepKeeps

\* The writes of a handled message touch no account.
LEMMA SessionWritesGood ==
    ASSUME NEW p \in Peer, contacts' \in SUBSET Peer
    PROVE  /\ SessionWrites(p) \in Seq(Write) /\ AccountsIn(SessionWrites(p)) = {}
           /\ SeqElements(SessionWrites(p)) \subseteq {[what |-> "sessions", value |-> p],
                                                       [what |-> "contacts", value |-> contacts']}
           /\ Len(SessionWrites(p)) = 2
           /\ SessionWrites(p)[1] = [what |-> "sessions", value |-> p]
           /\ SessionWrites(p)[2] = [what |-> "contacts", value |-> contacts']
<1> DEFINE s == [what |-> "sessions", value |-> p]
           c == [what |-> "contacts", value |-> contacts']
<1>1. s \in Write /\ c \in Write /\ s.what # "account" /\ c.what # "account" BY DEF Write
<1> HIDE DEF s, c
<1>2. <<s, c>> \in Seq(Write) /\ Len(<<s, c>>) = 2 /\ <<s, c>>[1] = s /\ <<s, c>>[2] = c BY <1>1
<1>3. \A i \in 1 .. 2 : i = 1 \/ i = 2 OBVIOUS
<1>4. AccountsIn(<<s, c>>) = {} BY <1>1, <1>2, <1>3 DEF AccountsIn
<1>5. SeqElements(<<s, c>>) \subseteq {s, c} BY <1>2, <1>3 DEF SeqElements
<1> QED BY <1>2, <1>4, <1>5 DEF SessionWrites, s, c

\* A message of a known peer is stored, and the account is left alone.
LEMMA HandleKnownKeeps ==
    ASSUME PrekeyInv, NEW p \in Peer, HandleKnown(p)
    PROVE  PrekeyInv'
<1>1. /\ phase = "running" /\ contacts' = contacts /\ sessions' = sessions
      /\ writes' = writes \o SessionWrites(p)
      /\ UNCHANGED <<account, storage, requests, phase, replenish, directory, saved, bundle,
                     fresh, restarts, uses, burned, undone, exposed, unsaved, lost>>
  BY DEF HandleKnown, bounds, history
<1>2. writes \in Seq(Write) /\ contacts' \in SUBSET Peer BY <1>1 DEF PrekeyInv, ShapeInv
<1>3. SessionWrites(p) \in Seq(Write) /\ AccountsIn(SessionWrites(p)) = {}
  BY <1>2, SessionWritesGood
<1>4. /\ writes' \in Seq(Write) /\ AccountWrites' = AccountWrites
      /\ \A i \in AccountWrites : writes'[i] = writes[i]
  BY <1>1, <1>2, <1>3, AccountsInConcat DEF AccountWrites
<1>5. Held' = Held BY <1>1 DEF Held
<1>6. \A b \in Copies' : b \in Copies BY <1>1, <1>4 DEF Copies
<1>7. Offered' = Offered BY <1>1 DEF Offered
<1>8. ShapeInv' BY <1>1, <1>4 DEF PrekeyInv, ShapeInv
<1>9. WritesInv'
  <2>1. \A i \in AccountWrites' : Covers(writes'[i].value, Held')
    BY <1>4, <1>5 DEF PrekeyInv, WritesInv
  <2> QED BY <1>1, <1>4, <1>5, <1>7, <2>1 DEF PrekeyInv, WritesInv
<1>10. RequestsInv' BY <1>1 DEF PrekeyInv, RequestsInv
<1>11. UpStep
  <2>1. Minting(Held, Held, fresh, fresh) /\ fresh <= fresh BY <1>1, HeldUnchanged
  <2>2. Minting(Held, Held', fresh, fresh') /\ fresh <= fresh' BY <1>1, <1>5, <2>1
  <2> QED BY <1>1, <1>5, <1>6, <1>7, <2>2 DEF UpStep
<1>12. ContactsInv' /\ SessionsInv'
  <2> DEFINE A == {[what |-> "sessions", value |-> p], [what |-> "contacts", value |-> contacts']}
  <2>1. SeqElements(SessionWrites(p)) \subseteq A BY <1>2, SessionWritesGood
  <2>2. Grown(writes, writes', SeqElements(SessionWrites(p)))
    BY <1>1, <1>2, <1>3, ConcatGrows
  <2>3. Grown(writes, writes', A) BY <2>1, <2>2 DEF Grown
  <2> HIDE DEF A
  <2>4. storage.account # None /\ sessions \subseteq contacts BY <1>1 DEF PrekeyInv, WritesInv, ContactsInv
  <2>5. phase # "down" /\ phase' # "down" BY <1>1
  <2> QED BY <1>1, <2>3, <2>4, <2>5, GrownKeeps DEF A
<1> QED BY <1>8, <1>9, <1>10, <1>11, <1>12, UpStepKeeps

\* The prekey a peer was given is on offer.
LEMMA BundleOffered ==
    ASSUME PrekeyInv, NEW p \in Peer, bundle[p] # None, bundle[p].opk # None
    PROVE  bundle[p].opk \in Offered /\ bundle[p].opk \in Prekey
<1>1. bundle[p].opk \in InBundles(bundle) BY DEF InBundles
<1>2. Offered \subseteq Prekey BY OfferedType DEF PrekeyInv
<1> QED BY <1>1, <1>2 DEF Offered

\* What the account has under an id.
LEMMA HeldEntry ==
    ASSUME NEW opk, opk # None, HoldsId(account, opk)
    PROVE  [id |-> opk.id, key |-> account.one_time_prekeys[opk.id]] \in Held.one_time_prekeys
BY DEF HoldsId, Held, ToBytes, Entries

\* A message that does not open uses up the prekey it names, and marks it.
LEMMA HandleUnopenedKeeps ==
    ASSUME PrekeyInv, NEW id, HandleUnopened(id)
    PROVE  PrekeyInv'
<1> DEFINE a == TakeOneTimePrekey(account, id)
<1>1. /\ phase = "running" /\ account' = a
      /\ id \in DOMAIN account.one_time_prekeys
      /\ burned' = burned \cup {account.one_time_prekeys[id]}
      /\ UNCHANGED <<sessions, contacts, storage, writes, requests, phase, replenish, directory,
                     saved, bundle, fresh, restarts, uses, undone, exposed, unsaved, lost>>
  BY DEF HandleUnopened, bounds
<1>2. GoodAccount(account) BY <1>1 DEF PrekeyInv, ShapeInv
<1>3. /\ GoodAccount(a) /\ ToBytes(a).next_opk_id = Held.next_opk_id
      /\ ToBytes(a).one_time_prekeys = {x \in Held.one_time_prekeys : x.id # id}
  BY <1>2, TakeGood DEF Held
<1>4. Held' = ToBytes(a) BY <1>1 DEF Held
<1> HIDE DEF a
<1>5. ASSUME NEW x \in Held.one_time_prekeys \ Held'.one_time_prekeys PROVE Spent(x.key)'
  <2>1. x.id = id BY <1>3, <1>4
  <2>2. x \in Entries(account.one_time_prekeys) BY DEF Held, ToBytes
  <2>3. x.key = account.one_time_prekeys[id] BY <2>1, <2>2 DEF Entries
  <2> QED BY <1>1, <2>3 DEF Spent
<1>6. AccountWrites' = AccountWrites BY <1>1 DEF AccountWrites
<1>7. \A b \in Copies' : b \in Copies \/ b = Held' BY <1>1, <1>6 DEF Copies, Held
<1>8. Offered' = Offered BY <1>1 DEF Offered
<1>9. ShapeInv' BY <1>1, <1>3 DEF PrekeyInv, ShapeInv
<1>10. WritesInv'
  <2>1. \A i \in AccountWrites' : Covers(writes'[i].value, Held')
    BY <1>1, <1>3, <1>4, <1>6 DEF PrekeyInv, WritesInv, Covers
  <2> QED BY <1>1, <1>6, <1>8, <2>1 DEF PrekeyInv, WritesInv
<1>11. RequestsInv' BY <1>1 DEF PrekeyInv, RequestsInv
<1>12. UpStep
  <2>1. Minting(Held, Held, fresh, fresh) /\ fresh <= fresh BY <1>1, HeldUnchanged
  <2>2. Minting(Held, Held', fresh, fresh') /\ fresh <= fresh'
    BY <1>1, <1>3, <1>4, <2>1 DEF Minting
  <2> QED BY <1>1, <1>5, <1>7, <1>8, <2>2 DEF UpStep
<1>13. ContactsInv' /\ SessionsInv' BY <1>1, SessionsUntouched
<1> QED BY <1>9, <1>10, <1>11, <1>12, <1>13, UpStepKeeps

\* A new session uses up its prekey, and marks it as used.
LEMMA HandleNewKeeps ==
    ASSUME PrekeyInv, NEW p \in Peer, HandleNew(p)
    PROVE  PrekeyInv'
<1> DEFINE opk == bundle[p].opk
           a == Consume(account, opk)
           w == SessionWrites(p)
           x == [id |-> opk.id, key |-> account.one_time_prekeys[opk.id]]
<1>1. /\ phase = "running" /\ bundle[p] # None /\ HoldsId(account, opk) /\ Agrees(account, opk)
      /\ sessions' = sessions \cup {p} /\ contacts' = contacts \cup {p}
      /\ MaybeReplenish(a, w)
      /\ uses' = uses \cup {<<p, e.key>> : e \in {opk} \ {None}}
      /\ UNCHANGED <<storage, requests, phase, directory, saved, bundle, restarts,
                     burned, undone, exposed, unsaved, lost>>
  BY DEF HandleNew, Waiting, bounds
<1>2. opk # None => /\ x \in Held.one_time_prekeys /\ x.id = opk.id /\ x.key = opk.key
                    /\ opk \in Prekey
  <2> SUFFICES ASSUME opk # None
               PROVE  /\ x \in Held.one_time_prekeys /\ x.id = opk.id /\ x.key = opk.key
                      /\ opk \in Prekey
    OBVIOUS
  <2>1. account.one_time_prekeys[opk.id] = opk.key BY <1>1 DEF Agrees
  <2>2. x \in Held.one_time_prekeys BY <1>1, HeldEntry
  <2>3. opk \in Prekey BY <1>1, BundleOffered
  <2> QED BY <2>1, <2>2, <2>3
<1>3. GoodAccount(account) /\ contacts' \in SUBSET Peer /\ sessions' \in SUBSET Peer
      /\ fresh \in Nat
  BY <1>1 DEF PrekeyInv, ShapeInv
<1>4. /\ GoodAccount(a) /\ ToBytes(a).next_opk_id = Held.next_opk_id
      /\ ToBytes(a).one_time_prekeys \subseteq Held.one_time_prekeys
      /\ \A y \in Held.one_time_prekeys \ ToBytes(a).one_time_prekeys : opk # None /\ y.id = opk.id
      /\ opk # None => \A y \in ToBytes(a).one_time_prekeys : y.id # opk.id
  BY <1>3, ConsumeGood DEF Held
<1>5. /\ w \in Seq(Write) /\ AccountsIn(w) = {}
      /\ SeqElements(w) \subseteq {[what |-> "sessions", value |-> p],
                                   [what |-> "contacts", value |-> contacts']}
      /\ Len(w) = 2
      /\ w[1] = [what |-> "sessions", value |-> p]
      /\ w[2] = [what |-> "contacts", value |-> contacts']
  BY <1>3, SessionWritesGood
<1> HIDE DEF opk, a, w, x
<1>6. /\ GoodAccount(account') /\ writes' \in Seq(Write) /\ fresh' \in Nat /\ fresh <= fresh'
      /\ replenish' = replenish \/ (replenish = "idle" /\ replenish' = "writing")
      /\ ToBytes(a).one_time_prekeys \subseteq Held'.one_time_prekeys
      /\ Minting(Held, Held', fresh, fresh')
      /\ \A y \in Held'.one_time_prekeys \ ToBytes(a).one_time_prekeys : fresh <= y.key
      /\ \A b \in Copies' : b \in Copies \/ b = Held'
      /\ WritesInv'
  BY <1>1, <1>4, <1>5, MaybeReplenishes
<1>7. \A e \in Offered' : e \in Offered BY <1>1 DEF Offered
<1>8. GoodBytes(Held) /\ Held \in Copies /\ Held.one_time_prekeys \subseteq Prekey
  BY <1>1, HeldUnchanged DEF GoodBytes, Bytes
<1>9. \A y \in Held.one_time_prekeys : y \in Known /\ y.key < fresh /\ y.key \in Nat
  <2>1. \A y \in Held.one_time_prekeys : y \in Known BY <1>8 DEF Known
  <2> QED BY <1>8, <2>1 DEF PrekeyInv, FreshInv, Prekey, Key
<1>10. \A u \in uses' \ uses : u = <<p, opk.key>> /\ opk # None BY <1>1
<1>11. ASSUME NEW y \in Held'.one_time_prekeys, opk # None PROVE y.key # opk.key
  <2>1. CASE y \in ToBytes(a).one_time_prekeys
    <3>1. y \in Held.one_time_prekeys /\ y.id # opk.id BY <1>4, <1>11, <2>1
    <3>2. y \in Known /\ x \in Known /\ x.id = opk.id /\ x.key = opk.key BY <1>2, <1>9, <1>11, <3>1
    <3>3. y.key = x.key => y = x BY <3>2 DEF PrekeyInv, FreshInv
    <3> QED BY <3>1, <3>2, <3>3
  <2>2. CASE y \notin ToBytes(a).one_time_prekeys
    <3>1. fresh <= y.key BY <1>6, <2>2
    <3>2. x.key < fresh /\ x.key = opk.key /\ x.key \in Nat BY <1>2, <1>9, <1>11
    <3> QED BY <1>3, <3>1, <3>2
  <2> QED BY <2>1, <2>2
<1>12. ASSUME NEW y \in Held.one_time_prekeys \ Held'.one_time_prekeys PROVE Spent(y.key)'
  <2>1. y \in Held.one_time_prekeys \ ToBytes(a).one_time_prekeys BY <1>6
  <2>2. opk # None /\ y.id = opk.id BY <1>4, <2>1
  <2>3. y.id = x.id /\ x \in Held.one_time_prekeys /\ x.key = opk.key BY <1>2, <2>2
  <2>4. y = x BY <1>8, <2>3 DEF GoodBytes
  <2>5. <<p, opk.key>> \in uses' BY <1>1, <2>2
  <2>6. y.key = opk.key BY <2>3, <2>4
  <2> QED BY <2>5, <2>6 DEF Spent, Used
<1>13. ShapeInv'
  <2>1. uses' \subseteq Peer \X Nat
    <3>1. uses \subseteq Peer \X Nat BY DEF PrekeyInv, ShapeInv
    <3>2. opk # None => opk.key \in Nat BY <1>2 DEF Prekey, Key
    <3> QED BY <1>10, <3>1, <3>2
  <2>2. replenish' \in {"idle", "writing", "publishing"} BY <1>6 DEF PrekeyInv, ShapeInv
  <2> QED BY <1>1, <1>3, <1>6, <2>1, <2>2 DEF PrekeyInv, ShapeInv
<1>14. RequestsInv' BY <1>1, <1>6 DEF PrekeyInv, RequestsInv
<1>15. UpStep
  <2>1. ASSUME NEW u \in uses' \ uses
        PROVE  /\ \E y \in Held.one_time_prekeys : y.key = u[2]
               /\ \A y \in Held'.one_time_prekeys : y.key # u[2]
    <3>1. u = <<p, opk.key>> /\ opk # None /\ u[1] = p /\ u[2] = opk.key BY <1>10
    <3> QED BY <1>1, <1>2, <1>11, <3>1
  <2>2. uses \subseteq uses' BY <1>1
  <2>3. \A u, v \in uses' \ uses : u = v BY <1>10
  <2> QED BY <1>1, <1>6, <1>7, <1>12, <2>1, <2>2, <2>3 DEF UpStep
<1>16. ContactsInv' /\ SessionsInv'
  <2> DEFINE A == {[what |-> "sessions", value |-> p], [what |-> "contacts", value |-> contacts']}
  <2>1. writes \in Seq(Write) /\ SeqElements(w) \subseteq A BY <1>5 DEF PrekeyInv, ShapeInv
  <2>2. /\ Grown(writes, writes', SeqElements(w))
        /\ \A j \in 1 .. Len(w) : \E i \in 1 .. Len(writes') : writes'[i] = w[j]
    BY <1>1, <1>5, <1>6, <2>1, MaybeReplenishGrows
  <2>3. Grown(writes, writes', A) BY <2>1, <2>2 DEF Grown
  <2>4. 1 \in 1 .. Len(w) /\ 2 \in 1 .. Len(w) BY <1>5
  <2>5. SessionOwed(p)' BY <1>5, <2>2, <2>4 DEF SessionOwed
  <2>6. ContactOwed(p)'
    <3>1. PICK i \in 1 .. Len(writes') : writes'[i] = [what |-> "contacts", value |-> contacts']
      BY <1>5, <2>2, <2>4
    <3>2. writes'[i].what = "contacts" /\ writes'[i].value = contacts' /\ p \in contacts' BY <1>1, <3>1
    <3> QED BY <3>2 DEF ContactOwed
  <2> HIDE DEF A
  <2>7. /\ storage.account # None /\ sessions' \subseteq contacts'
        /\ contacts \subseteq contacts' /\ sessions \subseteq sessions'
    BY <1>1 DEF PrekeyInv, WritesInv, ContactsInv
  <2>8. phase # "down" /\ phase' # "down" BY <1>1
  <2>9. \A q \in sessions' \ sessions : SessionOwed(q)' /\ ContactOwed(q)' BY <1>1, <2>5, <2>6
  <2>10. \A u \in uses' : u \in uses \/ u[1] \in sessions' BY <1>1, <1>10
  <2> QED BY <1>1, <2>3, <2>7, <2>8, <2>9, <2>10, GrownKeeps DEF A
<1> QED BY <1>6, <1>13, <1>14, <1>15, <1>16, UpStepKeeps

-----------------------------------------------------------------------------
(* The theorems.                                                           *)

\* Every step keeps the invariant.
LEMMA NextKeeps ==
    ASSUME PrekeyInv, Next
    PROVE  PrekeyInv'
<1>1. CASE Generate BY <1>1, GenerateKeeps
<1>2. CASE Restore BY <1>2, RestoreKeeps
<1>3. CASE StartTransport BY <1>3, StartTransportKeeps
<1>4. CASE SwitchTransport BY <1>4, SwitchTransportKeeps
<1>5. CASE WriteLands BY <1>5, WriteLandsKeeps
<1>6. CASE PublishLands BY <1>6, PublishLandsKeeps
<1>7. CASE PublishFails BY <1>7, PublishFailsKeeps
<1>8. CASE KillApp BY <1>8, KillAppKeeps
<1>9. CASE FetchLost \/ FlushDirectory \/ KillRelay BY <1>9, RelayKeeps
<1>10. ASSUME NEW p \in Peer, FetchBundle(p) PROVE PrekeyInv' BY <1>10, FetchBundleKeeps
<1>11. ASSUME NEW p \in Peer, HandleKnown(p) PROVE PrekeyInv' BY <1>11, HandleKnownKeeps
<1>12. ASSUME NEW p \in Peer, HandleNew(p) PROVE PrekeyInv' BY <1>12, HandleNewKeeps
<1>13. ASSUME NEW id \in 0 .. fresh, HandleUnopened(id) PROVE PrekeyInv' BY <1>13, HandleUnopenedKeeps
<1>14. CASE WriteFails BY <1>14, WriteFailsKeeps
<1> QED BY <1>1, <1>2, <1>3, <1>4, <1>5, <1>6, <1>7, <1>8, <1>9, <1>10, <1>11, <1>12, <1>13, <1>14 DEF Next

\* A step that changes nothing keeps it too.
LEMMA StutterKeeps ==
    ASSUME PrekeyInv, UNCHANGED vars
    PROVE  PrekeyInv'
<1>1. /\ UNCHANGED <<app, directory, saved, bundle, fresh>>
      /\ UNCHANGED <<restarts, history>>
  BY DEF vars, bounds
<1>2. UNCHANGED <<account, sessions, contacts, storage, writes, requests, phase, replenish>>
  BY <1>1 DEF app
<1>3. \A e \in Offered' : e \in Offered BY <1>1, <1>2 DEF Offered
<1>4. ShapeInv' BY <1>1, <1>2 DEF PrekeyInv, ShapeInv, history
<1> QED BY <1>1, <1>3, <1>4, RelayStepKeeps

\* The account, its copies in the storage and on the way there, and the prekeys
\* on offer agree in every state: the inductive invariant of the other theorems.
THEOREM Invariance == Spec => []PrekeyInv
<1>1. Init => PrekeyInv
  <2> SUFFICES ASSUME Init PROVE PrekeyInv OBVIOUS
  <2>1. /\ account = None /\ storage.account = None /\ writes = <<>> /\ requests = <<>>
        /\ phase = "down" /\ replenish = "idle" /\ directory = None /\ saved = None
        /\ restarts = 0 /\ fresh = 0 /\ uses = {} /\ sessions = {} /\ contacts = {}
        /\ storage = [account |-> None, sessions |-> {}, contacts |-> {}]
        /\ \A p \in Peer : bundle[p] = None
    BY DEF Init
  <2>2. Offered = {}
    BY <2>1 DEF Offered, InRequests, InDirectory, InBundles
  <2>3. AccountWrites = {} /\ ReplenishesIn(requests) = {}
    BY <2>1 DEF AccountWrites, AccountsIn, ReplenishesIn
  <2>4. Copies = {} BY <2>1, <2>3 DEF Copies
  <2>5. ShapeInv BY <2>1 DEF Init, ShapeInv
  <2>6. FreshInv BY <2>1, <2>2, <2>4 DEF FreshInv, Known
  <2>7. WritesInv BY <2>1, <2>2, <2>3 DEF WritesInv
  <2>8. RequestsInv BY <2>1, <2>3 DEF RequestsInv
  <2>9. FitsInv /\ KeptInv BY <2>2 DEF FitsInv, KeptInv
  <2>10. NeverKilledInv BY <2>1 DEF NeverKilledInv
  <2>11. UsesInv BY <2>1 DEF UsesInv, OneSessionPerPrekey
  <2>12. ContactsInv /\ SessionsInv BY <2>1 DEF ContactsInv, SessionsInv, ContactsIn
  <2> QED BY <2>5, <2>6, <2>7, <2>8, <2>9, <2>10, <2>11, <2>12 DEF PrekeyInv
<1>2. PrekeyInv /\ [Next]_vars => PrekeyInv' BY NextKeeps, StutterKeeps
<1> QED BY <1>1, <1>2, PTL DEF Spec

\* identity.rs: a one-time prekey opens one session, whatever the relay hands out
\* twice, unless a kill of the app undid the first.
THEOREM UsedOnce == Spec => []OneSessionPerPrekey
<1>1. PrekeyInv => OneSessionPerPrekey BY DEF PrekeyInv, UsesInv
<1> QED BY <1>1, Invariance, PTL

\* What the relay may hand out is in the account that a restart would find, or
\* was used: replenish stores before it publishes.
THEOREM PublishedNeverLost == Spec => []PublishedSurvive
<1>1. ASSUME PrekeyInv PROVE PublishedSurvive
  <2> SUFFICES ASSUME NEW d \in {directory, saved} \ {None},
                      NEW e \in SeqElements(d.one_time), e.key \notin exposed
               PROVE  e \in Entries(Durable.one_time_prekeys) \/ Spent(e.key)
    BY DEF PublishedSurvive
  <2>1. e \in Offered BY DEF Offered, InDirectory
  <2>2. storage.account # None BY <1>1, <2>1 DEF PrekeyInv, WritesInv
  <2>3. CASE phase # "down"
    <3>1. Held \in Copies /\ GoodAccount(account) BY <1>1, <2>3, HeldUnchanged DEF PrekeyInv, ShapeInv
    <3>2. e \in Held.one_time_prekeys \/ Spent(e.key) BY <1>1, <2>1, <3>1 DEF PrekeyInv, KeptInv
    <3>3. CASE account # None
      <4>1. Durable = account BY <3>3 DEF Durable
      <4> QED BY <3>2, <4>1 DEF Held, ToBytes
    <3>4. CASE account = None
      <4>2. storage.account \in Copies BY <2>2 DEF Copies
      <4>3. GoodBytes(storage.account) BY <1>1, <4>2 DEF PrekeyInv, FreshInv
      <4>4. ToBytes(FromBytes(storage.account)) = storage.account BY <4>3, FromBytesGood
      <4>5. Durable = FromBytes(storage.account) BY <2>2, <3>4 DEF Durable
      <4>6. Entries(Durable.one_time_prekeys) = storage.account.one_time_prekeys
        BY <4>4, <4>5 DEF ToBytes
      <4> QED BY <1>1, <2>1, <4>2, <4>6 DEF PrekeyInv, KeptInv
    <3> QED BY <3>3, <3>4
  <2>4. CASE phase = "down"
    <3>1. account = None BY <1>1, <2>4 DEF PrekeyInv, ShapeInv
    <3>2. storage.account \in Copies BY <2>2 DEF Copies
    <3>3. GoodBytes(storage.account) BY <1>1, <3>2 DEF PrekeyInv, FreshInv
    <3>4. ToBytes(FromBytes(storage.account)) = storage.account BY <3>3, FromBytesGood
    <3>5. Durable = FromBytes(storage.account) BY <2>2, <3>1 DEF Durable
    <3>6. Entries(Durable.one_time_prekeys) = storage.account.one_time_prekeys
      BY <3>4, <3>5 DEF ToBytes
    <3> QED BY <1>1, <2>1, <3>2, <3>6 DEF PrekeyInv, KeptInv
  <2> QED BY <2>3, <2>4
<1> QED BY <1>1, Invariance, PTL

\* Ids are never given again: a handshake meets other material only under an id
\* that was exposed by a change of the transport.
THEOREM IdsNeverReused == Spec => []MismatchOnlyIfExposed
<1>1. ASSUME PrekeyInv PROVE MismatchOnlyIfExposed
  <2> SUFFICES ASSUME NEW p \in Peer, Waiting(p), HoldsId(account, bundle[p].opk),
                      ~Agrees(account, bundle[p].opk), bundle[p].opk.key \notin exposed
               PROVE  FALSE
    BY DEF MismatchOnlyIfExposed
  <2> DEFINE opk == bundle[p].opk
             x == [id |-> opk.id, key |-> account.one_time_prekeys[opk.id]]
  <2>1. phase = "running" /\ bundle[p] # None BY DEF Waiting
  <2>2. opk # None /\ account.one_time_prekeys[opk.id] # opk.key BY DEF Agrees
  <2>3. x \in Held.one_time_prekeys /\ x.id = opk.id /\ x.key # opk.key BY <2>2, HeldEntry
  <2>4. opk \in Offered BY <1>1, <2>1, <2>2, BundleOffered
  <2>5. Held \in Copies BY <1>1, <2>1, HeldUnchanged
  <2> HIDE DEF x, opk
  <2>6. Fits(opk, Held) BY <1>1, <2>4, <2>5 DEF PrekeyInv, FitsInv, opk
  <2> QED BY <2>3, <2>6 DEF Fits
<1> QED BY <1>1, Invariance, PTL

\* A first message is refused only because its prekey was used up, or lost with a
\* kill of the app: by another peer's session, by a message that did not open, by
\* a publication before the write, or by the loss of the peer's own session.
THEOREM RefusalNeedsTaking == Spec => []RefusedOnlyIfTaken
<1>1. ASSUME PrekeyInv PROVE RefusedOnlyIfTaken
  <2> SUFFICES ASSUME NEW p \in Peer, Refused(p)
               PROVE  \/ bundle[p].opk.key \in burned
                      \/ \E q \in Peer \ {p} : <<q, bundle[p].opk.key>> \in uses
                      \/ bundle[p].opk.key \in exposed /\ restarts > 0
                      \/ <<p, bundle[p].opk.key>> \in uses /\ p \in lost
    BY DEF RefusedOnlyIfTaken
  <2> DEFINE opk == bundle[p].opk
  <2>1. phase = "running" /\ bundle[p] # None /\ p \notin sessions /\ ~HoldsId(account, opk)
    BY DEF Refused, Waiting
  <2>2. opk # None /\ opk.id \notin DOMAIN account.one_time_prekeys BY <2>1 DEF HoldsId
  <2>3. opk \in Offered BY <1>1, <2>1, <2>2, BundleOffered
  <2>4. opk \notin Held.one_time_prekeys
    <3> SUFFICES ASSUME opk \in Held.one_time_prekeys PROVE FALSE OBVIOUS
    <3>1. opk \in Entries(account.one_time_prekeys) BY DEF Held, ToBytes
    <3>2. PICK i \in DOMAIN account.one_time_prekeys :
             opk = [id |-> i, key |-> account.one_time_prekeys[i]]
      BY <3>1 DEF Entries
    <3>3. opk.id = i BY <3>2
    <3> QED BY <2>2, <3>3
  <2> HIDE DEF opk
  <2>5. CASE Spent(opk.key)
    <3>1. CASE opk.key \in burned BY <3>1 DEF opk
    <3>2. CASE Used(opk.key)
      <4>1. PICK q \in Peer : <<q, opk.key>> \in uses BY <3>2 DEF Used
      <4>2. <<q, opk.key>>[1] \in sessions \cup lost BY <1>1, <2>1, <4>1 DEF PrekeyInv, SessionsInv
      <4>3. q # p \/ p \in lost BY <2>1, <4>2
      <4> QED BY <4>1, <4>3 DEF opk
    <3> QED BY <2>5, <3>1, <3>2 DEF Spent
  <2>6. CASE ~Spent(opk.key)
    <3>1. Held \in Copies BY <1>1, <2>1, HeldUnchanged
    <3>2. opk.key \in exposed BY <1>1, <2>3, <2>4, <2>6, <3>1 DEF PrekeyInv, KeptInv
    <3>3. restarts # 0 BY <1>1, <2>1, <2>3, <2>4, <2>6 DEF PrekeyInv, NeverKilledInv
    <3>4. restarts > 0 BY <1>1, <3>3 DEF PrekeyInv, ShapeInv
    <3> QED BY <3>2, <3>4 DEF opk
  <2> QED BY <2>5, <2>6
<1> QED BY <1>1, Invariance, PTL
=============================================================================
