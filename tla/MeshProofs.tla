----------------------------- MODULE MeshProofs -----------------------------
(***************************************************************************)
(* Theorems about Mesh, for every set of phones, every meeting graph, every *)
(* ttl, and every size of the two indices.                                 *)
(***************************************************************************)
EXTENDS Mesh, TLAPS, FiniteSetTheorems, SequenceTheorems, WellFoundedInduction

-----------------------------------------------------------------------------
(* Facts about numbers and about sequences without repetitions.            *)

\* A non-empty set of natural numbers has a smallest element: the induction
\* the proofs below use.
LEMMA SmallestNumber ==
    ASSUME NEW S \in SUBSET Nat, S # {}
    PROVE  \E m \in S : \A k \in S : m <= k
<1>1. IsWellFoundedOn(OpToRel(<, Nat), Nat)
  BY NatLessThanWellFounded
<1>2. PICK m \in S : \A y \in S : ~(<<y, m>> \in OpToRel(<, Nat))
  BY <1>1, WFMin
<1>3. \A k \in S : ~(k < m)
  BY <1>2 DEF OpToRel
<1> QED BY <1>3

\* No element occurs twice.
Distinct(s) == \A i, j \in 1 .. Len(s) : s[i] = s[j] => i = j

\* A new element keeps a sequence without repetitions.
LEMMA AppendDistinct ==
    ASSUME NEW T, NEW s \in Seq(T), NEW x \in T, Distinct(s), x \notin Elements(s)
    PROVE  /\ Append(s, x) \in Seq(T)
           /\ Len(Append(s, x)) = Len(s) + 1
           /\ Elements(Append(s, x)) = Elements(s) \cup {x}
           /\ Distinct(Append(s, x))
<1> DEFINE t == Append(s, x)
<1>1. /\ t \in Seq(T) /\ Len(t) = Len(s) + 1 /\ t[Len(s) + 1] = x /\ Len(s) \in Nat
      /\ \A i \in 1 .. Len(s) : t[i] = s[i]
  OBVIOUS
<1> HIDE DEF t
<1>2. \A i \in 1 .. Len(t) : i \in 1 .. Len(s) \/ i = Len(s) + 1
  BY <1>1
<1>3. Elements(t) = Elements(s) \cup {x}
  BY <1>1, <1>2 DEF Elements
<1>4. Distinct(t)
  BY <1>1, <1>2 DEF Distinct, Elements
<1> QED BY <1>1, <1>3, <1>4 DEF t

\* So does dropping the head, which takes exactly that element away.
LEMMA TailDistinct ==
    ASSUME NEW T, NEW s \in Seq(T), s # <<>>, Distinct(s)
    PROVE  /\ Tail(s) \in Seq(T)
           /\ Len(Tail(s)) = Len(s) - 1
           /\ Elements(Tail(s)) = Elements(s) \ {Head(s)}
           /\ Distinct(Tail(s))
<1> DEFINE t == Tail(s)
<1>1. /\ t \in Seq(T) /\ Len(t) = Len(s) - 1 /\ Len(s) \in Nat \ {0} /\ Head(s) = s[1]
      /\ \A i \in 1 .. Len(t) : t[i] = s[i + 1]
  OBVIOUS
<1> HIDE DEF t
<1>2. /\ \A i \in 1 .. Len(t) : i + 1 \in 1 .. Len(s) /\ i + 1 # 1
      /\ \A i \in 1 .. Len(s) : i # 1 => i - 1 \in 1 .. Len(t) /\ (i - 1) + 1 = i
  BY <1>1
<1>3. Elements(t) = Elements(s) \ {Head(s)}
  <2>1. ASSUME NEW i \in 1 .. Len(t)
        PROVE  t[i] \in Elements(s) \ {Head(s)}
    BY <1>1, <1>2 DEF Elements, Distinct
  <2>2. ASSUME NEW i \in 1 .. Len(s), s[i] # Head(s)
        PROVE  s[i] \in Elements(t)
    <3>1. i # 1
      BY <1>1, <2>2
    <3>2. i - 1 \in 1 .. Len(t) /\ t[i - 1] = s[i]
      BY <1>1, <1>2, <3>1
    <3> QED BY <3>2 DEF Elements
  <2> QED BY <2>1, <2>2 DEF Elements
<1>4. Distinct(t)
  <2> SUFFICES ASSUME NEW i \in 1 .. Len(t), NEW j \in 1 .. Len(t), t[i] = t[j]
               PROVE  i = j
    BY DEF Distinct
  <2>1. i + 1 = j + 1
    BY <1>1, <1>2 DEF Distinct
  <2> QED BY <1>1, <2>1
<1> QED BY <1>1, <1>3, <1>4 DEF t

\* Such a sequence is as long as the set of its elements.
LEMMA DistinctCounts ==
    ASSUME NEW T, NEW s \in Seq(T), Distinct(s)
    PROVE  IsFiniteSet(Elements(s)) /\ Cardinality(Elements(s)) = Len(s)
<1>1. Len(s) \in Nat /\ s \in [1 .. Len(s) -> Elements(s)]
  <2>1. Len(s) \in Nat /\ s \in [1 .. Len(s) -> T]
    OBVIOUS
  <2>2. \A i \in 1 .. Len(s) : s[i] \in Elements(s)
    BY DEF Elements
  <2> QED BY <2>1, <2>2
<1>2. s \in Bijection(1 .. Len(s), Elements(s))
  <2>1. \A x \in Elements(s) : \E i \in 1 .. Len(s) : s[i] = x
    BY DEF Elements
  <2>2. DOMAIN s = 1 .. Len(s) /\ \A i, j \in DOMAIN s : s[i] = s[j] => i = j
    BY <1>1 DEF Distinct
  <2> QED BY <1>1, <2>1, <2>2 DEF Bijection, Injection, Surjection, IsInjective
<1>3. ExistsBijection(1 .. Len(s), Elements(s))
  BY <1>2 DEF ExistsBijection
<1> QED BY <1>1, <1>3, FS_NatBijection, FS_CountingElements

\* An index of a node, bounded by cap, after one more element: the sequence
\* stays without repetitions and within the cap, and holds what it held and
\* the new element, less the evicted one.
LEMMA PushIndex ==
    ASSUME NEW T, NEW s \in Seq(T), Distinct(s), NEW x \in T,
           NEW cap \in Nat \ {0}, Len(s) <= cap
    PROVE  LET order == IF x \in Elements(s) THEN s ELSE Append(s, x)
               full == Len(order) > cap
               t == IF full THEN Tail(order) ELSE order
           IN  /\ t \in Seq(T) /\ Distinct(t) /\ Len(t) <= cap
               /\ Elements(t) = (Elements(s) \cup {x}) \ (IF full THEN {Head(order)} ELSE {})
               /\ Elements(order) = Elements(s) \cup {x}
               /\ order \in Seq(T) /\ Distinct(order)
<1> DEFINE order == IF x \in Elements(s) THEN s ELSE Append(s, x)
<1>1. /\ order \in Seq(T) /\ Distinct(order)
      /\ Elements(order) = Elements(s) \cup {x}
      /\ Len(order) <= cap + 1
  <2>1. CASE x \in Elements(s)
    BY <2>1
  <2>2. CASE x \notin Elements(s)
    BY <2>2, AppendDistinct
  <2> QED BY <2>1, <2>2
<1>2. Len(order) > cap => /\ Tail(order) \in Seq(T) /\ Len(Tail(order)) <= cap
                          /\ Elements(Tail(order)) = Elements(order) \ {Head(order)}
                          /\ Distinct(Tail(order))
  <2> HIDE DEF order
  <2> SUFFICES ASSUME Len(order) > cap
               PROVE  /\ Tail(order) \in Seq(T) /\ Len(Tail(order)) <= cap
                      /\ Elements(Tail(order)) = Elements(order) \ {Head(order)}
                      /\ Distinct(Tail(order))
    OBVIOUS
  <2>1. order # <<>>
    OBVIOUS
  <2>2. /\ Tail(order) \in Seq(T) /\ Len(Tail(order)) = Len(order) - 1
        /\ Elements(Tail(order)) = Elements(order) \ {Head(order)}
        /\ Distinct(Tail(order))
    BY <1>1, <2>1, TailDistinct
  <2> QED BY <1>1, <2>2
<1> HIDE DEF order
<1>3. Len(order) \in Nat
  BY <1>1
<1> QED BY <1>1, <1>2, <1>3 DEF order

-----------------------------------------------------------------------------
(* The hop distance of a meeting graph.                                    *)

\* The set and everyone it meets.
Spread(S) == S \cup UNION {Peers(m) : m \in S}

\* f counts the balls around n up to k hops.
IsBalls(f, n, k) ==
    f = [i \in 0 .. k |-> IF i = 0 THEN {n} ELSE f[i - 1] \cup UNION {Peers(m) : m \in f[i - 1]}]

\* There are such balls.
LEMMA BallsExist ==
    ASSUME NEW n, NEW k \in Nat
    PROVE  \E f : IsBalls(f, n, k)
<1> DEFINE Bad == {j \in Nat : ~\E f : IsBalls(f, n, j)}
<1>1. ASSUME Bad # {}
      PROVE  FALSE
  <2>1. PICK j \in Bad : \A i \in Bad : j <= i
    BY <1>1, SmallestNumber
  <2>2. j # 0
    <3> DEFINE f == [i \in 0 .. 0 |-> {n}]
    <3>1. IsBalls(f, n, 0)
      BY DEF IsBalls
    <3> QED BY <2>1, <3>1
  <2>3. PICK f : IsBalls(f, n, j - 1)
    BY <2>1, <2>2
  <2> DEFINE g == [i \in 0 .. j |-> IF i = j THEN Spread(f[j - 1]) ELSE f[i]]
  <2>4. \A i \in 0 .. (j - 1) : f[i] = IF i = 0 THEN {n} ELSE Spread(f[i - 1])
    BY <2>1, <2>2, <2>3 DEF IsBalls, Spread
  <2>5. \A i \in 0 .. j : g[i] = IF i = 0 THEN {n} ELSE Spread(g[i - 1])
    <3> SUFFICES ASSUME NEW i \in 0 .. j
                 PROVE  g[i] = IF i = 0 THEN {n} ELSE Spread(g[i - 1])
      OBVIOUS
    <3>1. CASE i = j
      <4>1. g[j] = Spread(f[j - 1]) /\ g[j - 1] = f[j - 1]
        BY <2>1, <2>2
      <4> QED BY <2>2, <3>1, <4>1
    <3>2. CASE i # j
      <4>1. i \in 0 .. (j - 1) /\ g[i] = f[i] /\ (i # 0 => g[i - 1] = f[i - 1])
        BY <2>1, <3>2
      <4> QED BY <2>4, <4>1
    <3> QED BY <3>1, <3>2
  <2>6. g = [i \in 0 .. j |-> g[i]]
    OBVIOUS
  <2> HIDE DEF g
  <2>7. IsBalls(g, n, j)
    BY <2>5, <2>6 DEF IsBalls, Spread
  <2> QED BY <2>1, <2>7
<1> QED BY <1>1

\* Within(n, k) is the last of them.
LEMMA WithinIsLast ==
    ASSUME NEW n, NEW k \in Nat
    PROVE  \E f : IsBalls(f, n, k) /\ Within(n, k) = f[k]
<1> DEFINE ball == CHOOSE f : IsBalls(f, n, k)
<1>1. IsBalls(ball, n, k)
  BY BallsExist
<1>2. Within(n, k) = ball[k]
  BY DEF Within, IsBalls
<1> QED BY <1>1, <1>2

\* Balls do not depend on how far they are counted.
LEMMA BallsAgree ==
    ASSUME NEW n, NEW k \in Nat, NEW l \in Nat, k <= l,
           NEW f, IsBalls(f, n, k), NEW g, IsBalls(g, n, l)
    PROVE  \A i \in 0 .. k : f[i] = g[i]
<1> DEFINE Bad == {i \in 0 .. k : f[i] # g[i]}
<1>1. /\ \A i \in 0 .. k : f[i] = IF i = 0 THEN {n} ELSE Spread(f[i - 1])
      /\ \A i \in 0 .. l : g[i] = IF i = 0 THEN {n} ELSE Spread(g[i - 1])
  BY DEF IsBalls, Spread
<1>2. ASSUME Bad # {}
      PROVE  FALSE
  <2>1. Bad \in SUBSET Nat
    OBVIOUS
  <2>2. PICK i \in Bad : \A j \in Bad : i <= j
    BY <1>2, <2>1, SmallestNumber
  <2>3. i \in 0 .. k /\ i \in 0 .. l
    OBVIOUS
  <2>4. i # 0
    BY <1>1, <2>2, <2>3
  <2>5. f[i - 1] = g[i - 1]
    BY <2>2, <2>3, <2>4
  <2>6. f[i] = Spread(f[i - 1]) /\ g[i] = Spread(g[i - 1])
    BY <1>1, <2>3, <2>4
  <2> QED BY <2>2, <2>5, <2>6
<1> QED BY <1>2

\* No hop reaches the origin only; each further hop spreads to those met.
LEMMA WithinSteps ==
    ASSUME NEW n, NEW k \in Nat
    PROVE  Within(n, 0) = {n} /\ Within(n, k + 1) = Spread(Within(n, k))
<1>1. PICK e : IsBalls(e, n, 0) /\ Within(n, 0) = e[0]
  BY WithinIsLast
<1>2. PICK f : IsBalls(f, n, k) /\ Within(n, k) = f[k]
  BY WithinIsLast
<1>3. k + 1 \in Nat
  OBVIOUS
<1>4. PICK g : IsBalls(g, n, k + 1) /\ Within(n, k + 1) = g[k + 1]
  BY <1>3, WithinIsLast
<1>5. f[k] = g[k]
  BY <1>2, <1>4, BallsAgree
<1>6. e[0] = {n}
  BY <1>1 DEF IsBalls
<1>7. g[k + 1] = Spread(g[k])
  <2>1. k + 1 \in 0 .. (k + 1) /\ k + 1 # 0 /\ (k + 1) - 1 = k
    OBVIOUS
  <2> QED BY <1>4, <2>1 DEF IsBalls, Spread
<1> QED BY <1>1, <1>2, <1>4, <1>5, <1>6, <1>7

\* More hops reach more.
LEMMA WithinGrows ==
    ASSUME NEW n, NEW k \in Nat, NEW l \in Nat, k <= l
    PROVE  Within(n, k) \subseteq Within(n, l)
<1> DEFINE Bad == {j \in Nat : k <= j /\ ~(Within(n, k) \subseteq Within(n, j))}
<1>1. ASSUME Bad # {}
      PROVE  FALSE
  <2>1. PICK j \in Bad : \A i \in Bad : j <= i
    BY <1>1, SmallestNumber
  <2>2. j # k
    BY <2>1
  <2>3. j - 1 \in Nat /\ k <= j - 1 /\ (j - 1) + 1 = j
    BY <2>1, <2>2
  <2>4. Within(n, k) \subseteq Within(n, j - 1)
    BY <2>1, <2>3
  <2>5. Within(n, j) = Spread(Within(n, j - 1))
    BY <2>3, WithinSteps
  <2> QED BY <2>1, <2>4, <2>5 DEF Spread
<1> QED BY <1>1

-----------------------------------------------------------------------------
(* The inductive invariant of the mesh.                                    *)

\* The indices as sequences without repetitions.
IndexInv ==
    \A n \in Node :
        /\ Distinct(seenOrder[n]) /\ Len(seenOrder[n]) <= SEEN_CAP
        /\ seen[n] = Elements(seenOrder[n])
        /\ Distinct(storeOrder[n]) /\ Len(storeOrder[n]) <= STORE_CAP

\* Nothing is known anywhere of a message that was never sent.
SentInv ==
    /\ \A n \in Node : /\ seen[n] \subseteq DOMAIN sent
                       /\ DOMAIN store[n] \subseteq DOMAIN sent
                       /\ accepted[n] \subseteq DOMAIN sent
    /\ \A f \in air : f.id \in DOMAIN sent

\* A frame has come no further than the hops its ttl has lost.
HopsInv ==
    /\ \A n \in Node : \A id \in DOMAIN store[n] :
          n \in Within(sent[id].from, Ttl - store[n][id])
    /\ \A f \in air : f.ttl > 0 /\ f.to \in Within(sent[f.id].from, Ttl - f.ttl + 1)
    /\ TtlBoundsReach

\* While a node can remember every message, it remembers what it accepted and,
\* until a restart, what it sent.
MemoryInv ==
    Len(sent) <= SEEN_CAP =>
        \A n \in Node :
            /\ accepted[n] \subseteq seen[n]
            /\ again[n] = {}
            /\ restarts = 0 => \A id \in DOMAIN sent : sent[id].from = n => id \in seen[n]
            /\ restarts = 0 => \A id \in accepted[n] : sent[id].from # n

IInv ==
    /\ TypeOK
    /\ IndexInv
    /\ SentInv
    /\ HopsInv
    /\ MemoryInv

\* mark_seen keeps the index sound; while every id fits, it forgets none.
LEMMA MarkSeenFacts ==
    ASSUME TypeOK, IndexInv, NEW n \in Node, NEW id \in Ids, MarkSeen(n, id)
    PROVE  /\ seenOrder' \in [Node -> Seq(Ids)] /\ seen' \in [Node -> SUBSET Ids]
           /\ \A m \in Node : m # n => seen'[m] = seen[m] /\ seenOrder'[m] = seenOrder[m]
           /\ Distinct(seenOrder'[n]) /\ Len(seenOrder'[n]) <= SEEN_CAP
           /\ seen'[n] = Elements(seenOrder'[n])
           /\ seen'[n] \subseteq seen[n] \cup {id}
           /\ \A k \in Nat : seen[n] \cup {id} \subseteq 1 .. k /\ k <= SEEN_CAP
                               => seen'[n] = seen[n] \cup {id}
<1> DEFINE s == seenOrder[n]
           order == IF id \in seen[n] THEN s ELSE Append(s, id)
           full == Len(order) > SEEN_CAP
           t == IF full THEN Tail(order) ELSE order
           left == (seen[n] \cup {id}) \ (IF full THEN {Head(order)} ELSE {})
<1>1. /\ s \in Seq(Ids) /\ Distinct(s) /\ Len(s) <= SEEN_CAP /\ seen[n] = Elements(s)
      /\ SEEN_CAP \in Nat \ {0}
  BY MeshAssumption DEF TypeOK, IndexInv
<1>2. /\ t \in Seq(Ids) /\ Distinct(t) /\ Len(t) <= SEEN_CAP
      /\ Elements(t) = left
      /\ Elements(order) = seen[n] \cup {id}
      /\ order \in Seq(Ids) /\ Distinct(order)
  <2> HIDE DEF s
  <2> QED BY <1>1, PushIndex
<1>3. seenOrder' = [seenOrder EXCEPT ![n] = t] /\ seen' = [seen EXCEPT ![n] = left]
  BY DEF MarkSeen
<1>4. left \in SUBSET Ids /\ left \subseteq seen[n] \cup {id}
  BY DEF TypeOK
<1>5. ASSUME NEW k \in Nat, seen[n] \cup {id} \subseteq 1 .. k, k <= SEEN_CAP
      PROVE  left = seen[n] \cup {id}
  <2> HIDE DEF order
  <2>1. Len(order) = Cardinality(seen[n] \cup {id}) /\ Len(order) \in Nat
    <3>1. Cardinality(Elements(order)) = Len(order)
      BY <1>2, DistinctCounts
    <3>2. Len(order) \in Nat
      BY <1>2
    <3> QED BY <1>2, <3>1, <3>2
  <2>2. Cardinality(seen[n] \cup {id}) <= Cardinality(1 .. k) /\ Cardinality(1 .. k) = k
    <3>1. IsFiniteSet(1 .. k) /\ Cardinality(1 .. k) = k
      <4>1. 1 \in Int /\ k \in Int
        OBVIOUS
      <4> QED BY <4>1, FS_Interval
    <3>2. seen[n] \cup {id} \in SUBSET (1 .. k)
      BY <1>5
    <3> QED BY <3>1, <3>2, FS_Subset
  <2>3. ~full
    BY <1>1, <1>5, <2>1, <2>2
  <2> QED BY <2>3
<1> HIDE DEF left, t
<1>6. seen'[n] = left /\ seenOrder'[n] = t
  BY <1>3 DEF TypeOK
<1>7. /\ seenOrder' \in [Node -> Seq(Ids)] /\ seen' \in [Node -> SUBSET Ids]
      /\ \A m \in Node : m # n => seen'[m] = seen[m] /\ seenOrder'[m] = seenOrder[m]
  BY <1>2, <1>3, <1>4 DEF TypeOK
<1> QED BY <1>2, <1>4, <1>5, <1>6, <1>7

\* store_frame keeps its index sound, and writes one entry at most.
LEMMA StoreFrameFacts ==
    ASSUME TypeOK, IndexInv, NEW n \in Node, NEW id \in Ids, NEW ttl \in 1 .. Ttl,
           StoreFrame(n, id, ttl)
    PROVE  /\ storeOrder' \in [Node -> Seq(Ids)] /\ DOMAIN store' = Node
           /\ \A m \in Node : store'[m] \in [Elements(storeOrder'[m]) -> 1 .. Ttl]
           /\ \A m \in Node : m # n => store'[m] = store[m] /\ storeOrder'[m] = storeOrder[m]
           /\ Distinct(storeOrder'[n]) /\ Len(storeOrder'[n]) <= STORE_CAP
           /\ \A i \in DOMAIN store'[n] :
                 /\ i = id => store'[n][i] = ttl
                 /\ i # id => i \in DOMAIN store[n] /\ store'[n][i] = store[n][i]
<1> DEFINE s == storeOrder[n]
           held == id \in DOMAIN store[n]
           order == IF held THEN s ELSE Append(s, id)
           full == Len(order) > STORE_CAP
           t == IF full THEN Tail(order) ELSE order
           D == (DOMAIN store[n] \cup {id}) \ (IF full THEN {Head(order)} ELSE {})
           new == [i \in D |-> IF i = id THEN ttl ELSE store[n][i]]
<1>1. /\ s \in Seq(Ids) /\ Distinct(s) /\ Len(s) <= STORE_CAP /\ DOMAIN store[n] = Elements(s)
      /\ store[n] \in [Elements(s) -> 1 .. Ttl] /\ STORE_CAP \in Nat \ {0}
  BY MeshAssumption DEF TypeOK, IndexInv
<1>2. t \in Seq(Ids) /\ Distinct(t) /\ Len(t) <= STORE_CAP /\ Elements(t) = D
  <2> HIDE DEF s
  <2> QED BY <1>1, PushIndex
<1>3. storeOrder' = [storeOrder EXCEPT ![n] = t] /\ store' = [store EXCEPT ![n] = new]
  BY DEF StoreFrame
<1>4. D \subseteq DOMAIN store[n] \cup {id}
  OBVIOUS
<1> HIDE DEF t, D, s
<1>5. new \in [D -> 1 .. Ttl]
  BY <1>1, <1>4
<1>6. \A i \in DOMAIN new : /\ i = id => new[i] = ttl
                            /\ i # id => i \in DOMAIN store[n] /\ new[i] = store[n][i]
  BY <1>4
<1> HIDE DEF new
<1>7. /\ store'[n] = new /\ storeOrder'[n] = t /\ DOMAIN store' = Node
      /\ storeOrder' \in [Node -> Seq(Ids)]
      /\ \A m \in Node : m # n => store'[m] = store[m] /\ storeOrder'[m] = storeOrder[m]
  BY <1>2, <1>3 DEF TypeOK
<1>8. \A m \in Node : store'[m] \in [Elements(storeOrder'[m]) -> 1 .. Ttl]
  BY <1>2, <1>5, <1>7 DEF TypeOK
<1> QED BY <1>2, <1>6, <1>7, <1>8

\* A broadcast frame is one hop further than its sender.
LEMMA InRangeHops ==
    ASSUME NEW n \in Node, NEW frames, NEW log,
           \A i \in DOMAIN frames : /\ i \in Ids /\ frames[i] \in 1 .. Ttl
                                    /\ n \in Within(log[i].from, Ttl - frames[i])
    PROVE  \A f \in InRange(n, frames) :
              /\ f \in Frame /\ f.id \in DOMAIN frames /\ f.ttl > 0
              /\ f.to \in Within(log[f.id].from, Ttl - f.ttl + 1)
<1> SUFFICES ASSUME NEW f \in InRange(n, frames)
             PROVE  /\ f \in Frame /\ f.id \in DOMAIN frames /\ f.ttl > 0
                    /\ f.to \in Within(log[f.id].from, Ttl - f.ttl + 1)
  OBVIOUS
<1>1. PICK m \in Peers(n), i \in DOMAIN frames : f = [to |-> m, id |-> i, ttl |-> frames[i]]
  BY DEF InRange
<1>2. Ttl \in Nat /\ frames[i] \in 1 .. Ttl /\ m \in Node /\ i \in Ids
  BY MeshAssumption DEF Peers
<1>3. f \in Frame /\ f.ttl > 0
  BY <1>1, <1>2 DEF Frame
<1>4. Ttl - frames[i] \in Nat
  BY <1>2
<1>5. Within(log[i].from, (Ttl - frames[i]) + 1) = Spread(Within(log[i].from, Ttl - frames[i]))
  BY <1>4, WithinSteps
<1>6. m \in Within(log[i].from, (Ttl - frames[i]) + 1)
  BY <1>5 DEF Spread
<1> QED BY <1>1, <1>3, <1>6

\* The new nodes satisfy the invariant.
LEMMA InitIInv == Init => IInv
<1> SUFFICES ASSUME Init
             PROVE  IInv
  OBVIOUS
<1>1. \A n \in Node : /\ seen[n] = {} /\ seenOrder[n] = <<>> /\ store[n] = NoFrames
                      /\ storeOrder[n] = <<>> /\ accepted[n] = {} /\ again[n] = {}
  BY DEF Init
<1>2. Elements(<<>>) = {} /\ Distinct(<<>>)
  BY DEF Elements, Distinct
<1>3. DOMAIN NoFrames = {} /\ NoFrames \in [{} -> 1 .. Ttl]
  BY DEF NoFrames
<1>4. TypeOK
  <2>1. sent \in Seq([from : Node, to : Node]) /\ Len(sent) <= MaxMessages
    BY MeshAssumption DEF Init
  <2>2. /\ seen \in [Node -> SUBSET Ids] /\ seenOrder \in [Node -> Seq(Ids)]
        /\ DOMAIN store = Node /\ storeOrder \in [Node -> Seq(Ids)]
    BY DEF Init
  <2>3. \A n \in Node : store[n] \in [Elements(storeOrder[n]) -> 1 .. Ttl]
    BY <1>1, <1>2, <1>3
  <2>4. /\ air \in SUBSET Frame /\ accepted \in [Node -> SUBSET Ids]
        /\ again \in [Node -> SUBSET Ids] /\ delivered \in [Node -> SUBSET Ids]
        /\ restarts \in Nat
    BY DEF Init
  <2> QED BY <2>1, <2>2, <2>3, <2>4 DEF TypeOK
<1>5. IndexInv
  <2>1. Len(<<>>) <= SEEN_CAP /\ Len(<<>>) <= STORE_CAP
    BY MeshAssumption
  <2>2. \A n \in Node : /\ Distinct(seenOrder[n]) /\ Distinct(storeOrder[n])
                        /\ seen[n] = Elements(seenOrder[n])
    BY <1>1, <1>2, Zenon
  <2>3. \A n \in Node : Len(seenOrder[n]) <= SEEN_CAP /\ Len(storeOrder[n]) <= STORE_CAP
    BY <1>1, <2>1
  <2> QED BY <2>2, <2>3 DEF IndexInv
<1>6. SentInv
  BY <1>1, <1>3 DEF Init, SentInv
<1>7. HopsInv
  BY <1>1, <1>3 DEF Init, HopsInv, TtlBoundsReach
<1>8. MemoryInv
  BY <1>1 DEF Init, MemoryInv
<1> QED BY <1>4, <1>5, <1>6, <1>7, <1>8 DEF IInv

\* _flush: the store goes on the air.
LEMMA RebroadcastIInv ==
    ASSUME IInv, NEW n \in Node, Rebroadcast(n)
    PROVE  IInv'
<1>1. /\ sent' = sent /\ seen' = seen /\ seenOrder' = seenOrder /\ store' = store
      /\ storeOrder' = storeOrder /\ accepted' = accepted /\ again' = again
      /\ delivered' = delivered /\ restarts' = restarts
      /\ air' = air \cup InRange(n, store[n])
  BY DEF Rebroadcast, node, history
<1>2. \A i \in DOMAIN store[n] : /\ i \in Ids /\ store[n][i] \in 1 .. Ttl
                                 /\ n \in Within(sent[i].from, Ttl - store[n][i])
                                 /\ i \in DOMAIN sent
  <2>1. \A i \in DOMAIN store[n] : i \in DOMAIN sent /\ store[n][i] \in 1 .. Ttl
    BY DEF IInv, TypeOK, SentInv
  <2>2. DOMAIN sent \subseteq Ids
    <3>1. Len(sent) \in Nat /\ DOMAIN sent = 1 .. Len(sent) /\ Len(sent) <= MaxMessages
      BY DEF IInv, TypeOK
    <3> QED BY <3>1, MeshAssumption DEF Ids
  <2> QED BY <2>1, <2>2 DEF IInv, HopsInv
<1>3. \A f \in InRange(n, store[n]) :
         /\ f \in Frame /\ f.id \in DOMAIN sent /\ f.ttl > 0
         /\ f.to \in Within(sent[f.id].from, Ttl - f.ttl + 1)
  BY <1>2, InRangeHops
<1>4. TypeOK'
  BY <1>1, <1>3 DEF IInv, TypeOK
<1>5. IndexInv'
  BY <1>1 DEF IInv, IndexInv
<1>6. SentInv'
  BY <1>1, <1>3 DEF IInv, SentInv
<1>7. HopsInv'
  BY <1>1, <1>3 DEF IInv, HopsInv, TtlBoundsReach
<1>8. MemoryInv'
  BY <1>1 DEF IInv, MemoryInv
<1> QED BY <1>4, <1>5, <1>6, <1>7, <1>8 DEF IInv

\* dispose and a new service.
LEMMA RestartIInv ==
    ASSUME IInv, NEW n \in Node, Restart(n)
    PROVE  IInv'
<1>1. /\ sent' = sent /\ air' = air /\ delivered' = delivered
      /\ restarts' = restarts + 1 /\ restarts \in Nat
  BY DEF Restart, IInv, TypeOK
<1>2. /\ seen' \in [Node -> SUBSET Ids] /\ seenOrder' \in [Node -> Seq(Ids)]
      /\ DOMAIN store' = Node /\ storeOrder' \in [Node -> Seq(Ids)]
      /\ accepted' \in [Node -> SUBSET Ids] /\ again' \in [Node -> SUBSET Ids]
  BY DEF Restart, IInv, TypeOK
<1>3. /\ seen'[n] = {} /\ seenOrder'[n] = <<>> /\ store'[n] = NoFrames
      /\ storeOrder'[n] = <<>> /\ accepted'[n] = {} /\ again'[n] = {}
  BY DEF Restart, IInv, TypeOK
<1>4. \A m \in Node : m # n => /\ seen'[m] = seen[m] /\ seenOrder'[m] = seenOrder[m]
                               /\ store'[m] = store[m] /\ storeOrder'[m] = storeOrder[m]
                               /\ accepted'[m] = accepted[m] /\ again'[m] = again[m]
  BY DEF Restart, IInv, TypeOK
<1>5. Elements(<<>>) = {} /\ Distinct(<<>>)
  BY DEF Elements, Distinct
<1>6. DOMAIN NoFrames = {} /\ NoFrames \in [{} -> 1 .. Ttl]
  BY DEF NoFrames
<1>7. TypeOK'
  <2>1. \A m \in Node : store'[m] \in [Elements(storeOrder'[m]) -> 1 .. Ttl]
    BY <1>3, <1>4, <1>5, <1>6 DEF IInv, TypeOK
  <2>2. /\ sent' \in Seq([from : Node, to : Node]) /\ Len(sent') <= MaxMessages
        /\ air' \in SUBSET Frame /\ delivered' \in [Node -> SUBSET Ids]
        /\ restarts' \in Nat
    BY <1>1 DEF IInv, TypeOK
  <2> QED BY <1>2, <2>1, <2>2 DEF TypeOK
<1>8. IndexInv'
  <2>1. Len(<<>>) <= SEEN_CAP /\ Len(<<>>) <= STORE_CAP
    BY MeshAssumption
  <2>2. /\ Distinct(seenOrder'[n]) /\ Distinct(storeOrder'[n])
        /\ seen'[n] = Elements(seenOrder'[n])
    BY <1>3, <1>5, Zenon
  <2>3. Len(seenOrder'[n]) <= SEEN_CAP /\ Len(storeOrder'[n]) <= STORE_CAP
    BY <1>3, <2>1
  <2> QED BY <1>4, <2>2, <2>3 DEF IInv, IndexInv
<1>9. SentInv'
  BY <1>1, <1>3, <1>4, <1>6 DEF IInv, SentInv
<1>10. HopsInv'
  BY <1>1, <1>3, <1>4, <1>6 DEF IInv, HopsInv, TtlBoundsReach
<1>11. MemoryInv'
  BY <1>1, <1>3, <1>4 DEF IInv, MemoryInv
<1> QED BY <1>7, <1>8, <1>9, <1>10, <1>11 DEF IInv

\* MeshService.send.
LEMMA SendIInv ==
    ASSUME IInv, NEW n \in Node, NEW to \in Node \ {n}, Send(n, to)
    PROVE  IInv'
<1> DEFINE id == Len(sent) + 1
           first == [i \in {id} |-> Ttl]
<1>1. /\ TypeOK /\ IndexInv /\ SentInv /\ HopsInv /\ MemoryInv
      /\ Ttl \in Nat \ {0} /\ MaxMessages \in Nat /\ SEEN_CAP \in Nat
  BY MeshAssumption DEF IInv
<1>2. /\ Len(sent) < MaxMessages
      /\ sent' = Append(sent, [from |-> n, to |-> to])
      /\ MarkSeen(n, id) /\ StoreFrame(n, id, Ttl)
      /\ air' = air \cup InRange(n, first)
      /\ accepted' = accepted /\ again' = again /\ delivered' = delivered
      /\ restarts' = restarts
  BY DEF Send, history
<1>3. /\ sent' \in Seq([from : Node, to : Node]) /\ Len(sent) \in Nat
      /\ Len(sent') = id /\ DOMAIN sent = 1 .. Len(sent) /\ DOMAIN sent' = 1 .. id
      /\ sent'[id].from = n /\ \A i \in DOMAIN sent : sent'[i] = sent[i]
  <2>1. sent \in Seq([from : Node, to : Node]) /\ [from |-> n, to |-> to] \in [from : Node, to : Node]
    BY <1>1 DEF TypeOK
  <2> QED BY <1>2, <2>1
<1>4. id \in Ids /\ id \in Nat /\ id \notin DOMAIN sent /\ DOMAIN sent' = DOMAIN sent \cup {id}
      /\ id <= MaxMessages
  BY <1>1, <1>2, <1>3 DEF Ids
<1> HIDE DEF id
<1>5. /\ seenOrder' \in [Node -> Seq(Ids)] /\ seen' \in [Node -> SUBSET Ids]
      /\ \A m \in Node : m # n => seen'[m] = seen[m] /\ seenOrder'[m] = seenOrder[m]
      /\ Distinct(seenOrder'[n]) /\ Len(seenOrder'[n]) <= SEEN_CAP
      /\ seen'[n] = Elements(seenOrder'[n])
      /\ seen'[n] \subseteq seen[n] \cup {id}
      /\ \A k \in Nat : seen[n] \cup {id} \subseteq 1 .. k /\ k <= SEEN_CAP
                          => seen'[n] = seen[n] \cup {id}
  BY <1>1, <1>2, <1>4, MarkSeenFacts
<1>6. /\ storeOrder' \in [Node -> Seq(Ids)] /\ DOMAIN store' = Node
      /\ \A m \in Node : store'[m] \in [Elements(storeOrder'[m]) -> 1 .. Ttl]
      /\ \A m \in Node : m # n => store'[m] = store[m] /\ storeOrder'[m] = storeOrder[m]
      /\ Distinct(storeOrder'[n]) /\ Len(storeOrder'[n]) <= STORE_CAP
      /\ \A i \in DOMAIN store'[n] :
            /\ i = id => store'[n][i] = Ttl
            /\ i # id => i \in DOMAIN store[n] /\ store'[n][i] = store[n][i]
  <2>1. Ttl \in 1 .. Ttl
    BY <1>1
  <2> QED BY <1>1, <1>2, <1>4, <2>1, StoreFrameFacts
<1>7. n \in Within(n, 0) /\ Ttl - Ttl = 0
  <2>1. Within(n, 0) = {n}
    BY WithinSteps
  <2> QED BY <1>1, <2>1
<1>8. \A f \in InRange(n, first) :
         /\ f \in Frame /\ f.id = id /\ f.ttl > 0
         /\ f.to \in Within(sent'[f.id].from, Ttl - f.ttl + 1)
  <2>1. \A i \in DOMAIN first : /\ i \in Ids /\ first[i] \in 1 .. Ttl
                                /\ n \in Within(sent'[i].from, Ttl - first[i])
    BY <1>1, <1>3, <1>4, <1>7
  <2>2. DOMAIN first = {id}
    OBVIOUS
  <2> HIDE DEF first
  <2> QED BY <2>1, <2>2, InRangeHops
<1> HIDE DEF first
<1>9. TypeOK'
  BY <1>1, <1>2, <1>3, <1>4, <1>5, <1>6, <1>8 DEF TypeOK
<1>10. IndexInv'
  BY <1>1, <1>5, <1>6 DEF IndexInv
<1>11. SentInv'
  <2>1. \A m \in Node : seen'[m] \subseteq DOMAIN sent'
    BY <1>1, <1>4, <1>5 DEF SentInv
  <2>2. \A m \in Node : DOMAIN store'[m] \subseteq DOMAIN sent'
    BY <1>1, <1>4, <1>6 DEF SentInv
  <2>3. \A m \in Node : accepted'[m] \subseteq DOMAIN sent'
    BY <1>1, <1>2, <1>4 DEF SentInv
  <2>4. \A f \in air' : f.id \in DOMAIN sent'
    BY <1>1, <1>2, <1>4, <1>8 DEF SentInv
  <2> QED BY <2>1, <2>2, <2>3, <2>4 DEF SentInv
<1>12. HopsInv'
  <2>1. ASSUME NEW m \in Node, NEW i \in DOMAIN store'[m]
        PROVE  m \in Within(sent'[i].from, Ttl - store'[m][i])
    <3>1. CASE m = n /\ i = id
      BY <1>3, <1>6, <1>7, <2>1, <3>1
    <3>2. CASE ~(m = n /\ i = id)
      <4>1. i \in DOMAIN store[m] /\ store'[m][i] = store[m][i]
        BY <1>6, <2>1, <3>2
      <4>2. i \in DOMAIN sent /\ m \in Within(sent[i].from, Ttl - store[m][i])
        BY <1>1, <4>1 DEF SentInv, HopsInv
      <4> QED BY <1>3, <4>1, <4>2
    <3> QED BY <3>1, <3>2
  <2>2. ASSUME NEW f \in air'
        PROVE  f.ttl > 0 /\ f.to \in Within(sent'[f.id].from, Ttl - f.ttl + 1)
    <3>1. CASE f \in air
      BY <1>1, <1>3, <3>1 DEF SentInv, HopsInv
    <3> QED BY <1>2, <1>8, <3>1
  <2>3. ASSUME NEW m \in Node, NEW i \in seen'[m]
        PROVE  m \in Within(sent'[i].from, Ttl)
    <3>1. CASE i \in seen[m]
      BY <1>1, <1>3, <3>1 DEF SentInv, HopsInv, TtlBoundsReach
    <3>2. CASE i \notin seen[m]
      <4>1. m = n /\ i = id
        BY <1>5, <2>3, <3>2
      <4>2. Within(n, 0) \subseteq Within(n, Ttl)
        BY <1>1, WithinGrows
      <4> QED BY <1>3, <1>7, <4>1, <4>2
    <3> QED BY <3>1, <3>2
  <2> QED BY <2>1, <2>2, <2>3 DEF HopsInv, TtlBoundsReach
<1>13. MemoryInv'
  <2> SUFFICES ASSUME id <= SEEN_CAP, NEW m \in Node
               PROVE  /\ accepted'[m] \subseteq seen'[m]
                      /\ again'[m] = {}
                      /\ restarts' = 0 => \A i \in DOMAIN sent' : sent'[i].from = m => i \in seen'[m]
                      /\ restarts' = 0 => \A i \in accepted'[m] : sent'[i].from # m
    BY <1>3 DEF MemoryInv
  <2>1. Len(sent) <= SEEN_CAP
    BY <1>1, <1>3 DEF id
  <2>2. /\ accepted[m] \subseteq seen[m] /\ again[m] = {}
        /\ restarts = 0 => \A i \in DOMAIN sent : sent[i].from = m => i \in seen[m]
        /\ restarts = 0 => \A i \in accepted[m] : sent[i].from # m
    BY <1>1, <2>1 DEF MemoryInv
  <2>3. seen'[m] = IF m = n THEN seen[m] \cup {id} ELSE seen[m]
    <3>1. seen[n] \cup {id} \subseteq 1 .. id
      BY <1>1, <1>3, <1>4 DEF SentInv
    <3> QED BY <1>4, <1>5, <3>1
  <2>4. accepted[m] \subseteq DOMAIN sent
    BY <1>1 DEF SentInv
  <2> QED BY <1>2, <1>3, <1>4, <2>2, <2>3, <2>4
<1> QED BY <1>9, <1>10, <1>11, <1>12, <1>13 DEF IInv

\* MeshService._onFrame of a new frame.
LEMMA OnFrameIInv ==
    ASSUME IInv, NEW f \in air, OnFrame(f)
    PROVE  IInv'
<1> DEFINE n == f.to
           id == f.id
           ttl == ForwardTtl(f.ttl)
<1>1. /\ TypeOK /\ IndexInv /\ SentInv /\ HopsInv /\ MemoryInv
      /\ Ttl \in Nat \ {0} /\ SEEN_CAP \in Nat
  BY MeshAssumption DEF IInv
<1>2. /\ n \in Node /\ id \in Ids /\ id \in DOMAIN sent
      /\ f.ttl \in 1 .. Ttl /\ ttl = f.ttl - 1
      /\ n \in Within(sent[id].from, Ttl - ttl)
  <2>1. f \in Frame /\ f.ttl > 0 /\ id \in DOMAIN sent
        /\ n \in Within(sent[id].from, Ttl - f.ttl + 1)
    BY <1>1 DEF TypeOK, SentInv, HopsInv
  <2>2. n \in Node /\ id \in Ids /\ f.ttl \in 1 .. Ttl
    BY <1>1, <2>1 DEF Frame
  <2>3. ttl = f.ttl - 1
    BY <2>2 DEF ForwardTtl
  <2>4. Ttl - f.ttl + 1 = Ttl - ttl
    BY <1>1, <2>2, <2>3
  <2> QED BY <2>1, <2>2, <2>3, <2>4
<1>3. /\ id \notin seen[n] /\ MarkSeen(n, id)
      /\ ttl > 0 => StoreFrame(n, id, ttl)
      /\ ~(ttl > 0) => store' = store /\ storeOrder' = storeOrder
      /\ accepted' = [accepted EXCEPT ![n] = @ \cup {id}]
      /\ again' = [again EXCEPT ![n] = @ \cup ({id} \cap accepted[n])]
      /\ delivered' = delivered \/ delivered' = [delivered EXCEPT ![n] = @ \cup {id}]
      /\ sent' = sent /\ air' = air /\ restarts' = restarts
  BY DEF OnFrame, IsNew
<1> HIDE DEF n, id, ttl
<1>4. /\ seenOrder' \in [Node -> Seq(Ids)] /\ seen' \in [Node -> SUBSET Ids]
      /\ \A m \in Node : m # n => seen'[m] = seen[m] /\ seenOrder'[m] = seenOrder[m]
      /\ Distinct(seenOrder'[n]) /\ Len(seenOrder'[n]) <= SEEN_CAP
      /\ seen'[n] = Elements(seenOrder'[n])
      /\ seen'[n] \subseteq seen[n] \cup {id}
      /\ \A k \in Nat : seen[n] \cup {id} \subseteq 1 .. k /\ k <= SEEN_CAP
                          => seen'[n] = seen[n] \cup {id}
  BY <1>1, <1>2, <1>3, MarkSeenFacts
<1>5. /\ storeOrder' \in [Node -> Seq(Ids)] /\ DOMAIN store' = Node
      /\ \A m \in Node : store'[m] \in [Elements(storeOrder'[m]) -> 1 .. Ttl]
      /\ \A m \in Node : Distinct(storeOrder'[m]) /\ Len(storeOrder'[m]) <= STORE_CAP
      /\ \A m \in Node : \A i \in DOMAIN store'[m] :
            \/ m = n /\ i = id /\ store'[m][i] = ttl
            \/ i \in DOMAIN store[m] /\ store'[m][i] = store[m][i]
  <2>1. CASE ttl > 0
    <3>1. ttl \in 1 .. Ttl
      BY <1>1, <1>2, <2>1
    <3>2. /\ storeOrder' \in [Node -> Seq(Ids)] /\ DOMAIN store' = Node
          /\ \A m \in Node : store'[m] \in [Elements(storeOrder'[m]) -> 1 .. Ttl]
          /\ \A m \in Node : m # n => store'[m] = store[m] /\ storeOrder'[m] = storeOrder[m]
          /\ Distinct(storeOrder'[n]) /\ Len(storeOrder'[n]) <= STORE_CAP
          /\ \A i \in DOMAIN store'[n] :
                /\ i = id => store'[n][i] = ttl
                /\ i # id => i \in DOMAIN store[n] /\ store'[n][i] = store[n][i]
      BY <1>1, <1>2, <1>3, <2>1, <3>1, StoreFrameFacts
    <3>3. \A m \in Node : Distinct(storeOrder'[m]) /\ Len(storeOrder'[m]) <= STORE_CAP
      BY <1>1, <3>2 DEF IndexInv
    <3>4. \A m \in Node : \A i \in DOMAIN store'[m] :
            \/ m = n /\ i = id /\ store'[m][i] = ttl
            \/ i \in DOMAIN store[m] /\ store'[m][i] = store[m][i]
      BY <3>2
    <3> QED BY <3>2, <3>3, <3>4
  <2>2. CASE ~(ttl > 0)
    BY <1>1, <1>3, <2>2 DEF TypeOK, IndexInv
  <2> QED BY <2>1, <2>2
<1>6. /\ accepted' \in [Node -> SUBSET Ids] /\ again' \in [Node -> SUBSET Ids]
      /\ delivered' \in [Node -> SUBSET Ids]
      /\ \A m \in Node : m # n => accepted'[m] = accepted[m] /\ again'[m] = again[m]
      /\ accepted'[n] = accepted[n] \cup {id}
      /\ again'[n] = again[n] \cup ({id} \cap accepted[n])
  <2>1. /\ accepted \in [Node -> SUBSET Ids] /\ again \in [Node -> SUBSET Ids]
        /\ delivered \in [Node -> SUBSET Ids]
    BY <1>1 DEF TypeOK
  <2>2. \A g \in [Node -> SUBSET Ids] : [g EXCEPT ![n] = @ \cup {id}] \in [Node -> SUBSET Ids]
    BY <1>2
  <2>3. delivered' \in [Node -> SUBSET Ids] /\ accepted' \in [Node -> SUBSET Ids]
    BY <1>3, <2>1, <2>2
  <2>4. again' \in [Node -> SUBSET Ids]
    BY <1>2, <1>3, <2>1
  <2>5. /\ \A m \in Node : m # n => accepted'[m] = accepted[m] /\ again'[m] = again[m]
        /\ accepted'[n] = accepted[n] \cup {id}
        /\ again'[n] = again[n] \cup ({id} \cap accepted[n])
    BY <1>2, <1>3, <2>1
  <2> QED BY <2>3, <2>4, <2>5
<1>7. TypeOK'
  BY <1>1, <1>3, <1>4, <1>5, <1>6 DEF TypeOK
<1>8. IndexInv'
  BY <1>1, <1>4, <1>5 DEF IndexInv
<1>9. SentInv'
  <2>1. \A m \in Node : seen'[m] \subseteq DOMAIN sent
    BY <1>1, <1>2, <1>4 DEF SentInv
  <2>2. \A m \in Node : DOMAIN store'[m] \subseteq DOMAIN sent
    BY <1>1, <1>2, <1>5 DEF SentInv
  <2>3. \A m \in Node : accepted'[m] \subseteq DOMAIN sent
    BY <1>1, <1>2, <1>6 DEF SentInv
  <2> QED BY <1>1, <1>3, <2>1, <2>2, <2>3 DEF SentInv
<1>10. HopsInv'
  <2>1. ASSUME NEW m \in Node, NEW i \in DOMAIN store'[m]
        PROVE  m \in Within(sent[i].from, Ttl - store'[m][i])
    <3>1. CASE m = n /\ i = id /\ store'[m][i] = ttl
      BY <1>2, <3>1
    <3>2. CASE i \in DOMAIN store[m] /\ store'[m][i] = store[m][i]
      BY <1>1, <3>2 DEF HopsInv
    <3> QED BY <1>5, <2>1, <3>1, <3>2
  <2>2. ASSUME NEW m \in Node, NEW i \in seen'[m]
        PROVE  m \in Within(sent[i].from, Ttl)
    <3>1. CASE i \in seen[m]
      BY <1>1, <3>1 DEF HopsInv, TtlBoundsReach
    <3>2. CASE i \notin seen[m]
      <4>1. m = n /\ i = id
        BY <1>4, <2>2, <3>2
      <4>2. Ttl - ttl \in Nat /\ Ttl - ttl <= Ttl
        BY <1>1, <1>2
      <4>3. Within(sent[id].from, Ttl - ttl) \subseteq Within(sent[id].from, Ttl)
        BY <1>1, <4>2, WithinGrows
      <4> QED BY <1>2, <4>1, <4>3
    <3> QED BY <3>1, <3>2
  <2> QED BY <1>1, <1>3, <2>1, <2>2 DEF HopsInv, TtlBoundsReach
<1>11. MemoryInv'
  <2> SUFFICES ASSUME Len(sent) <= SEEN_CAP, NEW m \in Node
               PROVE  /\ accepted'[m] \subseteq seen'[m]
                      /\ again'[m] = {}
                      /\ restarts = 0 => \A i \in DOMAIN sent : sent[i].from = m => i \in seen'[m]
                      /\ restarts = 0 => \A i \in accepted'[m] : sent[i].from # m
    BY <1>3 DEF MemoryInv
  <2>1. /\ accepted[m] \subseteq seen[m] /\ again[m] = {}
        /\ restarts = 0 => \A i \in DOMAIN sent : sent[i].from = m => i \in seen[m]
        /\ restarts = 0 => \A i \in accepted[m] : sent[i].from # m
    BY <1>1 DEF MemoryInv
  <2>2. seen'[m] = IF m = n THEN seen[m] \cup {id} ELSE seen[m]
    <3>1. seen[n] \cup {id} \subseteq 1 .. Len(sent) /\ Len(sent) \in Nat
      <4>1. Len(sent) \in Nat /\ DOMAIN sent = 1 .. Len(sent)
        BY <1>1 DEF TypeOK
      <4> QED BY <1>1, <1>2, <4>1 DEF SentInv
    <3> QED BY <1>4, <3>1
  <2>3. CASE m = n
    BY <1>2, <1>3, <1>6, <2>1, <2>2, <2>3
  <2>4. CASE m # n
    BY <1>6, <2>1, <2>2, <2>4
  <2> QED BY <2>3, <2>4
<1> QED BY <1>7, <1>8, <1>9, <1>10, <1>11 DEF IInv

\* No step of any phone leaves the inductive invariant.
LEMMA NextIInv == IInv /\ [Next]_vars => IInv'
<1> SUFFICES ASSUME IInv, [Next]_vars
             PROVE  IInv'
  OBVIOUS
<1>1. ASSUME NEW n \in Node, NEW to \in Node \ {n}, Send(n, to)
      PROVE  IInv'
  BY <1>1, SendIInv
<1>2. ASSUME NEW f \in air, OnFrame(f)
      PROVE  IInv'
  BY <1>2, OnFrameIInv
<1>3. ASSUME NEW n \in Node, Rebroadcast(n)
      PROVE  IInv'
  BY <1>3, RebroadcastIInv
<1>4. ASSUME NEW n \in Node, Restart(n)
      PROVE  IInv'
  BY <1>4, RestartIInv
<1>5. CASE UNCHANGED vars
  <2>1. /\ sent' = sent /\ seen' = seen /\ seenOrder' = seenOrder /\ store' = store
        /\ storeOrder' = storeOrder /\ air' = air /\ accepted' = accepted
        /\ again' = again /\ delivered' = delivered /\ restarts' = restarts
    BY <1>5 DEF vars, node, history
  <2>2. TypeOK' /\ IndexInv' /\ SentInv'
    BY <2>1 DEF IInv, TypeOK, IndexInv, SentInv
  <2>3. HopsInv' /\ MemoryInv'
    BY <2>1 DEF IInv, HopsInv, MemoryInv, TtlBoundsReach
  <2> QED BY <2>2, <2>3 DEF IInv
<1> QED BY <1>1, <1>2, <1>3, <1>4, <1>5 DEF Next

\* Every reachable state of the mesh satisfies the inductive invariant.
THEOREM Invariance == Spec => []IInv
<1>1. Init => IInv
  BY InitIInv
<1>2. IInv /\ [Next]_vars => IInv'
  BY NextIInv
<1> QED BY <1>1, <1>2, PTL DEF Spec

-----------------------------------------------------------------------------
(* What the invariant gives.                                               *)

\* Type correctness: no frame, ttl or index of a MeshNode leaves its type; in
\* particular a frame that is carried always has a hop left.
THEOREM TypeCorrect == Spec => []TypeOK
<1>1. IInv => TypeOK
  BY DEF IInv
<1> QED BY Invariance, <1>1, PTL

\* The hash set and the queue of each of a node's two indices hold the same
\* ids, each once, within SEEN_CAP and STORE_CAP, whatever floods in.
THEOREM IndicesStayConsistent == Spec => []IndicesAgree
<1>1. IInv => IndicesAgree
  <2> SUFFICES ASSUME IInv, NEW n \in Node
               PROVE  /\ Len(seenOrder[n]) <= SEEN_CAP
                      /\ seen[n] = Elements(seenOrder[n])
                      /\ Cardinality(seen[n]) = Len(seenOrder[n])
                      /\ Len(storeOrder[n]) <= STORE_CAP
                      /\ DOMAIN store[n] = Elements(storeOrder[n])
                      /\ Cardinality(DOMAIN store[n]) = Len(storeOrder[n])
    BY DEF IndicesAgree
  <2>1. /\ seenOrder[n] \in Seq(Ids) /\ storeOrder[n] \in Seq(Ids)
        /\ DOMAIN store[n] = Elements(storeOrder[n])
    BY DEF IInv, TypeOK
  <2>2. /\ Distinct(seenOrder[n]) /\ Len(seenOrder[n]) <= SEEN_CAP
        /\ seen[n] = Elements(seenOrder[n])
        /\ Distinct(storeOrder[n]) /\ Len(storeOrder[n]) <= STORE_CAP
    BY DEF IInv, IndexInv
  <2>3. /\ Cardinality(Elements(seenOrder[n])) = Len(seenOrder[n])
        /\ Cardinality(Elements(storeOrder[n])) = Len(storeOrder[n])
    BY <2>1, <2>2, DistinctCounts
  <2> QED BY <2>1, <2>2, <2>3
<1> QED BY Invariance, <1>1, PTL

\* No phone further than Ttl meetings from the origin of a frame ever handles
\* it, on any meeting graph, through evictions, overwritten copies and restarts.
THEOREM TtlAlwaysBounds == Spec => []TtlBoundsReach
<1>1. IInv => TtlBoundsReach
  BY DEF IInv, HopsInv
<1> QED BY Invariance, <1>1, PTL

\* While the messages sent fit SEEN_CAP, a node accepts a frame once between
\* two restarts and never one of its own.
THEOREM ProcessedOnce == Spec => []ProcessedOnceWithinCap
<1>1. IInv => ProcessedOnceWithinCap
  BY DEF IInv, MemoryInv, ProcessedOnceWithinCap
<1> QED BY Invariance, <1>1, PTL
=============================================================================
