----------------------------- MODULE GroupProofs -----------------------------
(***************************************************************************)
(* Theorems about Group, for every set of clients and any number of calls: *)
(* who can read a message, and when the members can split.                 *)
(***************************************************************************)
EXTENDS Group, TLAPS, SequenceTheorems, FiniteSetTheorems, WellFoundedInduction

\* A ratchet tree: every member has one leaf.
GoodTree(tree) ==
    /\ DOMAIN tree \subseteq Leaf
    /\ Members(tree) \subseteq Client
    /\ \A l, k \in DOMAIN tree : tree[l] = tree[k] => l = k

\* A client that can use its group is a member of it.
GoodHandle(c, h) ==
    /\ h = [epoch |-> h.epoch, active |-> h.active, sent |-> h.sent, opened |-> h.opened]
    /\ h.active \in BOOLEAN
    /\ GoodTree(h.epoch.tree)
    /\ h.active => c \in Members(h.epoch.tree)

GroupType ==
    /\ handle = [c \in Client |-> handle[c]]
    /\ exported = [c \in Client |-> exported[c]]
    /\ expected = [c \in Client |-> expected[c]]
    /\ packages \in [Client -> SUBSET Nat]
    /\ minted \in [Client -> Nat]
    /\ calls \in Nat

\* The caller of every client knows the members of its group, unless misled.
HandlesInv ==
    \A c \in Client : handle[c] # None =>
        /\ GoodHandle(c, handle[c])
        /\ c \notin misled => expected[c] = Members(handle[c].epoch.tree)

\* An index that was looked up was the member's leaf in its epoch.
LookedInv ==
    /\ looked = [c \in Client |-> looked[c]]
    /\ \A c \in Client : looked[c] # None => looked[c].epoch.tree[looked[c].index] = looked[c].who

ExportedInv ==
    \A c \in Client : exported[c] # None =>
        /\ exported[c].handle # None => GoodHandle(c, exported[c].handle)
        /\ exported[c].packages \in SUBSET Nat

\* A welcome leads to an epoch with its receiver in it, and a message is meant
\* for the members of its epoch, unless its sender was misled.
NetInv ==
    \A m \in net :
        /\ m.kind \in {"commit", "welcome"} => GoodTree(m.to.tree)
        /\ m.kind = "commit" => m.by \in Client
        /\ m.kind = "welcome" => /\ m.who \in Client /\ m.who \in Members(m.to.tree)
                                 /\ m.kp \in 1 .. minted[m.who]
        /\ m.kind = "application" => m.misled \/ m.audience = Members(m.epoch.tree)

ReadInv ==
    /\ GroupType
    /\ HandlesInv
    /\ LookedInv
    /\ ExportedInv
    /\ NetInv
    /\ calls = 0 => net = {}
    /\ ReadOnlyByAudience

-----------------------------------------------------------------------------
\* A nonempty set of naturals has a smallest element.
LEMMA SmallestNumber ==
    ASSUME NEW S \in SUBSET Nat, S # {}
    PROVE  \E m \in S : \A k \in S : m <= k
<1>1. IsWellFoundedOn(OpToRel(<, Nat), Nat)
  BY NatLessThanWellFounded
<1>2. PICK m \in S : \A y \in S : ~(<<y, m>> \in OpToRel(<, Nat))
  BY <1>1, WFMin
<1>3. \A k \in S : ~(k < m)
  BY <1>2 DEF OpToRel
<1> QED BY <1>3

\* There are as many leaves as clients: a tree that lacks a client has a blank
\* leaf, and the addition takes one.
LEMMA LeftmostBlankIsBlank ==
    ASSUME NEW tree, GoodTree(tree), NEW who \in Client, who \notin Members(tree)
    PROVE  LeftmostBlank(tree) \in Leaf \ DOMAIN tree
<1> DEFINE N == Cardinality(Client)
           B == Leaf \ DOMAIN tree
<1>1. IsFiniteSet(Client) /\ N \in Nat
  BY GroupAssumption, FS_CardinalityType
<1>2. N # 0
  BY <1>1, FS_EmptySet
<1>3. IsFiniteSet(Leaf) /\ Cardinality(Leaf) = N
  <2>1. 0 \in Int /\ N - 1 \in Int /\ ~(0 > N - 1) BY <1>1, <1>2
  <2>2. IsFiniteSet(0 .. (N - 1)) /\ Cardinality(0 .. (N - 1)) = IF 0 > N - 1 THEN 0 ELSE (N - 1) - 0 + 1
    BY <2>1, FS_Interval
  <2> QED BY <1>1, <2>1, <2>2 DEF Leaf
<1>4. IsFiniteSet(Client \ {who}) /\ Cardinality(Client \ {who}) = N - 1
  BY <1>1, FS_RemoveElement
<1>5. B # {}
  <2> SUFFICES ASSUME Leaf \subseteq DOMAIN tree PROVE FALSE
    OBVIOUS
  <2> DEFINE f == [l \in Leaf |-> tree[l]]
  <2>1. f \in [Leaf -> Client \ {who}]
    BY DEF GoodTree, Members, Range
  <2>2. N - 1 < N BY <1>1
  <2> HIDE DEF f, N
  <2>3. \E x, y \in Leaf : x # y /\ f[x] = f[y]
    BY <1>3, <1>4, <2>1, <2>2, FS_PigeonHole
  <2> QED BY <2>3 DEF f, GoodTree
<1>6. B \in SUBSET Nat
  BY <1>1 DEF Leaf
<1>7. \E l \in B : \A k \in B : l <= k
  BY <1>5, <1>6, SmallestNumber
<1> QED BY <1>7 DEF LeftmostBlank

\* An addition adds its member and nobody else.
LEMMA WithMemberGood ==
    ASSUME NEW tree, GoodTree(tree), NEW who \in Client, who \notin Members(tree)
    PROVE  /\ GoodTree(WithMember(tree, who))
           /\ Members(WithMember(tree, who)) = Members(tree) \cup {who}
<1> DEFINE b == LeftmostBlank(tree)
           t == WithMember(tree, who)
<1>1. b \in Leaf /\ b \notin DOMAIN tree
  BY LeftmostBlankIsBlank
<1>2. DOMAIN t = DOMAIN tree \cup {b} /\ t[b] = who /\ \A l \in DOMAIN tree : t[l] = tree[l]
  BY <1>1 DEF WithMember
<1> HIDE DEF b, t
<1>3. \A l \in DOMAIN tree : tree[l] \in Client /\ tree[l] # who
  BY DEF GoodTree, Members, Range
<1>4. Members(t) = Members(tree) \cup {who}
  BY <1>2 DEF Members, Range
<1>5. GoodTree(t)
  BY <1>1, <1>2, <1>3, <1>4 DEF GoodTree
<1> QED BY <1>4, <1>5 DEF t

\* A removal takes out the member in that leaf and nobody else.
LEMMA WithoutLeafGood ==
    ASSUME NEW tree, GoodTree(tree), NEW leaf \in DOMAIN tree
    PROVE  /\ GoodTree(WithoutLeaf(tree, leaf))
           /\ Members(WithoutLeaf(tree, leaf)) = Members(tree) \ {tree[leaf]}
<1> DEFINE t == WithoutLeaf(tree, leaf)
<1>2. DOMAIN t = DOMAIN tree \ {leaf} /\ \A l \in DOMAIN t : t[l] = tree[l]
  BY DEF WithoutLeaf
<1> HIDE DEF t
<1>3. \A l \in DOMAIN tree \ {leaf} : tree[l] # tree[leaf]
  BY DEF GoodTree
<1>4. Members(t) = Members(tree) \ {tree[leaf]}
  BY <1>2, <1>3 DEF Members, Range
<1>5. GoodTree(t)
  BY <1>2, <1>4 DEF GoodTree
<1> QED BY <1>4, <1>5 DEF t

\* A handle in an epoch that has the client as a member.
LEMMA FreshGood ==
    ASSUME NEW c, NEW e, GoodTree(e.tree), c \in Members(e.tree)
    PROVE  GoodHandle(c, Fresh(e)) /\ Fresh(e).epoch = e
BY DEF GoodHandle, Fresh

\* Giving a client a good handle, and telling its caller of the members.
LEMMA HandleReplaced ==
    ASSUME GroupType, HandlesInv, NEW c \in Client, NEW h, NEW e,
           handle' = [handle EXCEPT ![c] = h], expected' = [expected EXCEPT ![c] = e],
           misled \ {c} \subseteq misled',
           h # None => GoodHandle(c, h) /\ (c \notin misled' => e = Members(h.epoch.tree))
    PROVE  /\ HandlesInv'
           /\ handle' = [d \in Client |-> handle'[d]]
           /\ expected' = [d \in Client |-> expected'[d]]
           /\ handle'[c] = h
           /\ \A d \in Client \ {c} : handle'[d] = handle[d]
BY DEF GroupType, HandlesInv

\* What a commit of c that leads to e puts on the net.
CommitBlobs(new, c, e) ==
    \A m \in new : \/ m = Commit(c, e)
                   \/ \E who \in Client : \E kp \in 1 .. minted[who] :
                         /\ m = [kind |-> "welcome", who |-> who, kp |-> kp, to |-> e]
                         /\ who \in Members(e.tree)

\* A commit sent to the group.
LEMMA NetGrows ==
    ASSUME NetInv, minted' = minted, NEW c \in Client, NEW e, GoodTree(e.tree), NEW new,
           CommitBlobs(new, c, e),
           net' = net \cup new
    PROVE  NetInv'
<1> SUFFICES ASSUME NEW m \in net'
             PROVE  /\ m.kind \in {"commit", "welcome"} => GoodTree(m.to.tree)
                    /\ m.kind = "commit" => m.by \in Client
                    /\ m.kind = "welcome" => /\ m.who \in Client /\ m.who \in Members(m.to.tree)
                                             /\ m.kp \in 1 .. minted[m.who]
                    /\ m.kind = "application" => m.misled \/ m.audience = Members(m.epoch.tree)
  BY DEF NetInv
<1>1. CASE m \in net
  BY <1>1 DEF NetInv
<1>2. CASE m = Commit(c, e)
  <2>1. m.kind = "commit" /\ m.to = e /\ m.by = c BY <1>2 DEF Commit
  <2> QED BY <2>1
<1>3. CASE \E who \in Client : \E kp \in 1 .. minted[who] :
              /\ m = [kind |-> "welcome", who |-> who, kp |-> kp, to |-> e]
              /\ who \in Members(e.tree)
  <2>0. PICK who \in Client : \E kp \in 1 .. minted[who] :
              /\ m = [kind |-> "welcome", who |-> who, kp |-> kp, to |-> e]
              /\ who \in Members(e.tree)
    BY <1>3
  <2>1. PICK kp \in 1 .. minted[who] :
              /\ m = [kind |-> "welcome", who |-> who, kp |-> kp, to |-> e]
              /\ who \in Members(e.tree)
    BY <2>0
  <2>2. m.kind = "welcome" /\ m.to = e /\ m.who = who /\ m.kp = kp
    BY <2>1
  <2> QED BY <2>1, <2>2
<1> QED BY <1>1, <1>2, <1>3 DEF CommitBlobs

\* A commit of c: its own handle moves, and the blobs go out.
LEMMA CommitReadInv ==
    ASSUME ReadInv, NEW c \in Client, NEW e, NEW who, NEW new,
           GoodTree(e.tree), c \in Members(e.tree), Called,
           misled \subseteq misled', c \notin misled' => who = Members(e.tree),
           CommitBlobs(new, c, e),
           net' = net \cup new,
           handle' = [handle EXCEPT ![c] = MergeOwn(c, e)], Knows(c, who),
           UNCHANGED <<packages, minted, exported, looked, reads>>
    PROVE  ReadInv'
<1>1. HandlesInv' /\ handle' = [d \in Client |-> handle'[d]] /\ expected' = [d \in Client |-> expected'[d]]
  BY FreshGood, HandleReplaced DEF ReadInv, MergeOwn, Knows
<1>2. NetInv'
  BY NetGrows DEF ReadInv
<1>3. GroupType'
  BY <1>1 DEF ReadInv, GroupType, Called
<1>4. ExportedInv' /\ LookedInv' /\ ReadOnlyByAudience'
  BY DEF ReadInv, ExportedInv, LookedInv, ReadOnlyByAudience
<1>5. calls' # 0
  BY DEF ReadInv, GroupType, Called
<1> QED BY <1>1, <1>2, <1>3, <1>4, <1>5 DEF ReadInv

\* Steps of one client that send no commit and use up no call's blobs.
LEMMA LocalReadInv ==
    ASSUME ReadInv, NEW c \in Client, NEW h, NEW e,
           handle' = [handle EXCEPT ![c] = h], expected' = [expected EXCEPT ![c] = e],
           h # None => GoodHandle(c, h) /\ (c \notin misled' => e = Members(h.epoch.tree)),
           misled \ {c} \subseteq misled', LookedInv',
           packages' \in [Client -> SUBSET Nat], calls' \in Nat, calls' = 0 => calls = 0,
           UNCHANGED <<minted, exported, net, reads>>
    PROVE  ReadInv'
<1>1. HandlesInv' /\ handle' = [d \in Client |-> handle'[d]] /\ expected' = [d \in Client |-> expected'[d]]
  BY HandleReplaced DEF ReadInv
<1>2. NetInv' /\ (calls' = 0 => net' = {})
  BY DEF ReadInv, NetInv
<1>3. GroupType'
  BY <1>1 DEF ReadInv, GroupType
<1>4. ExportedInv' /\ ReadOnlyByAudience'
  BY DEF ReadInv, ExportedInv, ReadOnlyByAudience
<1> QED BY <1>1, <1>2, <1>3, <1>4 DEF ReadInv

\* The invariant is inductive.
LEMMA ReadInvStep ==
    ASSUME ReadInv, [Next]_vars
    PROVE  ReadInv'
<1>1. CASE CreateGroup
  <2> DEFINE e == [commits |-> <<>>, tree |-> [l \in {0} |-> Creator]]
  <2>1. GoodTree(e.tree) /\ Creator \in Members(e.tree) /\ Members(e.tree) = {Creator}
    <3>1. Cardinality(Client) \in Nat /\ Cardinality(Client) # 0
      BY GroupAssumption, FS_CardinalityType, FS_EmptySet
    <3>2. 0 \in Leaf BY <3>1 DEF Leaf
    <3>3. DOMAIN e.tree = {0} /\ e.tree[0] = Creator OBVIOUS
    <3>4. Members(e.tree) = {Creator} BY <3>3 DEF Members, Range
    <3> HIDE DEF e
    <3> QED BY <3>2, <3>3, <3>4, GroupAssumption DEF GoodTree
  <2>2. handle' = [handle EXCEPT ![Creator] = Fresh(e)] /\ expected' = [expected EXCEPT ![Creator] = {Creator}]
    BY <1>1 DEF CreateGroup
  <2>3. UNCHANGED <<packages, minted, exported, net, calls, looked, misled, reads>>
    BY <1>1 DEF CreateGroup
  <2> HIDE DEF e
  <2>4. packages' \in [Client -> SUBSET Nat] /\ calls' \in Nat /\ calls' = calls /\ LookedInv'
    BY <2>3 DEF ReadInv, GroupType, LookedInv
  <2> QED BY <2>1, <2>2, <2>3, <2>4, FreshGood, LocalReadInv, GroupAssumption
<1>2. ASSUME NEW c \in Client, KeyPackage(c) PROVE ReadInv'
  <2>1. GroupType' /\ calls' # 0 BY <1>2 DEF KeyPackage, Called, ReadInv, GroupType
  <2>2. HandlesInv' /\ LookedInv' /\ ExportedInv' /\ ReadOnlyByAudience'
    BY <1>2 DEF KeyPackage, ReadInv, HandlesInv, LookedInv, ExportedInv, ReadOnlyByAudience
  <2>3. \A d \in Client : \A k \in 1 .. minted[d] : k \in 1 .. minted'[d]
    BY <1>2 DEF KeyPackage, ReadInv, GroupType
  <2>4. NetInv' BY <1>2, <2>3 DEF KeyPackage, ReadInv, NetInv
  <2> QED BY <2>1, <2>2, <2>4 DEF ReadInv
<1>3. ASSUME NEW c \in Client, NEW who \in Client, NEW kp, AddMember(c, who, kp) PROVE ReadInv'
  <2> DEFINE tree == handle[c].epoch.tree
             to == Successor(c, WithMember(tree, who))
             new == {Commit(c, to), [kind |-> "welcome", who |-> who, kp |-> kp, to |-> to]}
  <2>1. /\ GoodTree(tree) /\ c \in Members(tree) /\ who \notin Members(tree)
        /\ c \notin misled => expected[c] = Members(tree)
    BY <1>3 DEF AddMember, Active, ReadInv, HandlesInv, GoodHandle
  <2>2. to.tree = WithMember(tree, who) BY DEF Successor
  <2>3. GoodTree(to.tree) /\ Members(to.tree) = Members(tree) \cup {who}
    BY <2>1, <2>2, WithMemberGood
  <2>4. /\ Called /\ kp \in 1 .. minted[who] /\ net' = net \cup new
        /\ handle' = [handle EXCEPT ![c] = MergeOwn(c, to)] /\ Knows(c, expected[c] \cup {who})
        /\ UNCHANGED <<packages, minted, exported, looked, misled, reads>>
    BY <1>3 DEF AddMember
  <2>5. CommitBlobs(new, c, to)
    <3> HIDE DEF to
    <3> QED BY <2>3, <2>4 DEF CommitBlobs
  <2> HIDE DEF to, new, tree
  <2>6. c \in Members(to.tree) /\ (c \notin misled => expected[c] \cup {who} = Members(to.tree))
    BY <2>1, <2>3
  <2> QED BY <2>3, <2>4, <2>5, <2>6, CommitReadInv
<1>4. ASSUME NEW c \in Client, NEW who \in Client, LookUp(c, who) PROVE ReadInv'
  <2> DEFINE tree == handle[c].epoch.tree
             x == [who |-> who, index |-> MemberIndex(tree, who), epoch |-> handle[c].epoch]
  <2>1. who \in Members(tree) /\ looked' = [looked EXCEPT ![c] = x]
    BY <1>4 DEF LookUp
  <2>2. tree[MemberIndex(tree, who)] = who
    <3> HIDE DEF tree
    <3>1. \E l \in DOMAIN tree : tree[l] = who BY <2>1 DEF Members, Range
    <3> QED BY <3>1 DEF MemberIndex
  <2>3. x.epoch.tree = tree /\ x.index = MemberIndex(tree, who) /\ x.who = who OBVIOUS
  <2> HIDE DEF x
  <2>4. LookedInv' BY <2>1, <2>2, <2>3 DEF ReadInv, LookedInv
  <2>5. /\ Called
        /\ UNCHANGED <<handle, packages, minted, exported, net, expected, misled, reads>>
    BY <1>4 DEF LookUp
  <2> QED
    BY <2>4, <2>5 DEF Called, ReadInv, GroupType, HandlesInv, ExportedInv, NetInv, ReadOnlyByAudience
<1>5. ASSUME NEW c \in Client, RemoveMember(c) PROVE ReadInv'
  <2> DEFINE leaf == looked[c].index
             tree == handle[c].epoch.tree
             to == Successor(c, WithoutLeaf(tree, leaf))
             new == {Commit(c, to)}
  <2>1. /\ GoodTree(tree) /\ c \in Members(tree) /\ leaf \in DOMAIN tree /\ tree[leaf] # c
        /\ c \notin misled => expected[c] = Members(tree)
    BY <1>5 DEF RemoveMember, Active, ReadInv, HandlesInv, GoodHandle
  <2>1a. misled' = IF WrongLeaf(c) THEN misled \cup {c} ELSE misled
    BY <1>5 DEF RemoveMember
  <2>1b. ~WrongLeaf(c) => tree[leaf] = looked[c].who
    BY <1>5 DEF RemoveMember, WrongLeaf, ReadInv, LookedInv
  <2>2. to.tree = WithoutLeaf(tree, leaf) BY DEF Successor
  <2>3. GoodTree(to.tree) /\ Members(to.tree) = Members(tree) \ {tree[leaf]}
    BY <2>1, <2>2, WithoutLeafGood
  <2>4. /\ Called /\ net' = net \cup new
        /\ handle' = [handle EXCEPT ![c] = MergeOwn(c, to)] /\ Knows(c, expected[c] \ {looked[c].who})
        /\ UNCHANGED <<packages, minted, exported, looked, reads>>
    BY <1>5 DEF RemoveMember
  <2>5. CommitBlobs(new, c, to)
    BY DEF CommitBlobs
  <2> HIDE DEF to, new, tree, leaf
  <2>6. c \in Members(to.tree) BY <2>1, <2>3
  <2>7. /\ misled \subseteq misled'
        /\ c \notin misled' => expected[c] \ {looked[c].who} = Members(to.tree)
    BY <2>1, <2>1a, <2>1b, <2>3
  <2> QED BY <2>3, <2>4, <2>5, <2>6, <2>7, CommitReadInv
<1>6. ASSUME NEW c \in Client, JoinGroup(c) PROVE ReadInv'
  <2>1. PICK m \in net :
          /\ m.kind = "welcome" /\ m.who = c
          /\ packages' = [packages EXCEPT ![c] = @ \ {m.kp}]
          /\ handle' = [handle EXCEPT ![c] = Fresh(m.to)]
          /\ Learns(c, Members(m.to.tree))
          /\ UNCHANGED <<minted, exported, net, calls, looked, reads>>
    BY <1>6 DEF JoinGroup
  <2>2. GoodTree(m.to.tree) /\ c \in Members(m.to.tree) BY <2>1 DEF ReadInv, NetInv
  <2>3. packages' \in [Client -> SUBSET Nat] /\ calls' \in Nat /\ calls' = calls /\ LookedInv'
    BY <2>1 DEF ReadInv, GroupType, LookedInv
  <2>4. GoodHandle(c, Fresh(m.to)) /\ Fresh(m.to).epoch = m.to BY <2>2, FreshGood
  <2>5. expected' = [expected EXCEPT ![c] = Members(m.to.tree)] /\ misled' = misled \ {c}
    BY <2>1 DEF Learns, Knows
  <2> QED BY <2>1, <2>3, <2>4, <2>5, LocalReadInv
<1>7. ASSUME NEW c \in Client, SendMessage(c) PROVE ReadInv'
  <2> DEFINE a == [kind |-> "application", by |-> c, epoch |-> handle[c].epoch,
                   generation |-> handle[c].sent, id |-> calls + 1, audience |-> expected[c],
                   misled |-> c \in misled]
             h == Sent(handle[c])
  <2>1. /\ handle[c] # None /\ GoodHandle(c, handle[c])
        /\ c \notin misled => expected[c] = Members(handle[c].epoch.tree)
        /\ net' = net \cup {a} /\ handle' = [handle EXCEPT ![c] = h] /\ Called
        /\ UNCHANGED <<packages, minted, exported, looked, expected, misled, reads>>
    BY <1>7 DEF SendMessage, Active, ReadInv, HandlesInv
  <2>2. GoodHandle(c, h) /\ h.epoch = handle[c].epoch
    <3>1. h = [handle[c] EXCEPT !.sent = handle[c].sent + 1] BY DEF Sent
    <3>2. handle[c] = [epoch |-> handle[c].epoch, active |-> handle[c].active,
                       sent |-> handle[c].sent, opened |-> handle[c].opened]
      BY <2>1 DEF GoodHandle
    <3>3. /\ h = [epoch |-> handle[c].epoch, active |-> handle[c].active,
                   sent |-> handle[c].sent + 1, opened |-> handle[c].opened]
      BY <3>1, <3>2
    <3>4. h.epoch = handle[c].epoch /\ h.active = handle[c].active BY <3>3
    <3>5. h = [epoch |-> h.epoch, active |-> h.active, sent |-> h.sent, opened |-> h.opened]
      BY <3>3
    <3> HIDE DEF h
    <3> QED BY <2>1, <3>4, <3>5 DEF GoodHandle
  <2>3. a.kind = "application" /\ (a.misled \/ a.audience = Members(a.epoch.tree)) BY <2>1
  <2> HIDE DEF h, a
  <2>4. expected' = [expected EXCEPT ![c] = expected[c]] BY <2>1 DEF ReadInv, GroupType
  <2>5. HandlesInv' /\ handle' = [d \in Client |-> handle'[d]] /\ expected' = [d \in Client |-> expected'[d]]
    BY <2>1, <2>2, <2>4, HandleReplaced DEF ReadInv
  <2>6. NetInv' BY <2>1, <2>3 DEF ReadInv, NetInv
  <2>7. GroupType' /\ calls' # 0 BY <2>1, <2>5 DEF ReadInv, GroupType, Called
  <2>8. ExportedInv' /\ LookedInv' /\ ReadOnlyByAudience'
    BY <2>1 DEF ReadInv, ExportedInv, LookedInv, ReadOnlyByAudience
  <2> QED BY <2>5, <2>6, <2>7, <2>8 DEF ReadInv
<1>8. ASSUME NEW c \in Client, ProcessCommit(c) PROVE ReadInv'
  <2>1. PICK m \in net :
          /\ m.kind = "commit"
          /\ handle' = [handle EXCEPT ![c] = MergeStaged(c, m.to)]
          /\ Learns(c, Members(m.to.tree))
          /\ UNCHANGED <<packages, minted, exported, net, calls, looked, reads>>
    BY <1>8 DEF ProcessCommit
  <2> DEFINE h == MergeStaged(c, m.to)
  <2>2. GoodTree(m.to.tree) BY <2>1 DEF ReadInv, NetInv
  <2>3. packages' \in [Client -> SUBSET Nat] /\ calls' \in Nat /\ calls' = calls /\ LookedInv'
    BY <2>1 DEF ReadInv, GroupType, LookedInv
  <2>4. GoodHandle(c, h) /\ h.epoch = m.to
    <3>1. h = [epoch |-> m.to, active |-> c \in Members(m.to.tree), sent |-> 0, opened |-> {}]
      BY DEF MergeStaged, Fresh
    <3>2. h.epoch = m.to /\ h.active = (c \in Members(m.to.tree)) BY <3>1
    <3>3. h = [epoch |-> h.epoch, active |-> h.active, sent |-> h.sent, opened |-> h.opened]
      BY <3>1
    <3> HIDE DEF h
    <3>4. h.active \in BOOLEAN BY <3>2
    <3>5. h.active => c \in Members(m.to.tree) BY <3>2
    <3> QED BY <2>2, <3>2, <3>3, <3>4, <3>5 DEF GoodHandle
  <2>5. expected' = [expected EXCEPT ![c] = Members(m.to.tree)] /\ misled' = misled \ {c}
    BY <2>1 DEF Learns, Knows
  <2> HIDE DEF h
  <2>6. handle' = [handle EXCEPT ![c] = h] BY <2>1 DEF h
  <2> QED BY <2>1, <2>3, <2>4, <2>5, <2>6, LocalReadInv
<1>9. ASSUME NEW c \in Client, ProcessApplication(c) PROVE ReadInv'
  <2>1. PICK m \in net :
          /\ Active(c) /\ m.kind = "application" /\ m.epoch = handle[c].epoch
          /\ handle' = [handle EXCEPT ![c].opened = @ \cup {<<m.by, m.generation>>}]
          /\ reads' = reads \cup {<<c, m>>}
          /\ UNCHANGED <<packages, minted, exported, net, calls, looked, expected, misled>>
    BY <1>9 DEF ProcessApplication
  <2> DEFINE h == [handle[c] EXCEPT !.opened = @ \cup {<<m.by, m.generation>>}]
  <2>2. /\ handle[c] # None /\ GoodHandle(c, handle[c]) /\ c \in Members(handle[c].epoch.tree)
        /\ c \notin misled => expected[c] = Members(handle[c].epoch.tree)
    BY <2>1 DEF Active, ReadInv, HandlesInv, GoodHandle
  <2>3. handle' = [handle EXCEPT ![c] = h] BY <2>1
  <2>4. GoodHandle(c, h) /\ h.epoch = handle[c].epoch
    <3>2. handle[c] = [epoch |-> handle[c].epoch, active |-> handle[c].active,
                       sent |-> handle[c].sent, opened |-> handle[c].opened]
      BY <2>2 DEF GoodHandle
    <3>3. h = [epoch |-> handle[c].epoch, active |-> handle[c].active,
               sent |-> handle[c].sent, opened |-> handle[c].opened \cup {<<m.by, m.generation>>}]
      BY <3>2
    <3>4. h.epoch = handle[c].epoch /\ h.active = handle[c].active BY <3>3
    <3>5. h = [epoch |-> h.epoch, active |-> h.active, sent |-> h.sent, opened |-> h.opened]
      BY <3>3
    <3> HIDE DEF h
    <3> QED BY <2>2, <3>4, <3>5 DEF GoodHandle
  <2> HIDE DEF h
  <2>5. expected' = [expected EXCEPT ![c] = expected[c]] BY <2>1 DEF ReadInv, GroupType
  <2>6. HandlesInv' /\ handle' = [d \in Client |-> handle'[d]] /\ expected' = [d \in Client |-> expected'[d]]
    <3>1. misled' = misled BY <2>1
    <3>2. GoodHandle(c, h) /\ (c \notin misled' => expected[c] = Members(h.epoch.tree))
      BY <2>2, <2>4, <3>1
    <3> QED BY <2>3, <2>5, <3>1, <3>2, HandleReplaced DEF ReadInv
  <2>7. c \in m.audience \/ m.misled BY <2>1, <2>2 DEF ReadInv, NetInv
  <2>8. ReadOnlyByAudience' BY <2>1, <2>7 DEF ReadInv, ReadOnlyByAudience
  <2>9. GroupType' BY <2>1, <2>6 DEF ReadInv, GroupType
  <2>10. ExportedInv' /\ LookedInv' /\ NetInv' /\ (calls' = 0 => net' = {})
    BY <2>1 DEF ReadInv, ExportedInv, LookedInv, NetInv
  <2> QED BY <2>6, <2>8, <2>9, <2>10 DEF ReadInv
<1>10. ASSUME NEW c \in Client, ExportState(c) PROVE ReadInv'
  <2> DEFINE x == [handle |-> handle[c], packages |-> packages[c]]
  <2>1. exported' = [exported EXCEPT ![c] = x] /\ Called
        /\ UNCHANGED <<handle, packages, minted, net, looked, expected, misled, reads>>
    BY <1>10 DEF ExportState
  <2>2. x.handle = handle[c] /\ x.packages = packages[c] OBVIOUS
  <2> HIDE DEF x
  <2>3. ExportedInv'
    <3>1. exported'[c] = x /\ \A d \in Client \ {c} : exported'[d] = exported[d]
      BY <2>1 DEF ReadInv, GroupType
    <3>2. packages[c] \in SUBSET Nat /\ (handle[c] # None => GoodHandle(c, handle[c]))
      BY DEF ReadInv, GroupType, HandlesInv
    <3> QED BY <2>2, <3>1, <3>2 DEF ReadInv, ExportedInv
  <2>4. GroupType' /\ calls' # 0
    <3>1. exported' = [d \in Client |-> exported'[d]]
      BY <2>1 DEF ReadInv, GroupType
    <3>2. calls' \in Nat /\ calls' # 0
      BY <2>1 DEF ReadInv, GroupType, Called
    <3> QED BY <2>1, <3>1, <3>2 DEF ReadInv, GroupType
  <2>5. HandlesInv' /\ LookedInv' /\ NetInv' /\ ReadOnlyByAudience'
    BY <2>1 DEF ReadInv, HandlesInv, LookedInv, NetInv, ReadOnlyByAudience
  <2> QED BY <2>3, <2>4, <2>5 DEF ReadInv
<1>11. ASSUME NEW c \in Client, ImportState(c) PROVE ReadInv'
  <2> DEFINE found == exported[c].handle
             e == IF found = None THEN {} ELSE Members(found.epoch.tree)
  <2>1. /\ exported[c] # None /\ Called
        /\ handle' = [handle EXCEPT ![c] = found]
        /\ packages' = [packages EXCEPT ![c] = exported[c].packages]
        /\ expected' = [expected EXCEPT ![c] = e] /\ misled' = misled \ {c}
        /\ looked' = [looked EXCEPT ![c] = None]
        /\ UNCHANGED <<minted, exported, net, reads>>
    BY <1>11 DEF ImportState, Learns, Knows
  <2>2. found # None => GoodHandle(c, found) /\ e = Members(found.epoch.tree)
    BY <2>1 DEF ReadInv, ExportedInv
  <2>3. packages' \in [Client -> SUBSET Nat] BY <2>1 DEF ReadInv, GroupType, ExportedInv
  <2>4. calls' \in Nat /\ (calls' = 0 => calls = 0) /\ LookedInv'
    BY <2>1 DEF ReadInv, GroupType, Called, LookedInv
  <2> HIDE DEF found, e
  <2> QED BY <2>1, <2>2, <2>3, <2>4, LocalReadInv
<1>12. CASE UNCHANGED vars
  BY <1>12 DEF vars, ReadInv, GroupType, HandlesInv, LookedInv, ExportedInv, NetInv,
               ReadOnlyByAudience
<1> QED
  BY <1>1, <1>2, <1>3, <1>4, <1>5, <1>6, <1>7, <1>8, <1>9, <1>10, <1>11, <1>12 DEF Next

\* The invariant behind both results about groups, in every state.
THEOREM ReadInvariance == Spec => []ReadInv
<1>1. Init => ReadInv
  BY DEF Init, ReadInv, GroupType, HandlesInv, LookedInv, ExportedInv, NetInv, ReadOnlyByAudience
<1>2. ReadInv /\ [Next]_vars => ReadInv'
  BY ReadInvStep
<1> QED BY <1>1, <1>2, PTL DEF Spec

\* remove_member: the members of a client's group are those its caller's calls
\* left in it, unless an index of another epoch made it remove somebody else.
THEOREM MembersStayAsAsked == Spec => []MembersAsAsked
<1>1. ReadInv => MembersAsAsked
  BY DEF ReadInv, HandlesInv, MembersAsAsked, Active
<1> QED BY <1>1, ReadInvariance, PTL

\* Group::process: whatever races, re-additions and restarts happen, a message
\* is read only by those the sender's calls had made members when it was sent.
THEOREM OnlyAudienceReads == Spec => []ReadOnlyByAudience
<1>1. ReadInv => ReadOnlyByAudience
  BY DEF ReadInv
<1> QED BY <1>1, ReadInvariance, PTL

-----------------------------------------------------------------------------
(* The history of a group that did not split: a list of epochs, each made  *)
(* from the one before it by a commit.                                     *)

FirstEpoch == [commits |-> <<>>, tree |-> [l \in {0} |-> Creator]]

\* Somewhere from the i-th to the j-th epoch c was not a member.
Absent(ch, c, i, j) == \E g \in i .. j : c \notin Members(ch[g].tree)

IsChain(ch) ==
    /\ ch = [i \in 1 .. Len(ch) |-> ch[i]] /\ Len(ch) \in Nat \ {0} /\ ch[1] = FirstEpoch
    /\ \A i \in 1 .. Len(ch) : ch[i].commits \in Seq(Nat) /\ Len(ch[i].commits) = i - 1
    /\ \A j \in 1 .. Len(ch) : \A i \in 1 .. j :
          ch[i].commits = SubSeq(ch[j].commits, 1, i - 1)

\* Every commit leads from one epoch to the next, and every epoch but the last
\* has one.
CommitsChained(ch) ==
    /\ \A m \in net : m.kind = "commit" =>
          \E i \in 1 .. (Len(ch) - 1) : m.from = ch[i] /\ m.to = ch[i + 1]
    /\ \A i \in 1 .. (Len(ch) - 1) : \E m \in net : m.kind = "commit" /\ m.from = ch[i]

\* Every welcome leads to an epoch, which has no other, from one in which its
\* receiver was not a member.
WelcomesChained(ch) ==
    /\ \A w \in net : w.kind = "welcome" =>
          \E i \in 1 .. (Len(ch) - 1) : /\ w.to = ch[i + 1]
                                        /\ w.who \notin Members(ch[i].tree)
    /\ \A w, x \in net : w.kind = "welcome" /\ x.kind = "welcome" /\ w.to = x.to => w = x

HandlesChained(ch) ==
    \A c \in Client : handle[c] # None => \E i \in 1 .. Len(ch) : handle[c].epoch = ch[i]

\* A client never gets back, as a member, to an epoch it made a commit in.
NoReturn(ch) ==
    \A m \in net : \A i, j \in 1 .. Len(ch) :
        m.kind = "commit" /\ m.from = ch[j] /\ handle[m.by] # None /\ handle[m.by].epoch = ch[i] =>
            i > j \/ Absent(ch, m.by, i, j)

\* Nor can a welcome that it has not used take it back there,
NoReturnByWelcome(ch) ==
    \A w, m \in net : \A i, j \in 1 .. Len(ch) :
        /\ w.kind = "welcome" /\ w.kp \in packages[w.who] /\ w.to = ch[i]
        /\ m.kind = "commit" /\ m.by = w.who /\ m.from = ch[j]
        => i > j \/ Absent(ch, w.who, i, j)

\* or to an epoch it has been in.
WelcomesAhead(ch) ==
    \A w \in net : \A i, j \in 1 .. Len(ch) :
        /\ w.kind = "welcome" /\ w.kp \in packages[w.who] /\ w.to = ch[i]
        /\ handle[w.who] # None /\ handle[w.who].epoch = ch[j]
        => i > j \/ Absent(ch, w.who, i, j)

Chained(ch) ==
    /\ IsChain(ch)
    /\ CommitsChained(ch)
    /\ WelcomesChained(ch)
    /\ HandlesChained(ch)
    /\ NoReturn(ch)
    /\ NoReturnByWelcome(ch)
    /\ WelcomesAhead(ch)

Undisturbed == events \cap {"race", "restore"} = {}

SplitInv == Undisturbed => \E ch : Chained(ch)

\* The epochs of a chain are told apart by the number of their commits.
LEMMA ChainIndex ==
    ASSUME NEW ch, IsChain(ch), NEW i \in 1 .. Len(ch), NEW j \in 1 .. Len(ch), ch[i] = ch[j]
    PROVE  i = j
<1>1. Len(ch[i].commits) = i - 1 /\ Len(ch[j].commits) = j - 1 /\ Len(ch) \in Nat
  BY DEF IsChain
<1> QED BY <1>1

\* Steps that change neither the commits and welcomes, nor the unused ones of
\* them, nor anyone's epoch.
LEMMA ChainedUnchanged ==
    ASSUME NEW ch, Chained(ch),
           \A m \in net : m \in net',
           \A m \in net' : m.kind \in {"commit", "welcome"} => m \in net,
           \A w \in net : w.kind = "welcome" /\ w.kp \in packages'[w.who] => w.kp \in packages[w.who],
           \A c \in Client : handle'[c] # None => handle[c] # None /\ handle'[c].epoch = handle[c].epoch,
           \A m \in net : m.kind = "commit" => m.by \in Client,
           \A w \in net : w.kind = "welcome" => w.who \in Client
    PROVE  Chained(ch)'
<1>1. IsChain(ch)' BY DEF Chained, IsChain
<1>2. CommitsChained(ch)'
  <2>1. \A m \in net' : m.kind = "commit" =>
          \E i \in 1 .. (Len(ch) - 1) : m.from = ch[i] /\ m.to = ch[i + 1]
    BY DEF Chained, CommitsChained
  <2>2. \A i \in 1 .. (Len(ch) - 1) : \E m \in net' : m.kind = "commit" /\ m.from = ch[i]
    BY DEF Chained, CommitsChained
  <2> QED BY <2>1, <2>2 DEF CommitsChained
<1>3. WelcomesChained(ch)' BY DEF Chained, WelcomesChained
<1>4. HandlesChained(ch)' BY DEF Chained, HandlesChained
<1>5. NoReturn(ch)'
  <2> SUFFICES ASSUME NEW m \in net', NEW i \in 1 .. Len(ch), NEW j \in 1 .. Len(ch),
                      m.kind = "commit", m.from = ch[j], handle'[m.by] # None, handle'[m.by].epoch = ch[i]
               PROVE  i > j \/ Absent(ch, m.by, i, j)
    BY DEF NoReturn, Absent
  <2>1. m \in net /\ m.by \in Client OBVIOUS
  <2>2. handle[m.by] # None /\ handle[m.by].epoch = ch[i] BY <2>1
  <2> QED BY <2>1, <2>2 DEF Chained, NoReturn
<1>6. NoReturnByWelcome(ch)'
  <2> SUFFICES ASSUME NEW w \in net', NEW m \in net', NEW i \in 1 .. Len(ch), NEW j \in 1 .. Len(ch),
                      w.kind = "welcome", w.kp \in packages'[w.who], w.to = ch[i],
                      m.kind = "commit", m.by = w.who, m.from = ch[j]
               PROVE  i > j \/ Absent(ch, w.who, i, j)
    BY DEF NoReturnByWelcome, Absent
  <2>1. w \in net /\ m \in net /\ w.kp \in packages[w.who] OBVIOUS
  <2> QED BY <2>1 DEF Chained, NoReturnByWelcome
<1>7. WelcomesAhead(ch)'
  <2> SUFFICES ASSUME NEW w \in net', NEW i \in 1 .. Len(ch), NEW j \in 1 .. Len(ch),
                      w.kind = "welcome", w.kp \in packages'[w.who], w.to = ch[i],
                      handle'[w.who] # None, handle'[w.who].epoch = ch[j]
               PROVE  i > j \/ Absent(ch, w.who, i, j)
    BY DEF WelcomesAhead, Absent
  <2>1. w \in net /\ w.kp \in packages[w.who] /\ w.who \in Client OBVIOUS
  <2>2. handle[w.who] # None /\ handle[w.who].epoch = ch[j] BY <2>1
  <2> QED BY <2>1, <2>2 DEF Chained, WelcomesAhead
<1> QED BY <1>1, <1>2, <1>3, <1>4, <1>5, <1>6, <1>7 DEF Chained

\* A client moves to an epoch of the chain, by a welcome or by a commit: enough
\* that it does not get back behind a gap in its own membership.
LEMMA ChainedMove ==
    ASSUME NEW ch, Chained(ch), NEW c \in Client, GroupType, NEW h, NEW a \in 1 .. Len(ch),
           net' = net, handle' = [handle EXCEPT ![c] = h], h.epoch = ch[a],
           \A d \in Client : packages'[d] \subseteq packages[d],
           \A m \in net : m.kind = "commit" => m.by \in Client,
           \A w \in net : w.kind = "welcome" => w.who \in Client,
           \A m \in net : \A j \in 1 .. Len(ch) :
              m.kind = "commit" /\ m.by = c /\ m.from = ch[j] => a > j \/ Absent(ch, c, a, j),
           \A w \in net : \A i \in 1 .. Len(ch) :
              w.kind = "welcome" /\ w.who = c /\ w.kp \in packages'[c] /\ w.to = ch[i] =>
                  i > a \/ Absent(ch, c, i, a)
    PROVE  Chained(ch)'
<1>0. handle'[c] = h /\ \A d \in Client \ {c} : handle'[d] = handle[d]
  BY DEF GroupType
<1>1. IsChain(ch) BY DEF Chained
<1>2. IsChain(ch)' BY DEF Chained, IsChain
<1>3. CommitsChained(ch)' BY DEF Chained, CommitsChained
<1>4. WelcomesChained(ch)' BY DEF Chained, WelcomesChained
<1>5. HandlesChained(ch)' BY <1>0 DEF Chained, HandlesChained
<1>6. NoReturn(ch)'
  <2> SUFFICES ASSUME NEW m \in net', NEW i \in 1 .. Len(ch), NEW j \in 1 .. Len(ch),
                      m.kind = "commit", m.from = ch[j], handle'[m.by] # None, handle'[m.by].epoch = ch[i]
               PROVE  i > j \/ Absent(ch, m.by, i, j)
    BY DEF NoReturn, Absent
  <2>1. CASE m.by = c
    <3>1. i = a BY <1>0, <1>1, <2>1, ChainIndex
    <3> QED BY <2>1, <3>1
  <2>2. CASE m.by # c
    <3>1. m.by \in Client /\ handle'[m.by] = handle[m.by] BY <1>0, <2>2
    <3> QED BY <3>1 DEF Chained, NoReturn
  <2> QED BY <2>1, <2>2
<1>7. NoReturnByWelcome(ch)'
  <2> SUFFICES ASSUME NEW w \in net', NEW m \in net', NEW i \in 1 .. Len(ch), NEW j \in 1 .. Len(ch),
                      w.kind = "welcome", w.kp \in packages'[w.who], w.to = ch[i],
                      m.kind = "commit", m.by = w.who, m.from = ch[j]
               PROVE  i > j \/ Absent(ch, w.who, i, j)
    BY DEF NoReturnByWelcome, Absent
  <2>1. w \in net /\ m \in net /\ w.kp \in packages[w.who] OBVIOUS
  <2> QED BY <2>1 DEF Chained, NoReturnByWelcome
<1>8. WelcomesAhead(ch)'
  <2> SUFFICES ASSUME NEW w \in net', NEW i \in 1 .. Len(ch), NEW j \in 1 .. Len(ch),
                      w.kind = "welcome", w.kp \in packages'[w.who], w.to = ch[i],
                      handle'[w.who] # None, handle'[w.who].epoch = ch[j]
               PROVE  i > j \/ Absent(ch, w.who, i, j)
    BY DEF WelcomesAhead, Absent
  <2>0. w \in net /\ w.who \in Client /\ w.kp \in packages[w.who] OBVIOUS
  <2>1. CASE w.who = c
    <3>1. j = a BY <1>0, <1>1, <2>1, ChainIndex
    <3> QED BY <2>0, <2>1, <3>1
  <2>2. CASE w.who # c
    <3>1. handle'[w.who] = handle[w.who] BY <1>0, <2>0, <2>2
    <3> QED BY <2>0, <3>1 DEF Chained, WelcomesAhead
  <2> QED BY <2>1, <2>2
<1> QED BY <1>2, <1>3, <1>4, <1>5, <1>6, <1>7, <1>8 DEF Chained

\* The chain with one more epoch.
Grown(ch, e) == [i \in 1 .. Len(ch) + 1 |-> IF i = Len(ch) + 1 THEN e ELSE ch[i]]

\* The chain grows by the epoch of a new commit.
LEMMA ChainGrows ==
    ASSUME NEW ch, IsChain(ch), NEW e, NEW x \in Nat,
           e.commits = Append(ch[Len(ch)].commits, x)
    PROVE  /\ IsChain(Grown(ch, e))
           /\ Len(Grown(ch, e)) = Len(ch) + 1
           /\ \A i \in 1 .. Len(ch) : Grown(ch, e)[i] = ch[i]
           /\ Grown(ch, e)[Len(ch) + 1] = e
<1> DEFINE n == Len(ch)
           ch2 == Grown(ch, e)
<1>1. n \in Nat \ {0} /\ ch = [i \in 1 .. n |-> ch[i]] BY DEF IsChain
<1>3. ch2 = [i \in 1 .. n + 1 |-> IF i = n + 1 THEN e ELSE ch[i]]
  BY DEF Grown
<1>4. Len(ch2) = n + 1 BY <1>1, <1>3
<1>5. (\A i \in 1 .. n : ch2[i] = ch[i]) /\ ch2[n + 1] = e BY <1>1, <1>3
<1> HIDE DEF ch2, n
<1>6. /\ \A i \in 1 .. n : ch[i].commits \in Seq(Nat) /\ Len(ch[i].commits) = i - 1
      /\ \A j \in 1 .. n : \A i \in 1 .. j : ch[i].commits = SubSeq(ch[j].commits, 1, i - 1)
  BY DEF IsChain, n
<1> DEFINE s == ch[n].commits
           t == e.commits
<1>7. s \in Seq(Nat) /\ Len(s) = n - 1 BY <1>1, <1>6
<1>8. t = Append(s, x) BY DEF n
<1> HIDE DEF s, t
<1>9. t \in Seq(Nat) /\ Len(t) = n BY <1>1, <1>7, <1>8
<1>10. \A i \in 1 .. n : SubSeq(t, 1, i - 1) = SubSeq(s, 1, i - 1)
  <2> SUFFICES ASSUME NEW i \in 1 .. n PROVE SubSeq(t, 1, i - 1) = SubSeq(s, 1, i - 1)
    OBVIOUS
  <2>1. \A k \in 1 .. (i - 1) : /\ t[k] = s[k] /\ s[k] \in Nat /\ t[k] \in Nat
                                /\ k \in Nat /\ 1 + k - 1 = k
    <3>1. \A k \in 1 .. Len(s) : t[k] = s[k] BY <1>7, <1>8
    <3>2. \A k \in 1 .. Len(s) : s[k] \in Nat BY <1>7
    <3>3. \A k \in 1 .. (i - 1) : k \in 1 .. Len(s) /\ k \in Nat /\ 1 + k - 1 = k
      <4>1. n \in Nat BY <1>1
      <4>2. Len(s) = n - 1 BY <1>7
      <4> QED BY <4>1, <4>2
    <3> QED BY <3>1, <3>2, <3>3
  <2>2. i - 1 \in Int /\ 1 \in Int /\ (i - 1) - 1 + 1 = i - 1
        /\ (IF 1 <= i - 1 THEN i - 1 ELSE 0) = i - 1
    BY <1>1
  <2>3. /\ SubSeq(t, 1, i - 1) \in Seq(Nat)
        /\ Len(SubSeq(t, 1, i - 1)) = i - 1
        /\ \A k \in 1 .. (i - 1) : SubSeq(t, 1, i - 1)[k] = t[k]
    BY <2>1, <2>2, SubSeqProperties
  <2>4. /\ SubSeq(s, 1, i - 1) \in Seq(Nat)
        /\ Len(SubSeq(s, 1, i - 1)) = i - 1
        /\ \A k \in 1 .. (i - 1) : SubSeq(s, 1, i - 1)[k] = s[k]
    BY <2>1, <2>2, SubSeqProperties
  <2> HIDE DEF s, t
  <2> QED BY <2>1, <2>3, <2>4, SeqEqual
<1>11. t = SubSeq(t, 1, n) BY <1>1, <1>9
<1>12. \A i \in 1 .. n + 1 : ch2[i].commits \in Seq(Nat) /\ Len(ch2[i].commits) = i - 1
  <2>1. \A i \in 1 .. n + 1 : i \in 1 .. n \/ i = n + 1 BY <1>1
  <2>2. e.commits \in Seq(Nat) /\ Len(e.commits) = (n + 1) - 1 BY <1>1, <1>9 DEF t
  <2> QED BY <1>5, <1>6, <2>1, <2>2
<1>13. \A j \in 1 .. n + 1 : \A i \in 1 .. j : ch2[i].commits = SubSeq(ch2[j].commits, 1, i - 1)
  <2> SUFFICES ASSUME NEW j \in 1 .. n + 1, NEW i \in 1 .. j
               PROVE  ch2[i].commits = SubSeq(ch2[j].commits, 1, i - 1)
    OBVIOUS
  <2>1. CASE j \in 1 .. n
    <3>1. i \in 1 .. n BY <1>1, <2>1
    <3> QED BY <1>5, <1>6, <2>1, <3>1
  <2>2. CASE j = n + 1 /\ i = n + 1
    BY <1>1, <1>5, <1>11, <2>2 DEF t
  <2>3. CASE j = n + 1 /\ i \in 1 .. n
    <3>1. ch[i].commits = SubSeq(s, 1, i - 1)
      <4>1. n \in 1 .. n BY <1>1
      <4> QED BY <1>6, <2>3, <4>1 DEF s
    <3> QED BY <1>1, <1>5, <1>10, <2>3, <3>1 DEF t
  <2> QED BY <1>1, <2>1, <2>2, <2>3
<1>14. ch2 = [i \in 1 .. n + 1 |-> ch2[i]] BY <1>3
<1>15. ch2[1] = FirstEpoch BY <1>1, <1>5 DEF IsChain
<1>16. n + 1 \in Nat \ {0} BY <1>1
<1>17. IsChain(ch2)
  BY <1>4, <1>12, <1>13, <1>14, <1>15, <1>16 DEF IsChain
<1> QED BY <1>4, <1>5, <1>17 DEF ch2, n

\* What a commit of c to the epoch e puts on the net: itself and at most one
\* welcome, of somebody who was no member.
OneCommit(new, c, e) ==
    /\ Commit(c, e) \in new
    /\ \A m \in new : m.kind = "commit" => m = Commit(c, e)
    /\ \A w \in new : w.kind = "welcome" =>
          w.to = e /\ w.who \in Client /\ w.who \notin Members(handle[c].epoch.tree)
    /\ \A w, x \in new : w.kind = "welcome" /\ x.kind = "welcome" => w = x

\* Without a race, a commit is made in the last epoch: a member that is behind
\* finds either another's commit there, or its own, and it cannot be back there.
LEMMA CommitsAtTheEnd ==
    ASSUME ReadInv, NEW ch, Chained(ch), NEW c \in Client, Active(c),
           \A m \in net : m.kind = "commit" /\ m.from = handle[c].epoch => m.by = c
    PROVE  handle[c].epoch = ch[Len(ch)]
<1>1. PICK k \in 1 .. Len(ch) : handle[c].epoch = ch[k]
  BY DEF Chained, HandlesChained, Active
<1>2. c \in Members(ch[k].tree)
  BY <1>1 DEF Active, ReadInv, HandlesInv, GoodHandle
<1>3. Len(ch) \in Nat BY DEF Chained, IsChain
<1>4. ASSUME k # Len(ch) PROVE FALSE
  <2>1. k \in 1 .. (Len(ch) - 1) BY <1>3, <1>4
  <2>2. PICK m \in net : m.kind = "commit" /\ m.from = ch[k]
    BY <2>1 DEF Chained, CommitsChained
  <2>3. m.by = c BY <1>1, <2>2
  <2>4. k > k \/ Absent(ch, c, k, k)
    BY <1>1, <2>2, <2>3 DEF Chained, NoReturn, Active
  <2> QED BY <1>2, <2>4 DEF Absent
<1> QED BY <1>1, <1>4

\* A commit without a race keeps the history a chain.
LEMMA ChainedCommit ==
    ASSUME ReadInv, NEW ch, Chained(ch), NEW c \in Client, Active(c), NEW e, NEW new,
           \A m \in net : m.kind = "commit" /\ m.from = handle[c].epoch => m.by = c,
           e.commits = Append(handle[c].epoch.commits, calls + 1),
           OneCommit(new, c, e), net' = net \cup new,
           handle' = [handle EXCEPT ![c] = Fresh(e)], packages' = packages
    PROVE  Chained(Grown(ch, e))'
<1> DEFINE n == Len(ch)
           ch2 == Grown(ch, e)
<1>1. handle[c].epoch = ch[n] BY CommitsAtTheEnd
<1>2. IsChain(ch) /\ n \in Nat \ {0} BY DEF Chained, IsChain
<1>3. /\ IsChain(ch2) /\ Len(ch2) = n + 1 /\ ch2[n + 1] = e
      /\ \A i \in 1 .. n : ch2[i] = ch[i]
  <2>1. calls + 1 \in Nat BY DEF ReadInv, GroupType
  <2> QED BY <1>1, <1>2, <2>1, ChainGrows
<1>4. /\ handle'[c].epoch = e /\ \A d \in Client \ {c} : handle'[d] = handle[d]
  BY DEF ReadInv, GroupType, Fresh
<1>5. c \in Members(ch[n].tree)
  BY <1>1 DEF Active, ReadInv, HandlesInv, GoodHandle
<1>6. Commit(c, e).kind = "commit" /\ Commit(c, e).by = c /\ Commit(c, e).from = ch[n] /\ Commit(c, e).to = e
  BY <1>1 DEF Commit
<1> DEFINE cm == Commit(c, e)
<1> HIDE DEF cm, n, ch2
<1>7. \A m \in net' : m.kind = "commit" => m \in net \/ m = cm
  BY DEF OneCommit, cm
<1>8. \A w \in new : w.kind = "welcome" => w.to = e /\ w.who \in Client /\ w.who \notin Members(ch[n].tree)
  BY <1>1 DEF OneCommit
<1>9. \A i \in 1 .. n : i \in 1 .. (n + 1) /\ i # n + 1 BY <1>2
<1>10. \A i, j \in 1 .. (n + 1) : ch2[i] = ch2[j] => i = j
  BY <1>3, ChainIndex
<1>10a. \A i \in 1 .. (n + 1) : \A j \in 1 .. n : ch2[i] = ch[j] => i = j
  BY <1>3, <1>9, <1>10
<1>10b. \A i \in 1 .. (n + 1) : ch2[i] = e => i = n + 1
  <2>1. n + 1 \in 1 .. (n + 1) BY <1>2
  <2> QED BY <1>3, <1>10, <2>1
<1>11. \A d \in Client : handle[d] # None => \E i \in 1 .. n : handle[d].epoch = ch[i]
  BY DEF Chained, HandlesChained, n
<1>12. \A m \in net : m.kind = "commit" =>
          \E i \in 1 .. n : i + 1 \in 1 .. n /\ m.from = ch[i] /\ m.to = ch[i + 1]
  <2>1. \A i \in 1 .. (n - 1) : i \in 1 .. n /\ i + 1 \in 1 .. n BY <1>2
  <2> QED BY <2>1 DEF Chained, CommitsChained, n
<1>13. \A w \in net : w.kind = "welcome" =>
          \E i \in 1 .. n : i + 1 \in 1 .. n /\ w.to = ch[i + 1] /\ w.who \notin Members(ch[i].tree)
  <2>1. \A i \in 1 .. (n - 1) : i \in 1 .. n /\ i + 1 \in 1 .. n BY <1>2
  <2> QED BY <2>1 DEF Chained, WelcomesChained, n
<1>14. \A d, i, j : i \in 1 .. n /\ j \in 1 .. n /\ Absent(ch, d, i, j) => Absent(ch2, d, i, j)
  <2>1. \A i, j : i \in 1 .. n /\ j \in 1 .. n => i .. j \subseteq 1 .. n BY <1>2
  <2> QED BY <1>3, <2>1 DEF Absent
<1>15. CommitsChained(ch2)'
  <2>1. ASSUME NEW m \in net', m.kind = "commit"
        PROVE  \E i \in 1 .. n : m.from = ch2[i] /\ m.to = ch2[i + 1]
    <3>1. CASE m \in net BY <1>3, <1>12, <2>1, <3>1
    <3>2. CASE m = cm
      <4>1. n \in 1 .. n BY <1>2
      <4> QED BY <1>3, <1>6, <3>2, <4>1 DEF cm
    <3> QED BY <1>7, <2>1, <3>1, <3>2
  <2>2. ASSUME NEW i \in 1 .. n PROVE \E m \in net' : m.kind = "commit" /\ m.from = ch2[i]
    <3>1. CASE i = n BY <1>3, <1>6, <3>1 DEF OneCommit
    <3>2. CASE i # n
      <4>1. i \in 1 .. (n - 1) BY <1>2, <3>2
      <4>2. \E m \in net : m.kind = "commit" /\ m.from = ch[i]
        BY <4>1 DEF Chained, CommitsChained, n
      <4> QED BY <1>3, <4>2
    <3> QED BY <3>1, <3>2
  <2>3. Len(ch2) - 1 = n BY <1>2, <1>3
  <2> QED BY <2>1, <2>2, <2>3 DEF CommitsChained
<1>16. WelcomesChained(ch2)'
  <2>1. ASSUME NEW w \in net', w.kind = "welcome"
        PROVE  \E i \in 1 .. n : w.to = ch2[i + 1] /\ w.who \notin Members(ch2[i].tree)
    <3>1. CASE w \in net BY <1>3, <1>13, <2>1, <3>1
    <3>2. CASE w \in new
      <4>1. n \in 1 .. n BY <1>2
      <4> QED BY <1>3, <1>8, <2>1, <3>2, <4>1
    <3> QED BY <3>1, <3>2
  <2>2. ASSUME NEW w \in net, w.kind = "welcome" PROVE w.to # e
    <3>1. PICK i \in 1 .. n : i + 1 \in 1 .. n /\ w.to = ch[i + 1] BY <1>13, <2>2
    <3> QED BY <1>3, <1>9, <1>10b, <3>1
  <2>3. ASSUME NEW w \in net', NEW x \in net', w.kind = "welcome", x.kind = "welcome", w.to = x.to
        PROVE  w = x
    <3>1. CASE w \in net /\ x \in net BY <2>3, <3>1 DEF Chained, WelcomesChained
    <3>2. CASE w \in new /\ x \in new BY <2>3, <3>2 DEF OneCommit
    <3> QED BY <1>8, <2>2, <2>3, <3>1, <3>2
  <2>4. Len(ch2) - 1 = n BY <1>2, <1>3
  <2> QED BY <2>1, <2>3, <2>4 DEF WelcomesChained
<1>17. HandlesChained(ch2)'
  <2> SUFFICES ASSUME NEW d \in Client, handle'[d] # None
               PROVE  \E i \in 1 .. (n + 1) : handle'[d].epoch = ch2[i]
    BY <1>3 DEF HandlesChained
  <2>1. n + 1 \in 1 .. (n + 1) BY <1>2
  <2> QED BY <1>3, <1>4, <1>9, <1>11, <2>1
<1>18. NoReturn(ch2)'
  <2> SUFFICES ASSUME NEW m \in net', NEW i \in 1 .. (n + 1), NEW j \in 1 .. (n + 1),
                      m.kind = "commit", m.from = ch2[j], handle'[m.by] # None, handle'[m.by].epoch = ch2[i]
               PROVE  i > j \/ Absent(ch2, m.by, i, j)
    BY <1>3 DEF NoReturn, Absent
  <2>0. m.by \in Client BY <1>6, <1>7 DEF ReadInv, NetInv, cm
  <2>1. j \in 1 .. n /\ m.from = ch[j]
    <3>1. \E k \in 1 .. n : m.from = ch[k]
      <4>1. n \in 1 .. n BY <1>2
      <4> QED BY <1>6, <1>7, <1>12, <4>1 DEF cm
    <3> QED BY <1>10a, <3>1
  <2>2. CASE m.by = c
    <3>1. i = n + 1 BY <1>4, <1>10b, <2>2
    <3> QED BY <1>2, <2>1, <3>1
  <2>3. CASE m.by # c
    <3>1. handle[m.by] = handle'[m.by] BY <1>4, <2>0, <2>3
    <3>2. i \in 1 .. n /\ handle[m.by].epoch = ch[i] BY <1>10a, <1>11, <2>0, <3>1
    <3>3. m \in net BY <1>6, <1>7, <2>3 DEF cm
    <3>4. i > j \/ Absent(ch, m.by, i, j)
      BY <2>1, <3>1, <3>2, <3>3 DEF Chained, NoReturn, n
    <3> QED BY <1>14, <2>1, <3>2, <3>4
  <2> QED BY <2>2, <2>3
<1>19. NoReturnByWelcome(ch2)'
  <2> SUFFICES ASSUME NEW w \in net', NEW m \in net', NEW i \in 1 .. (n + 1), NEW j \in 1 .. (n + 1),
                      w.kind = "welcome", w.kp \in packages[w.who], w.to = ch2[i],
                      m.kind = "commit", m.by = w.who, m.from = ch2[j]
               PROVE  i > j \/ Absent(ch2, w.who, i, j)
    BY <1>3 DEF NoReturnByWelcome, Absent
  <2>1. j \in 1 .. n /\ m.from = ch[j]
    <3>1. \E k \in 1 .. n : m.from = ch[k]
      <4>1. n \in 1 .. n BY <1>2
      <4> QED BY <1>6, <1>7, <1>12, <4>1 DEF cm
    <3> QED BY <1>10a, <3>1
  <2>2. CASE w \in new
    <3>1. i = n + 1 BY <1>8, <1>10b, <2>2
    <3> QED BY <1>2, <2>1, <3>1
  <2>3. CASE w \in net
    <3>1. i \in 1 .. n /\ w.to = ch[i] BY <1>10a, <1>13, <2>3
    <3>2. CASE m \in net
      <4>1. i > j \/ Absent(ch, w.who, i, j)
        BY <2>1, <2>3, <3>1, <3>2 DEF Chained, NoReturnByWelcome, n
      <4> QED BY <1>14, <2>1, <3>1, <4>1
    <3>3. CASE m = cm
      <4>1. w.who = c /\ m.from = ch[n] BY <1>6, <3>3 DEF cm
      <4>2. n \in 1 .. n BY <1>2
      <4>3. j = n
        <5>1. ch[j] = ch[n] BY <2>1, <4>1
        <5> QED BY <1>2, <2>1, <4>2, <5>1, ChainIndex DEF n
      <4>4. i > n \/ Absent(ch, c, i, n)
        BY <1>1, <2>3, <3>1, <4>1, <4>2 DEF Chained, WelcomesAhead, Active, n
      <4> QED BY <1>14, <2>1, <3>1, <4>1, <4>2, <4>3, <4>4
    <3> QED BY <1>7, <3>2, <3>3
  <2> QED BY <2>2, <2>3
<1>20. WelcomesAhead(ch2)'
  <2> SUFFICES ASSUME NEW w \in net', NEW i \in 1 .. (n + 1), NEW j \in 1 .. (n + 1),
                      w.kind = "welcome", w.kp \in packages[w.who], w.to = ch2[i],
                      handle'[w.who] # None, handle'[w.who].epoch = ch2[j]
               PROVE  i > j \/ Absent(ch2, w.who, i, j)
    BY <1>3 DEF WelcomesAhead, Absent
  <2>0. w.who \in Client BY <1>8 DEF ReadInv, NetInv
  <2>1. CASE w \in new
    <3>1. i = n + 1 BY <1>8, <1>10b, <2>1
    <3>2. w.who # c BY <1>5, <1>8, <2>1
    <3>3. handle[w.who] = handle'[w.who] BY <1>4, <2>0, <3>2
    <3>4. j \in 1 .. n BY <1>10a, <1>11, <2>0, <3>3
    <3> QED BY <1>2, <3>1, <3>4
  <2>2. CASE w \in net /\ w.who = c
    <3>1. i \in 1 .. n /\ w.to = ch[i] BY <1>10a, <1>13, <2>2
    <3>2. n \in 1 .. n BY <1>2
    <3>3. i > n \/ Absent(ch, c, i, n)
      BY <1>1, <2>2, <3>1, <3>2 DEF Chained, WelcomesAhead, Active, n
    <3>4. Absent(ch2, c, i, n) BY <1>2, <1>14, <3>1, <3>2, <3>3
    <3>5. j = n + 1 BY <1>4, <1>10b, <2>2
    <3>6. \A g \in i .. n : g \in i .. (n + 1) BY <1>2, <3>1
    <3> QED BY <2>2, <3>4, <3>5, <3>6 DEF Absent
  <2>3. CASE w \in net /\ w.who # c
    <3>1. i \in 1 .. n /\ w.to = ch[i] BY <1>10a, <1>13, <2>3
    <3>2. handle[w.who] = handle'[w.who] BY <1>4, <2>0, <2>3
    <3>3. j \in 1 .. n /\ handle[w.who].epoch = ch[j] BY <1>10a, <1>11, <2>0, <3>2
    <3>4. i > j \/ Absent(ch, w.who, i, j)
      BY <2>3, <3>1, <3>2, <3>3 DEF Chained, WelcomesAhead, n
    <3> QED BY <1>14, <3>1, <3>3, <3>4
  <2> QED BY <2>1, <2>2, <2>3
<1>21. IsChain(ch2)' BY <1>3 DEF IsChain, FirstEpoch
<1>22. Chained(ch2)'
  BY <1>15, <1>16, <1>17, <1>18, <1>19, <1>20, <1>21 DEF Chained
<1> QED BY <1>22 DEF ch2

\* add_member and remove_member: without a race they keep the history a chain.
LEMMA CommitSplitInv ==
    ASSUME ReadInv, NEW c \in Client, Active(c), NEW e, NEW new, NEW ch, Chained(ch),
           RaceEvents(c) \subseteq events', Undisturbed',
           e.commits = Append(handle[c].epoch.commits, calls + 1),
           OneCommit(new, c, e), net' = net \cup new,
           handle' = [handle EXCEPT ![c] = MergeOwn(c, e)], packages' = packages
    PROVE  SplitInv'
<1>1. "race" \notin events' BY DEF Undisturbed
<1>2. \A m \in net : m.kind = "commit" /\ m.from = handle[c].epoch => m.by = c
  BY <1>1 DEF RaceEvents
<1>3. Chained(Grown(ch, e))' BY <1>2, ChainedCommit DEF MergeOwn
<1> QED BY <1>3 DEF SplitInv

\* The senders of commits and the receivers of welcomes are clients, and
\* welcomes are for key packages that were made.
LEMMA NetClients ==
    ASSUME ReadInv
    PROVE  /\ \A m \in net : m.kind = "commit" => m.by \in Client
           /\ \A w \in net : w.kind = "welcome" => w.who \in Client /\ w.kp \in 1 .. minted[w.who]
BY DEF ReadInv, NetInv

\* The history stays a chain as long as nothing disturbs it.
LEMMA SplitInvStep ==
    ASSUME ReadInv, SplitInv, [Next]_vars
    PROVE  SplitInv'
<1> SUFFICES ASSUME Undisturbed' PROVE SplitInv'
  BY DEF SplitInv
<1>0. events \subseteq events'
  <2>1. CASE CreateGroup BY <2>1 DEF CreateGroup
  <2>2. ASSUME NEW c \in Client, NEW who \in Client, NEW kp \in 1 .. MaxCalls, AddMember(c, who, kp)
        PROVE  events \subseteq events'
    BY <2>2 DEF AddMember
  <2>3. ASSUME NEW c \in Client,
               \/ KeyPackage(c) \/ \E who \in Client : LookUp(c, who) \/ SendMessage(c)
               \/ ProcessCommit(c) \/ ProcessApplication(c) \/ ExportState(c)
        PROVE  events \subseteq events'
    BY <2>3 DEF KeyPackage, LookUp, SendMessage, ProcessCommit, ProcessApplication, ExportState
  <2>4. ASSUME NEW c \in Client, RemoveMember(c) \/ JoinGroup(c) \/ ImportState(c)
        PROVE  events \subseteq events'
    BY <2>4 DEF RemoveMember, JoinGroup, ImportState
  <2>5. CASE UNCHANGED vars BY <2>5 DEF vars
  <2> QED BY <2>1, <2>2, <2>3, <2>4, <2>5 DEF Next
<1>1. PICK ch : Chained(ch)
  BY <1>0 DEF SplitInv, Undisturbed
<1>2. CASE CreateGroup
  <2>1. net = {} BY <1>2 DEF CreateGroup, ReadInv
  <2>2. /\ net' = net /\ packages' = packages
        /\ handle' = [handle EXCEPT ![Creator] = Fresh(FirstEpoch)]
    BY <1>2 DEF CreateGroup, FirstEpoch
  <2>3. 1 \in 1 .. Len(ch) /\ Fresh(FirstEpoch).epoch = ch[1]
    BY <1>1 DEF Chained, IsChain, Fresh
  <2>4. Chained(ch)'
    BY <1>1, <2>1, <2>2, <2>3, ChainedMove, GroupAssumption DEF ReadInv
  <2> QED BY <2>4 DEF SplitInv
<1>3. ASSUME NEW c \in Client, KeyPackage(c) PROVE SplitInv'
  <2>1. net' = net /\ handle' = handle /\ packages' = [packages EXCEPT ![c] = @ \cup {minted[c] + 1}]
    BY <1>3 DEF KeyPackage
  <2>2. ASSUME NEW w \in net, w.kind = "welcome", w.kp \in packages'[w.who]
        PROVE  w.kp \in packages[w.who]
    <3>1. w.who \in Client /\ w.kp \in 1 .. minted[w.who] BY <2>2, NetClients
    <3>2. minted[w.who] \in Nat BY <3>1 DEF ReadInv, GroupType
    <3>3. w.kp # minted[w.who] + 1 BY <3>1, <3>2
    <3> QED BY <2>1, <2>2, <3>1, <3>3 DEF ReadInv, GroupType
  <2>3. Chained(ch)' BY <1>1, <2>1, <2>2, NetClients, ChainedUnchanged
  <2> QED BY <2>3 DEF SplitInv
<1>4. ASSUME NEW c \in Client, NEW who \in Client, NEW kp, AddMember(c, who, kp) PROVE SplitInv'
  <2> DEFINE e == Successor(c, WithMember(handle[c].epoch.tree, who))
             w == [kind |-> "welcome", who |-> who, kp |-> kp, to |-> e]
             new == {Commit(c, e), w}
  <2>1. /\ Active(c) /\ who \notin Members(handle[c].epoch.tree) /\ net' = net \cup new
        /\ handle' = [handle EXCEPT ![c] = MergeOwn(c, e)] /\ packages' = packages
        /\ RaceEvents(c) \subseteq events'
    BY <1>4 DEF AddMember
  <2>2. e.commits = Append(handle[c].epoch.commits, calls + 1) BY DEF Successor
  <2> HIDE DEF e
  <2>3. OneCommit(new, c, e)
    <3>1. Commit(c, e).kind = "commit" BY DEF Commit
    <3>2. w.kind = "welcome" /\ w.who = who /\ w.to = e OBVIOUS
    <3> HIDE DEF w
    <3> QED BY <2>1, <3>1, <3>2 DEF OneCommit
  <2> HIDE DEF new
  <2> QED BY <1>1, <2>1, <2>2, <2>3, CommitSplitInv
<1>5. ASSUME NEW c \in Client, NEW who \in Client, LookUp(c, who) PROVE SplitInv'
  <2>1. net' = net /\ handle' = handle /\ packages' = packages BY <1>5 DEF LookUp
  <2>2. Chained(ch)' BY <1>1, <2>1, NetClients, ChainedUnchanged
  <2> QED BY <2>2 DEF SplitInv
<1>6. ASSUME NEW c \in Client, RemoveMember(c) PROVE SplitInv'
  <2> DEFINE e == Successor(c, WithoutLeaf(handle[c].epoch.tree, looked[c].index))
             new == {Commit(c, e)}
  <2>1. /\ Active(c) /\ net' = net \cup new
        /\ handle' = [handle EXCEPT ![c] = MergeOwn(c, e)] /\ packages' = packages
        /\ RaceEvents(c) \subseteq events'
    BY <1>6 DEF RemoveMember
  <2>2. e.commits = Append(handle[c].epoch.commits, calls + 1) BY DEF Successor
  <2> HIDE DEF e
  <2>3. OneCommit(new, c, e)
    <3>1. Commit(c, e).kind = "commit" BY DEF Commit
    <3> QED BY <3>1 DEF OneCommit
  <2> HIDE DEF new
  <2> QED BY <1>1, <2>1, <2>2, <2>3, CommitSplitInv
<1>7. ASSUME NEW c \in Client, JoinGroup(c) PROVE SplitInv'
  <2>1. PICK w \in net :
          /\ w.kind = "welcome" /\ w.who = c /\ w.kp \in packages[c]
          /\ packages' = [packages EXCEPT ![c] = @ \ {w.kp}]
          /\ handle' = [handle EXCEPT ![c] = Fresh(w.to)]
          /\ net' = net
    BY <1>7 DEF JoinGroup
  <2>2. PICK b \in 1 .. (Len(ch) - 1) : w.to = ch[b + 1] /\ c \notin Members(ch[b].tree)
    BY <1>1, <2>1 DEF Chained, WelcomesChained
  <2>3. Len(ch) \in Nat BY <1>1 DEF Chained, IsChain
  <2> DEFINE a == b + 1
  <2>4. a \in 1 .. Len(ch) /\ Fresh(w.to).epoch = ch[a] BY <2>2, <2>3 DEF Fresh
  <2>5. packages'[c] = packages[c] \ {w.kp} /\ \A d \in Client : packages'[d] \subseteq packages[d]
    BY <2>1 DEF ReadInv, GroupType
  <2>6. ASSUME NEW m \in net, NEW j \in 1 .. Len(ch), m.kind = "commit", m.by = c, m.from = ch[j]
        PROVE  a > j \/ Absent(ch, c, a, j)
    BY <1>1, <2>1, <2>2, <2>4, <2>6 DEF Chained, NoReturnByWelcome
  <2>7. ASSUME NEW x \in net, NEW i \in 1 .. Len(ch),
               x.kind = "welcome", x.who = c, x.kp \in packages'[c], x.to = ch[i]
        PROVE  i > a \/ Absent(ch, c, i, a)
    <3>1. x # w BY <2>5, <2>7
    <3>2. i # a BY <1>1, <2>1, <2>2, <2>7, <3>1 DEF Chained, WelcomesChained
    <3>3. CASE i > a BY <3>3
    <3>4. CASE i < a
      <4>1. b \in i .. a BY <2>2, <2>3, <3>4
      <4> QED BY <2>2, <4>1 DEF Absent
    <3> QED BY <2>2, <2>3, <3>2, <3>3, <3>4
  <2> HIDE DEF a
  <2>8. GroupType BY DEF ReadInv
  <2> DEFINE h == Fresh(w.to)
  <2>9. /\ h.epoch = ch[a] /\ handle' = [handle EXCEPT ![c] = h] /\ net' = net
        /\ a \in 1 .. Len(ch) /\ \A d \in Client : packages'[d] \subseteq packages[d]
    BY <2>1, <2>4, <2>5
  <2> HIDE DEF h
  <2>10. /\ \A m \in net : m.kind = "commit" => m.by \in Client
         /\ \A x \in net : x.kind = "welcome" => x.who \in Client
    BY NetClients
  <2>11. /\ \A m \in net : \A j \in 1 .. Len(ch) :
               m.kind = "commit" /\ m.by = c /\ m.from = ch[j] => a > j \/ Absent(ch, c, a, j)
         /\ \A x \in net : \A i \in 1 .. Len(ch) :
               x.kind = "welcome" /\ x.who = c /\ x.kp \in packages'[c] /\ x.to = ch[i] =>
                   i > a \/ Absent(ch, c, i, a)
    BY <2>6, <2>7
  <2>12. Chained(ch)'
    BY <1>1, <2>8, <2>9, <2>10, <2>11, ChainedMove
  <2> QED BY <2>12 DEF SplitInv
<1>8. ASSUME NEW c \in Client, SendMessage(c) PROVE SplitInv'
  <2> DEFINE x == [kind |-> "application", by |-> c, epoch |-> handle[c].epoch,
                   generation |-> handle[c].sent, id |-> calls + 1, audience |-> expected[c],
                   misled |-> c \in misled]
  <2>1. net' = net \cup {x} /\ handle' = [handle EXCEPT ![c] = Sent(handle[c])] /\ packages' = packages
        /\ handle[c] # None /\ GoodHandle(c, handle[c])
    BY <1>8 DEF SendMessage, Active, ReadInv, HandlesInv
  <2>2. x.kind = "application" OBVIOUS
  <2> HIDE DEF x
  <2>3. Sent(handle[c]).epoch = handle[c].epoch
    <3>1. handle[c] = [epoch |-> handle[c].epoch, active |-> handle[c].active,
                       sent |-> handle[c].sent, opened |-> handle[c].opened]
      BY <2>1 DEF GoodHandle
    <3> QED BY <3>1 DEF Sent
  <2>4. \A d \in Client : handle'[d] # None => handle[d] # None /\ handle'[d].epoch = handle[d].epoch
    BY <2>1, <2>3 DEF ReadInv, GroupType
  <2>5. \A m \in net' : m.kind \in {"commit", "welcome"} => m \in net BY <2>1, <2>2
  <2>6. Chained(ch)' BY <1>1, <2>1, <2>4, <2>5, NetClients, ChainedUnchanged
  <2> QED BY <2>6 DEF SplitInv
<1>9. ASSUME NEW c \in Client, ProcessCommit(c) PROVE SplitInv'
  <2>1. PICK m \in net :
          /\ Active(c) /\ m.kind = "commit" /\ m.from = handle[c].epoch
          /\ handle' = [handle EXCEPT ![c] = MergeStaged(c, m.to)]
          /\ net' = net /\ packages' = packages
    BY <1>9 DEF ProcessCommit
  <2>2. PICK b \in 1 .. (Len(ch) - 1) : m.from = ch[b] /\ m.to = ch[b + 1]
    BY <1>1, <2>1 DEF Chained, CommitsChained
  <2>3. Len(ch) \in Nat /\ IsChain(ch) BY <1>1 DEF Chained, IsChain
  <2> DEFINE a == b + 1
             h == MergeStaged(c, m.to)
  <2>4. a \in 1 .. Len(ch) /\ b \in 1 .. Len(ch) BY <2>2, <2>3
  <2>4a. h.epoch = ch[a] BY <2>2 DEF MergeStaged, Fresh
  <2>5. c \in Members(ch[b].tree)
    BY <2>1, <2>2 DEF Active, ReadInv, HandlesInv, GoodHandle
  <2>6. ASSUME NEW x \in net, NEW j \in 1 .. Len(ch), x.kind = "commit", x.by = c, x.from = ch[j]
        PROVE  a > j \/ Absent(ch, c, a, j)
    <3>1. b > j \/ Absent(ch, c, b, j)
      BY <1>1, <2>1, <2>2, <2>4, <2>6 DEF Chained, NoReturn, Active
    <3>2. CASE b > j BY <2>3, <2>4, <3>2
    <3>3. CASE Absent(ch, c, b, j)
      <4>1. PICK g \in b .. j : c \notin Members(ch[g].tree) BY <3>3 DEF Absent
      <4>2. g # b BY <2>5, <4>1
      <4>3. g \in a .. j BY <2>2, <2>3, <4>1, <4>2
      <4> QED BY <4>1, <4>3 DEF Absent
    <3> QED BY <3>1, <3>2, <3>3
  <2>7. ASSUME NEW x \in net, NEW i \in 1 .. Len(ch),
               x.kind = "welcome", x.who = c, x.kp \in packages'[c], x.to = ch[i]
        PROVE  i > a \/ Absent(ch, c, i, a)
    <3>1. i > b \/ Absent(ch, c, i, b)
      BY <1>1, <2>1, <2>2, <2>4, <2>7 DEF Chained, WelcomesAhead, Active
    <3>2. i # a
      <4>1. PICK k \in 1 .. (Len(ch) - 1) : x.to = ch[k + 1] /\ c \notin Members(ch[k].tree)
        BY <1>1, <2>7 DEF Chained, WelcomesChained
      <4>2. k # b BY <2>5, <4>1
      <4>3. k + 1 \in 1 .. Len(ch) BY <2>3, <4>1
      <4>4. i = k + 1 BY <2>3, <2>7, <4>1, <4>3, ChainIndex
      <4> QED BY <2>2, <4>1, <4>2, <4>4
    <3>3. CASE i > b BY <2>3, <2>4, <3>2, <3>3
    <3>4. CASE Absent(ch, c, i, b)
      <4>1. \A g \in i .. b : g \in i .. a BY <2>3, <2>4
      <4> QED BY <3>4, <4>1 DEF Absent
    <3> QED BY <3>1, <3>3, <3>4
  <2> HIDE DEF a, h
  <2>8. GroupType /\ handle' = [handle EXCEPT ![c] = h] BY <2>1 DEF ReadInv, h
  <2>8a. net' = net /\ \A d \in Client : packages'[d] \subseteq packages[d] BY <2>1
  <2>8b. /\ \A x \in net : x.kind = "commit" => x.by \in Client
         /\ \A w \in net : w.kind = "welcome" => w.who \in Client
    BY NetClients
  <2>9. Chained(ch)'
    BY <1>1, <2>4, <2>4a, <2>6, <2>7, <2>8, <2>8a, <2>8b, ChainedMove
  <2> QED BY <2>9 DEF SplitInv
<1>10. ASSUME NEW c \in Client, ProcessApplication(c) PROVE SplitInv'
  <2>1. PICK m \in net :
          /\ Active(c) /\ net' = net /\ packages' = packages
          /\ handle' = [handle EXCEPT ![c].opened = @ \cup {<<m.by, m.generation>>}]
    BY <1>10 DEF ProcessApplication
  <2> DEFINE h == [handle[c] EXCEPT !.opened = @ \cup {<<m.by, m.generation>>}]
  <2>2. handle[c] # None /\ GoodHandle(c, handle[c]) /\ handle' = [handle EXCEPT ![c] = h]
    BY <2>1 DEF Active, ReadInv, HandlesInv
  <2>3. h.epoch = handle[c].epoch
    <3>1. handle[c] = [epoch |-> handle[c].epoch, active |-> handle[c].active,
                       sent |-> handle[c].sent, opened |-> handle[c].opened]
      BY <2>2 DEF GoodHandle
    <3> QED BY <3>1
  <2> HIDE DEF h
  <2>4. \A d \in Client : handle'[d] # None => handle[d] # None /\ handle'[d].epoch = handle[d].epoch
    BY <2>2, <2>3 DEF ReadInv, GroupType
  <2>5. Chained(ch)' BY <1>1, <2>1, <2>4, NetClients, ChainedUnchanged
  <2> QED BY <2>5 DEF SplitInv
<1>11. ASSUME NEW c \in Client, ExportState(c) PROVE SplitInv'
  <2>1. net' = net /\ handle' = handle /\ packages' = packages BY <1>11 DEF ExportState
  <2>2. Chained(ch)' BY <1>1, <2>1, NetClients, ChainedUnchanged
  <2> QED BY <2>2 DEF SplitInv
<1>12. ASSUME NEW c \in Client, ImportState(c) PROVE SplitInv'
  <2>1. handle[c] = exported[c].handle /\ packages[c] = exported[c].packages
    BY <1>12 DEF ImportState, Undisturbed
  <2>2. /\ net' = net /\ handle' = [handle EXCEPT ![c] = exported[c].handle]
        /\ packages' = [packages EXCEPT ![c] = exported[c].packages]
    BY <1>12 DEF ImportState
  <2>3. handle' = handle /\ packages' = packages BY <2>1, <2>2 DEF ReadInv, GroupType
  <2>4. Chained(ch)' BY <1>1, <2>2, <2>3, NetClients, ChainedUnchanged
  <2> QED BY <2>4 DEF SplitInv
<1>13. CASE UNCHANGED vars
  <2>1. net' = net /\ handle' = handle /\ packages' = packages BY <1>13 DEF vars
  <2>2. Chained(ch)' BY <1>1, <2>1, NetClients, ChainedUnchanged
  <2> QED BY <2>2 DEF SplitInv
<1> QED
  BY <1>2, <1>3, <1>4, <1>5, <1>6, <1>7, <1>8, <1>9, <1>10, <1>11, <1>12, <1>13 DEF Next

\* As long as no two members commit in the same epoch and nobody is restored
\* from a state it had left, the epochs of the group form one chain.
THEOREM OneHistory == Spec => []SplitInv
<1>1. Init => SplitInv
  <2> SUFFICES ASSUME Init PROVE \E ch : Chained(ch)
    BY DEF SplitInv
  <2> DEFINE ch == <<FirstEpoch>>
  <2>1. Len(ch) = 1 /\ ch[1] = FirstEpoch /\ ch = [i \in 1 .. 1 |-> ch[i]] OBVIOUS
  <2>2. FirstEpoch.commits = <<>> BY DEF FirstEpoch
  <2> HIDE DEF ch
  <2>3. \A i \in 1 .. 1 : i = 1 OBVIOUS
  <2>4. \A i \in 1 .. Len(ch) : ch[i].commits \in Seq(Nat) /\ Len(ch[i].commits) = i - 1
    <3>1. <<>> \in Seq(Nat) /\ Len(<<>>) = 1 - 1 OBVIOUS
    <3> QED BY <2>1, <2>2, <2>3, <3>1
  <2>5. <<>> = SubSeq(<<>>, 1, 1 - 1) OBVIOUS
  <2>6. IsChain(ch) BY <2>1, <2>2, <2>3, <2>4, <2>5 DEF IsChain
  <2>7. /\ CommitsChained(ch) /\ WelcomesChained(ch) /\ HandlesChained(ch)
        /\ NoReturn(ch) /\ NoReturnByWelcome(ch) /\ WelcomesAhead(ch)
    BY <2>1 DEF Init, CommitsChained, WelcomesChained, HandlesChained, NoReturn,
                NoReturnByWelcome, WelcomesAhead
  <2> QED BY <2>6, <2>7 DEF Chained
<1>2. ReadInv /\ SplitInv /\ [Next]_vars => SplitInv'
  BY SplitInvStep
<1> QED BY <1>1, <1>2, ReadInvariance, PTL DEF Spec

\* add_member and remove_member merge before anyone has the commit: the members
\* split only when two of them commit in the same epoch or one is restored.
THEOREM SplitNeedsRace == Spec => []SplitOnlyByRace
<1>1. SplitInv => SplitOnlyByRace
  <2> SUFFICES ASSUME SplitInv, NEW c \in Client, NEW d \in Client,
                      handle[c] # None, handle[d] # None, Undisturbed
               PROVE  \/ IsPrefixOf(handle[c].epoch.commits, handle[d].epoch.commits)
                      \/ IsPrefixOf(handle[d].epoch.commits, handle[c].epoch.commits)
    BY DEF SplitOnlyByRace, Undisturbed
  <2>1. PICK ch : Chained(ch) BY DEF SplitInv
  <2>2. PICK i \in 1 .. Len(ch) : handle[c].epoch = ch[i] BY <2>1 DEF Chained, HandlesChained
  <2>3. PICK j \in 1 .. Len(ch) : handle[d].epoch = ch[j] BY <2>1 DEF Chained, HandlesChained
  <2>4. /\ Len(ch) \in Nat
        /\ Len(ch[i].commits) = i - 1 /\ Len(ch[j].commits) = j - 1
        /\ i <= j => ch[i].commits = SubSeq(ch[j].commits, 1, i - 1)
        /\ j <= i => ch[j].commits = SubSeq(ch[i].commits, 1, j - 1)
    <3>1. Len(ch) \in Nat /\ IsChain(ch) BY <2>1 DEF Chained, IsChain
    <3>2. (i <= j => i \in 1 .. j) /\ (j <= i => j \in 1 .. i) BY <3>1
    <3> QED BY <3>1, <3>2 DEF IsChain
  <2> QED BY <2>2, <2>3, <2>4 DEF IsPrefixOf
<1> QED BY <1>1, OneHistory, PTL
=============================================================================
