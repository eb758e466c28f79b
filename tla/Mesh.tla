-------------------------------- MODULE Mesh --------------------------------
(***************************************************************************)
(* The Bluetooth mesh: a MeshNode (mesh/src/lib.rs) in every phone, driven *)
(* by the app's MeshService (mesh_service.dart), over radios that deliver  *)
(* late, twice, in any order or not at all.                                *)
(*                                                                         *)
(* A frame is its message's number in `sent` (the random msg_id) and its   *)
(* ttl; the payload is opaque.  What was broadcast towards a phone stays   *)
(* in `air`: the radio may still hand it over, once, again or never.       *)
(***************************************************************************)
EXTENDS Naturals, Sequences, FiniteSets

CONSTANTS
    Node,          \* the phones
    Link,          \* the pairs of phones that meet now and then
    Ttl,           \* hop budget of a new frame (DEFAULT_TTL, 16 in the code)
    SEEN_CAP,      \* message ids remembered for dedup (8192 in the code)
    STORE_CAP,     \* frames carried (2048 in the code)
    MaxMessages,   \* bound: messages that are originated
    MaxRestarts    \* bound: restarts of apps

ASSUME MeshAssumption ==
    /\ Ttl \in Nat \ {0}
    /\ SEEN_CAP \in Nat \ {0}
    /\ STORE_CAP \in Nat \ {0}
    /\ MaxMessages \in Nat
    /\ MaxRestarts \in Nat

VARIABLES
    sent,        \* the messages, in order: who originated it, and for whom
    seen,        \* [Node -> set of ids]: MeshNode.seen
    seenOrder,   \* [Node -> sequence of ids]: MeshNode.seen_order
    store,       \* [Node -> [ids -> ttl]]: MeshNode.store
    storeOrder,  \* [Node -> sequence of ids]: MeshNode.store_order
    air,         \* the frames radios have sent: receiver, id and ttl
    accepted,    \* history: [Node -> messages whose frame was accepted]
    again,       \* history: [Node -> those of them accepted a second time]
    delivered,   \* history: [Node -> messages surfaced to the app]
    restarts     \* how many apps were restarted

node == <<seen, seenOrder, store, storeOrder>>
history == <<accepted, again, delivered>>
vars == <<sent, node, air, history, restarts>>

Ids == 1 .. MaxMessages
Frame == [to : Node, id : Ids, ttl : 0 .. Ttl]
NoFrames == [id \in {} |-> 0]
Peers(n) == {m \in Node : {n, m} \in Link /\ m # n}

\* The set of a sequence's elements.
Elements(s) == {s[i] : i \in 1 .. Len(s)}

\* The shape of the state.
TypeOK ==
    /\ sent \in Seq([from : Node, to : Node])
    /\ Len(sent) <= MaxMessages
    /\ seen \in [Node -> SUBSET Ids]
    /\ seenOrder \in [Node -> Seq(Ids)]
    /\ DOMAIN store = Node
    /\ \A n \in Node : store[n] \in [Elements(storeOrder[n]) -> 1 .. Ttl]
    /\ storeOrder \in [Node -> Seq(Ids)]
    /\ air \in SUBSET Frame
    /\ accepted \in [Node -> SUBSET Ids]
    /\ again \in [Node -> SUBSET Ids]
    /\ delivered \in [Node -> SUBSET Ids]
    /\ restarts \in Nat

\* MeshNode::with_ttl on every phone.
Init ==
    /\ sent = <<>>
    /\ seen = [n \in Node |-> {}]
    /\ seenOrder = [n \in Node |-> <<>>]
    /\ store = [n \in Node |-> NoFrames]
    /\ storeOrder = [n \in Node |-> <<>>]
    /\ air = {}
    /\ accepted = [n \in Node |-> {}]
    /\ again = [n \in Node |-> {}]
    /\ delivered = [n \in Node |-> {}]
    /\ restarts = 0

-----------------------------------------------------------------------------
(* The two bounded indices of a node.                                      *)

\* Mutant: the evicted id stays in the hash set.
MarkSeenLeaks(n, id) ==
    LET order == IF id \in seen[n] THEN seenOrder[n] ELSE Append(seenOrder[n], id)
    IN  /\ seenOrder' = [seenOrder EXCEPT ![n] =
                            IF Len(order) > SEEN_CAP THEN Tail(order) ELSE order]
        /\ seen' = [seen EXCEPT ![n] = @ \cup {id}]

\* mark_seen evicts the oldest id once there are too many.
MarkSeen(n, id) ==
    LET order == IF id \in seen[n] THEN seenOrder[n] ELSE Append(seenOrder[n], id)
        full == Len(order) > SEEN_CAP
    IN  /\ seenOrder' = [seenOrder EXCEPT ![n] = IF full THEN Tail(order) ELSE order]
        /\ seen' = [seen EXCEPT ![n] = (@ \cup {id}) \ (IF full THEN {Head(order)} ELSE {})]

\* store_frame: a frame that is held already gets the new ttl, in its old place.
StoreFrame(n, id, ttl) ==
    LET held == id \in DOMAIN store[n]
        order == IF held THEN storeOrder[n] ELSE Append(storeOrder[n], id)
        full == Len(order) > STORE_CAP
        evicted == IF full THEN {Head(order)} ELSE {}
    IN  /\ storeOrder' = [storeOrder EXCEPT ![n] = IF full THEN Tail(order) ELSE order]
        /\ store' = [store EXCEPT ![n] =
                        [i \in (DOMAIN @ \cup {id}) \ evicted |->
                            IF i = id THEN ttl ELSE @[i]]]

\* What n's radio sends to all in range.
InRange(n, frames) ==
    {[to |-> m, id |-> i, ttl |-> frames[i]] : m \in Peers(n), i \in DOMAIN frames}

-----------------------------------------------------------------------------
\* MeshService.send: originate, and broadcast the new frame.
Send(n, to) ==
    LET id == Len(sent) + 1
    IN  /\ Len(sent) < MaxMessages
        /\ sent' = Append(sent, [from |-> n, to |-> to])
        /\ MarkSeen(n, id)
        /\ StoreFrame(n, id, Ttl)
        /\ air' = air \cup InRange(n, [i \in {id} |-> Ttl])
        /\ UNCHANGED <<history, restarts>>

\* Mutant: the frame is carried on with the ttl it came with.
ForwardTtlKept(ttl) == ttl

\* Mutant: the last hop of the budget is not used.
ForwardTtlTwice(ttl) == IF ttl < 2 THEN 0 ELSE ttl - 2

\* frame.ttl.saturating_sub(1)
ForwardTtl(ttl) == IF ttl = 0 THEN 0 ELSE ttl - 1

\* Mutant: the dedup test looks at what is carried, not at what was seen.
IsNewNotCarried(n, id) == id \notin DOMAIN store[n]

IsNew(n, id) == id \notin seen[n]

\* MeshService._onFrame of a frame that is new: handle_incoming delivers it if
\* it is for us and stores it if it may travel on; take_inbox surfaces it.
\* (handle_incoming of a frame it has seen changes nothing.)
OnFrame(f) ==
    LET n == f.to
        ttl == ForwardTtl(f.ttl)
        forMe == sent[f.id].to = n
    IN  /\ IsNew(n, f.id)
        /\ MarkSeen(n, f.id)
        /\ delivered' = IF forMe THEN [delivered EXCEPT ![n] = @ \cup {f.id}] ELSE delivered
        /\ IF ttl > 0 THEN StoreFrame(n, f.id, ttl) ELSE UNCHANGED <<store, storeOrder>>
        /\ accepted' = [accepted EXCEPT ![n] = @ \cup {f.id}]
        /\ again' = [again EXCEPT ![n] = @ \cup ({f.id} \cap accepted[n])]
        /\ UNCHANGED <<sent, air, restarts>>

\* MeshService._flush, every few seconds: the whole store to all in range.
Rebroadcast(n) ==
    /\ air' = air \cup InRange(n, store[n])
    /\ UNCHANGED <<sent, node, history, restarts>>

\* MeshService.dispose and a new one: nothing of the node is persisted.
Restart(n) ==
    /\ restarts < MaxRestarts
    /\ restarts' = restarts + 1
    /\ seen' = [seen EXCEPT ![n] = {}]
    /\ seenOrder' = [seenOrder EXCEPT ![n] = <<>>]
    /\ store' = [store EXCEPT ![n] = NoFrames]
    /\ storeOrder' = [storeOrder EXCEPT ![n] = <<>>]
    /\ accepted' = [accepted EXCEPT ![n] = {}]
    /\ again' = [again EXCEPT ![n] = {}]
    /\ UNCHANGED <<sent, air, delivered>>

Next ==
    \/ \E n \in Node : \E to \in Node \ {n} : Send(n, to)
    \/ \E f \in air : OnFrame(f)
    \/ \E n \in Node : Rebroadcast(n)
    \/ \E n \in Node : Restart(n)

Spec == Init /\ [][Next]_vars

\* Every phone's timer goes on, and a radio that is offered a frame again and
\* again receives it at last.
FairSpec ==
    /\ Spec
    /\ \A n \in Node : WF_vars(Rebroadcast(n))
    /\ \A f \in Frame : WF_vars(f \in air /\ OnFrame(f))

-----------------------------------------------------------------------------
\* The two structures of each index agree and stay within their caps, whatever
\* floods in: an id in one only would be remembered for ever, or be carried
\* and never offered.
IndicesAgree ==
    \A n \in Node :
        /\ Len(seenOrder[n]) <= SEEN_CAP
        /\ seen[n] = Elements(seenOrder[n])
        /\ Cardinality(seen[n]) = Len(seenOrder[n])
        /\ Len(storeOrder[n]) <= STORE_CAP
        /\ DOMAIN store[n] = Elements(storeOrder[n])
        /\ Cardinality(DOMAIN store[n]) = Len(storeOrder[n])

\* The phones within k meetings of n.
Within(n, k) ==
    LET ball[i \in 0 .. k] ==
            IF i = 0 THEN {n} ELSE ball[i - 1] \cup UNION {Peers(m) : m \in ball[i - 1]}
    IN  ball[k]

\* mesh/src/lib.rs: "`ttl` bounds how far a frame travels": however often a
\* frame is accepted again after its id was evicted, or overwritten by a copy
\* with another budget, no phone beyond Ttl hops of its origin ever sees it.
TtlBoundsReach ==
    \A n \in Node : \A id \in seen[n] : n \in Within(sent[id].from, Ttl)

\* MESH.md: nodes "process each `msg_id` once, so frames don't loop".  That is so
\* as long as no more messages travel than a node can remember: a frame is then
\* accepted once between two restarts, and never by its originator.
ProcessedOnceWithinCap ==
    Len(sent) <= SEEN_CAP =>
        \A n \in Node :
            /\ again[n] = {}
            /\ restarts = 0 => \A id \in accepted[n] : sent[id].from # n

\* The ways frames can take: phones that meet one another, none of them twice.
Ways ==
    {w \in UNION {[1 .. k -> Node] : k \in 1 .. Cardinality(Node)} :
        /\ \A i, j \in DOMAIN w : w[i] = w[j] => i = j
        /\ \A i \in 1 .. Len(w) - 1 : {w[i], w[i + 1]} \in Link}

\* A way on which no phone can be spoilt: a frame that comes to one of its
\* phones by any other way, short of the phones further on, has budget left.
Sure(w) ==
    \A i \in 1 .. Len(w) - 1 : \A v \in Ways :
        (v[1] = w[1] /\ v[Len(v)] = w[i] /\ Elements(v) \cap {w[j] : j \in i + 1 .. Len(w)} = {})
            => Len(v) - 1 < Ttl

\* From whom to whom there is such a way.
Assured == {<<w[1], w[Len(w)]>> : w \in {v \in Ways : Sure(v)}}

\* lib.rs: frames are carried "so a message reaches a recipient who was never
\* directly connected to the sender".  Being within Ttl hops is not enough: a
\* copy that took a detour and has no hops left makes a phone refuse the one
\* that has (handle_incoming: Duplicate).  The message arrives where some way
\* cannot be spoilt like that.
ReachesRecipient ==
    \A id \in Ids :
        (id <= Len(sent) /\ <<sent[id].from, sent[id].to>> \in Assured)
            ~> (id <= Len(sent) /\ id \in delivered[sent[id].to])
=============================================================================
