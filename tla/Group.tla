-------------------------------- MODULE Group --------------------------------
(***************************************************************************)
(* One MLS group as group/src/lib.rs wraps it: clients with a key store    *)
(* and a handle on the group, membership commits that are merged by their  *)
(* author before anyone else sees them, welcomes, application messages,    *)
(* and clients that are exported, dropped and imported again.              *)
(*                                                                         *)
(* OpenMLS is a library: an epoch is the list of the commits that led to   *)
(* it with the ratchet tree they built, a message opens only in its own    *)
(* epoch and once per sender and generation, a commit applies only to the  *)
(* epoch it was made in, and an addition takes the leftmost blank leaf.    *)
(* Every call that returns an error leaves the client as it was.           *)
(*                                                                         *)
(* Delivery is the caller's job: every blob stays on `net` and may be      *)
(* processed by anyone, late, in any order and repeatedly.                 *)
(***************************************************************************)
EXTENDS Integers, Sequences, FiniteSets, Functions

CONSTANTS
    Client,
    Creator,       \* the client that creates the group
    None,
    MaxCalls,      \* bound: calls that make, send, look up, export or import
                   \* something; joining and processing are free
    MaxMessages    \* bound: application messages

ASSUME GroupAssumption ==
    /\ IsFiniteSet(Client) /\ Creator \in Client /\ None \notin Client
    /\ MaxCalls \in Nat /\ MaxMessages \in Nat

VARIABLES
    handle,    \* [Client -> the group the client holds, or None]
    packages,  \* [Client -> the key packages whose private half is in its store]
    minted,    \* [Client -> how many key packages it ever made]
    exported,  \* [Client -> what export_state last wrote, or None]
    net,       \* every blob the calls returned
    calls,
    looked,    \* [Client -> the last answer of member_index, or None]
    expected,  \* history: [Client -> the members its caller counts on]
    misled,    \* history: the clients whose removal hit another member
    reads,     \* history: <<client, application message>>
    events     \* history: what may split the group or strand a member

Event ==
    {"race",      \* two members made a commit in the same epoch
     "restore",   \* a client was imported from a state it had left
     "reuse",     \* a key package was used for a second addition
     "rejoin"}    \* a member of the group joined by another welcome

vars == <<handle, packages, minted, exported, net, calls,
          looked, expected, misled, reads, events>>

Leaf == 0 .. (Cardinality(Client) - 1)

\* Group::members
Members(tree) == Range(tree)

IsTree(tree) == DOMAIN tree \subseteq Leaf /\ Members(tree) \subseteq Client
IsEpoch(e) == e.commits \in Seq(Nat) /\ IsTree(e.tree)

\* A handle: MlsGroup in an epoch, with the generations it used up in it.
Fresh(epoch) == [epoch |-> epoch, active |-> TRUE, sent |-> 0, opened |-> {}]

Active(c) == handle[c] # None /\ handle[c].active

\* The shape of the state.
TypeOK ==
    /\ \A c \in Client : handle[c] # None => IsEpoch(handle[c].epoch)
    /\ \A c \in Client : Active(c) => c \in Members(handle[c].epoch.tree)
    /\ packages \in [Client -> SUBSET (1 .. MaxCalls)]
    /\ minted \in [Client -> 0 .. MaxCalls]
    /\ expected \in [Client -> SUBSET Client]
    /\ misled \subseteq Client
    /\ events \subseteq Event

Init ==
    /\ handle = [c \in Client |-> None]
    /\ packages = [c \in Client |-> {}]
    /\ minted = [c \in Client |-> 0]
    /\ exported = [c \in Client |-> None]
    /\ net = {}
    /\ calls = 0
    /\ looked = [c \in Client |-> None]
    /\ expected = [c \in Client |-> {}]
    /\ misled = {} /\ reads = {} /\ events = {}

-----------------------------------------------------------------------------
Called == calls < MaxCalls /\ calls' = calls + 1

\* GroupClient::key_package
KeyPackage(c) ==
    /\ Called
    /\ minted' = [minted EXCEPT ![c] = @ + 1]
    /\ packages' = [packages EXCEPT ![c] = @ \cup {minted[c] + 1}]
    /\ UNCHANGED <<handle, exported, net, looked, expected, misled, reads, events>>

\* GroupClient::create_group
CreateGroup ==
    /\ handle[Creator] = None
    /\ calls = 0
    /\ handle' = [handle EXCEPT ![Creator] =
                    Fresh([commits |-> <<>>, tree |-> [l \in {0} |-> Creator]])]
    /\ expected' = [expected EXCEPT ![Creator] = {Creator}]
    /\ UNCHANGED <<packages, minted, exported, net, calls, looked, misled, reads, events>>

\* OpenMLS: the tree with `who` in the leftmost blank leaf, or without a leaf.
LeftmostBlank(tree) ==
    CHOOSE l \in Leaf \ DOMAIN tree : \A k \in Leaf \ DOMAIN tree : l <= k

WithMember(tree, who) ==
    [l \in DOMAIN tree \cup {LeftmostBlank(tree)} |->
        IF l \in DOMAIN tree THEN tree[l] ELSE who]

WithoutLeaf(tree, leaf) == [l \in DOMAIN tree \ {leaf} |-> tree[l]]

\* OpenMLS: the epoch a commit of this client leads to.
Successor(c, tree) ==
    [commits |-> Append(handle[c].epoch.commits, calls + 1), tree |-> tree]

Commit(c, to) == [kind |-> "commit", by |-> c, from |-> handle[c].epoch, to |-> to]

\* Another member made a commit in the epoch that c now commits in.
RaceEvents(c) ==
    {"race" : m \in {x \in net : x.kind = "commit" /\ x.from = handle[c].epoch /\ x.by # c}}

Welcomed(who, kp) == \E m \in net : m.kind = "welcome" /\ m.who = who /\ m.kp = kp

\* Mutant: the author does not merge its commit.
MergeOwnForgotten(c, to) == handle[c]

\* Mutant: the author of a removal does not merge it.
MergeOwnAdditions(c, to) ==
    IF Members(to.tree) \subseteq Members(handle[c].epoch.tree) THEN handle[c] ELSE Fresh(to)

\* merge_pending_commit: the author's own copy, before anyone has the commit.
MergeOwn(c, to) == Fresh(to)

\* The members a caller counts on once its call has returned.
Knows(c, who) == expected' = [expected EXCEPT ![c] = who]

\* It asks for them (Group::members) after it joined, was told of a change, or
\* loaded the group.
Learns(c, who) == Knows(c, who) /\ misled' = misled \ {c}

\* Group::add_member, with a key package of `who`.
AddMember(c, who, kp) ==
    LET to == Successor(c, WithMember(handle[c].epoch.tree, who))
    IN  /\ Active(c)
        /\ Called
        /\ kp \in 1 .. minted[who]
        /\ who \notin Members(handle[c].epoch.tree)
        /\ net' = net \cup {Commit(c, to), [kind |-> "welcome", who |-> who, kp |-> kp, to |-> to]}
        /\ handle' = [handle EXCEPT ![c] = MergeOwn(c, to)]
        /\ Knows(c, expected[c] \cup {who})
        /\ events' = events \cup RaceEvents(c)
                            \cup (IF Welcomed(who, kp) THEN {"reuse"} ELSE {})
        /\ UNCHANGED <<packages, minted, exported, looked, misled, reads>>

\* Mutant: leaves are counted from one.
MemberIndexFromOne(tree, who) == 1 + CHOOSE l \in DOMAIN tree : tree[l] = who

\* Group::member_index of a member.
MemberIndex(tree, who) == CHOOSE l \in DOMAIN tree : tree[l] = who

\* A caller asks for the index of a member it wants to remove.
LookUp(c, who) ==
    /\ Active(c)
    /\ Called
    /\ looked[c] = None
    /\ who \in Members(handle[c].epoch.tree) \ {c}
    /\ looked' = [looked EXCEPT ![c] =
                    [who |-> who, index |-> MemberIndex(handle[c].epoch.tree, who),
                     epoch |-> handle[c].epoch]]
    /\ UNCHANGED <<handle, packages, minted, exported, net, expected, misled, reads, events>>

\* The index is of another epoch, and the leaf is somebody else's by now.
WrongLeaf(c) ==
    /\ looked[c].epoch # handle[c].epoch
    /\ handle[c].epoch.tree[looked[c].index] # looked[c].who

\* Group::remove_member with that index; a blank leaf, or its own, is an error.
RemoveMember(c) ==
    LET leaf == looked[c].index
        tree == handle[c].epoch.tree
        to == Successor(c, WithoutLeaf(tree, leaf))
    IN  /\ Active(c)
        /\ looked[c] # None
        /\ Called
        /\ leaf \in DOMAIN tree
        /\ tree[leaf] # c
        /\ net' = net \cup {Commit(c, to)}
        /\ handle' = [handle EXCEPT ![c] = MergeOwn(c, to)]
        /\ Knows(c, expected[c] \ {looked[c].who})
        /\ misled' = IF WrongLeaf(c) THEN misled \cup {c} ELSE misled
        /\ events' = events \cup RaceEvents(c)
        /\ UNCHANGED <<packages, minted, exported, looked, reads>>

-----------------------------------------------------------------------------
\* GroupClient::join_group: the private half of the key package is used up, and
\* the group replaces one of the same id in the store, newer or not.
JoinGroup(c) ==
    \E m \in net :
        /\ m.kind = "welcome" /\ m.who = c /\ m.kp \in packages[c]
        /\ packages' = [packages EXCEPT ![c] = @ \ {m.kp}]
        /\ handle' = [handle EXCEPT ![c] = Fresh(m.to)]
        /\ Learns(c, Members(m.to.tree))
        /\ events' = events \cup (IF Active(c) THEN {"rejoin"} ELSE {})
        /\ UNCHANGED <<minted, exported, net, calls, looked, reads>>

\* create_message moves the sender to its next generation.
Sent(h) == [h EXCEPT !.sent = @ + 1]

\* Group::send
SendMessage(c) ==
    /\ Active(c)
    /\ Called
    /\ Cardinality({m \in net : m.kind = "application"}) < MaxMessages
    /\ net' = net \cup {[kind |-> "application", by |-> c, epoch |-> handle[c].epoch,
                         generation |-> handle[c].sent, id |-> calls + 1,
                         audience |-> expected[c], misled |-> c \in misled]}
    /\ handle' = [handle EXCEPT ![c] = Sent(@)]
    /\ UNCHANGED <<packages, minted, exported, looked, expected, misled, reads, events>>

\* merge_staged_commit: a client that is removed holds an inactive group.
MergeStaged(c, to) == [Fresh(to) EXCEPT !.active = c \in Members(to.tree)]

\* Group::process of a commit: staged and merged in one call.
ProcessCommit(c) ==
    \E m \in net :
        /\ Active(c)
        /\ m.kind = "commit" /\ m.by # c /\ m.from = handle[c].epoch
        /\ handle' = [handle EXCEPT ![c] = MergeStaged(c, m.to)]
        /\ Learns(c, Members(m.to.tree))
        /\ UNCHANGED <<packages, minted, exported, net, calls, looked, reads, events>>

\* Group::process of an application message.
ProcessApplication(c) ==
    \E m \in net :
        /\ Active(c)
        /\ m.kind = "application" /\ m.by # c /\ m.epoch = handle[c].epoch
        /\ <<m.by, m.generation>> \notin handle[c].opened
        /\ handle' = [handle EXCEPT ![c].opened = @ \cup {<<m.by, m.generation>>}]
        /\ reads' = reads \cup {<<c, m>>}
        /\ UNCHANGED <<packages, minted, exported, net, calls, looked, expected,
                       misled, events>>

\* GroupClient::export_state: the whole key store, groups included.
ExportState(c) ==
    /\ Called
    /\ exported' = [exported EXCEPT ![c] = [handle |-> handle[c], packages |-> packages[c]]]
    /\ UNCHANGED <<handle, packages, minted, net, looked, expected, misled, reads, events>>

\* A restart: GroupClient::import_state and load_group.
ImportState(c) ==
    LET found == exported[c].handle
    IN  /\ exported[c] # None
        /\ Called
        /\ handle' = [handle EXCEPT ![c] = found]
        /\ packages' = [packages EXCEPT ![c] = exported[c].packages]
        /\ Learns(c, IF found = None THEN {} ELSE Members(found.epoch.tree))
        /\ looked' = [looked EXCEPT ![c] = None]
        /\ events' = events \cup
             (IF handle[c] # found \/ packages[c] # exported[c].packages
                THEN {"restore"} ELSE {})
        /\ UNCHANGED <<minted, exported, net, reads>>

Next ==
    \/ CreateGroup
    \/ \E c \in Client :
          \/ KeyPackage(c)
          \/ \E who \in Client, kp \in 1 .. MaxCalls : AddMember(c, who, kp)
          \/ \E who \in Client : LookUp(c, who)
          \/ RemoveMember(c)
          \/ JoinGroup(c)
          \/ SendMessage(c)
          \/ ProcessCommit(c)
          \/ ProcessApplication(c)
          \/ ExportState(c)
          \/ ImportState(c)

Spec == Init /\ [][Next]_vars

\* The transport delivers what it is given, and the client takes it in.
FairSpec ==
    /\ Spec
    /\ \A c \in Client : WF_vars(JoinGroup(c) \/ ProcessCommit(c))

-----------------------------------------------------------------------------
IsPrefixOf(s, t) == Len(s) <= Len(t) /\ s = SubSeq(t, 1, Len(s))

\* add_member and remove_member merge before the commit is fanned out, and
\* nothing arbitrates between two of them: the members split into groups that
\* cannot read each other only when two of them commit in the same epoch, or
\* when one was restored from a state it had already left.
SplitOnlyByRace ==
    \A c, d \in Client :
        handle[c] # None /\ handle[d] # None /\ events \cap {"race", "restore"} = {} =>
            LET s == handle[c].epoch.commits
                t == handle[d].epoch.commits
            IN  IsPrefixOf(s, t) \/ IsPrefixOf(t, s)

\* member_index and remove_member are two calls, and leaves are reused: the
\* members a caller has after what it asked for are the members of its group,
\* unless it removed by an index of another epoch and hit somebody else.
MembersAsAsked ==
    \A c \in Client :
        Active(c) /\ c \notin misled => Members(handle[c].epoch.tree) = expected[c]

\* tests.rs, "removed member must not decrypt post-removal traffic", and the
\* same for a newcomer and earlier traffic: a message is read only by those the
\* sender's calls had made members when it was sent - also across races,
\* re-additions and restarts, unless an index misled the sender.
ReadOnlyByAudience == \A r \in reads : r[1] \in r[2].audience \/ r[2].misled

\* The latest list of members that any commit produced.
Latest ==
    {m \in net : m.kind = "commit" /\ \A n \in net :
        n.kind = "commit" => Len(n.to.commits) <= Len(m.to.commits)}

\* When none of the events happened, every member that the last commit lists
\* ends up in its epoch, however late and shuffled commits and welcomes arrive.
EveryoneCatchesUp ==
    <>[](events = {} => \A m \in Latest : \A c \in Members(m.to.tree) :
            Active(c) /\ handle[c].epoch = m.to)
=============================================================================
