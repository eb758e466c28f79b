------------------------------- MODULE PreKeys -------------------------------
(***************************************************************************)
(* The life of one-time prekeys: the account that mints and consumes them  *)
(* (core/src/identity.rs, behind ffi/src/lib.rs), the app that stores and  *)
(* publishes it (app_state.dart) through its worker isolate, the relay's   *)
(* directory that hands keys out, and the peers that open sessions.        *)
(*                                                                         *)
(* A prekey is an id and the key material the random generator gave; the   *)
(* handshake succeeds exactly when both ends hold the same material.       *)
(*                                                                         *)
(* The main isolate runs a handler up to its next await in one step.  What *)
(* it awaits lies in two FIFO queues: `writes` to the secure storage and   *)
(* `requests` to the worker.  A killed app loses both.                     *)
(***************************************************************************)
EXTENDS Naturals, Sequences, FiniteSets

CONSTANTS
    Peer,          \* the contacts that may open a session with us
    Minted,        \* one-time prekeys of a new account (100 in the code)
    LowWater,      \* _prekeyLowWater (40 in the code)
    Target,        \* _prekeyTarget (100 in the code)
    None,          \* Rust's None, Dart's null
    MaxFaults,     \* bound: kills of either side, changes of the transport, failed
                   \* writes, publications and fetches, and messages that do not
                   \* open, together
    MaxWrites      \* bound: storage writes that wait at the same time

ASSUME PreKeysAssumption ==
    /\ Minted \in Nat
    /\ LowWater \in Nat
    /\ Target \in Nat
    /\ LowWater <= Target

VARIABLES
    account,    \* the account in memory, or None while the app is down
    sessions,   \* the peers we hold a session with, in memory
    contacts,   \* the peers in the contact list, in memory
    storage,    \* the secure storage: account, sessions, contacts
    writes,     \* storage writes that were issued and have not landed
    requests,   \* publications the worker has still to serve
    phase,      \* where initialize or _startTransport stands
    replenish,  \* where _maybeReplenishPrekeys stands ("idle": _replenishing is false)
    directory,  \* the relay's prekeys for us, or None
    saved,      \* what the relay's file has of them
    bundle,     \* [Peer -> the bundle a peer fetched, or None]
    fresh,      \* the next key of the random generator
    restarts, kills, switches, failures,
    uses,       \* history: <<peer, key>> for every session opened with a key
    burned,     \* history: keys a message used up without opening a session
    undone,     \* history: keys whose use a kill of the app undid
    exposed,    \* history: keys published before they were stored
    unsaved,    \* history: peers for whom a write failed since the app started
    lost        \* history: peers whose session a kill of the app took

app == <<account, sessions, contacts, storage, writes, requests, phase, replenish>>
history == <<uses, burned, undone, exposed, unsaved, lost>>
bounds == <<restarts, kills, switches, failures>>
Faults == restarts + kills + switches + failures + Cardinality(burned)
vars == <<app, directory, saved, bundle, fresh, bounds, history>>

Key == Nat
Prekey == [id : Nat, key : Key]

\* None is neither a prekey nor a stored account.
ASSUME NoneAssumption ==
    /\ None \notin Prekey
    /\ None \notin [one_time_prekeys : SUBSET Prekey, next_opk_id : Nat]

NoPool == [id \in {} |-> None]

\* The prekeys of a pool, as the set of its entries.
Entries(pool) == {[id |-> i, key |-> pool[i]] : i \in DOMAIN pool}
KeysOf(prekeys) == {p.key : p \in prekeys}
SeqElements(s) == {s[i] : i \in 1 .. Len(s)}

IsPool(pool) == pool = [i \in DOMAIN pool |-> pool[i]] /\ Entries(pool) \subseteq Prekey
IsAccount(a) == IsPool(a.one_time_prekeys) /\ a.next_opk_id \in Nat

\* The shape of the state.
TypeOK ==
    /\ account # None => IsAccount(account)
    /\ sessions \in SUBSET Peer
    /\ contacts \in SUBSET Peer
    /\ storage.sessions \in SUBSET Peer
    /\ storage.contacts \in SUBSET Peer
    /\ Len(writes) <= MaxWrites + 3
    /\ phase \in {"down", "storing", "failed", "starting", "publishing", "running"}
    /\ replenish \in {"idle", "writing", "publishing"}
    /\ (phase = "down") = (account = None)
    /\ \A d \in {directory, saved} : d # None => d.one_time \in Seq(Prekey)
    /\ bundle \in [Peer -> {None} \cup [opk : Prekey \cup {None}]]
    /\ fresh \in Nat

-----------------------------------------------------------------------------
(* identity.rs *)

\* Account::generate_with_prekeys
GenerateWithPrekeys(count) ==
    [one_time_prekeys |-> [i \in 0 .. (count - 1) |-> fresh + i],
     next_opk_id      |-> count]

Lowest(pool) == CHOOSE i \in DOMAIN pool : \A j \in DOMAIN pool : i <= j

\* Account::bundle: the signed keys (which never change) and the lowest prekey.
Bundle(a) ==
    LET pool == a.one_time_prekeys
    IN  [opk |-> IF pool = NoPool THEN None
                 ELSE [id |-> Lowest(pool), key |-> pool[Lowest(pool)]]]

\* Mutant: the prekey is looked up, and stays.
TakeOneTimePrekeyKeeps(a, id) == a

\* Account::take_one_time_prekey of an id that is there.
TakeOneTimePrekey(a, id) ==
    [a EXCEPT !.one_time_prekeys = [i \in DOMAIN @ \ {id} |-> @[i]]]

\* Account::one_time_prekeys_remaining
Remaining(a) == Cardinality(DOMAIN a.one_time_prekeys)

\* Account::one_time_prekey_publics, in the order of the BTreeMap.
OneTimePrekeyPublics(a) ==
    LET pool == a.one_time_prekeys
        Nth(n) == CHOOSE i \in DOMAIN pool :
                      Cardinality({j \in DOMAIN pool : j < i}) = n - 1
    IN  [n \in 1 .. Remaining(a) |-> [id |-> Nth(n), key |-> pool[Nth(n)]]]

\* Mutant: the new ids follow the number of the keys that are left.
ReplenishRenumbers(a, count) ==
    LET first == Cardinality(DOMAIN a.one_time_prekeys)
        new == first .. (first + count - 1)
    IN  [one_time_prekeys |->
             [i \in DOMAIN a.one_time_prekeys \cup new |->
                 IF i \in new THEN fresh + i - first ELSE a.one_time_prekeys[i]],
         next_opk_id |-> first + count]

\* Account::replenish_one_time_prekeys
ReplenishOneTimePrekeys(a, count) ==
    LET new == a.next_opk_id .. (a.next_opk_id + count - 1)
    IN  [one_time_prekeys |->
             [i \in DOMAIN a.one_time_prekeys \cup new |->
                 IF i \in new THEN fresh + i - a.next_opk_id ELSE a.one_time_prekeys[i]],
         next_opk_id |-> a.next_opk_id + count]

\* Account::to_bytes: the map becomes a list of pairs, here their set.
ToBytes(a) ==
    [one_time_prekeys |-> Entries(a.one_time_prekeys), next_opk_id |-> a.next_opk_id]

\* Account::from_bytes
FromBytes(b) ==
    [one_time_prekeys |->
         [i \in {p.id : p \in b.one_time_prekeys} |->
             (CHOOSE p \in b.one_time_prekeys : p.id = i).key],
     next_opk_id |-> b.next_opk_id]

-----------------------------------------------------------------------------
(* ffi/src/lib.rs *)

\* clarity_account_bundle_base and clarity_account_one_time_publics, the two
\* buffers _publishBundle puts together.
BundleBase(a) == [Bundle(a) EXCEPT !.opk = None]

Publication(a, from) ==
    [base |-> BundleBase(a), one_time |-> OneTimePrekeyPublics(a), from |-> from]

\* handshake::respond finds a private half for the initiator's prekey, if it
\* names one, and both halves belong together.
HoldsId(a, opk) ==
    IF opk = None THEN TRUE ELSE opk.id \in DOMAIN a.one_time_prekeys
Agrees(a, opk) ==
    IF opk = None THEN TRUE ELSE a.one_time_prekeys[opk.id] = opk.key
Consume(a, opk) == IF opk = None THEN a ELSE TakeOneTimePrekey(a, opk.id)

-----------------------------------------------------------------------------
Init ==
    /\ account = None
    /\ sessions = {}
    /\ contacts = {}
    /\ storage = [account |-> None, sessions |-> {}, contacts |-> {}]
    /\ writes = <<>>
    /\ requests = <<>>
    /\ phase = "down"
    /\ replenish = "idle"
    /\ directory = None
    /\ saved = None
    /\ bundle = [p \in Peer |-> None]
    /\ fresh = 0
    /\ restarts = 0
    /\ kills = 0
    /\ switches = 0
    /\ failures = 0
    /\ uses = {}
    /\ burned = {}
    /\ undone = {}
    /\ exposed = {}
    /\ unsaved = {}
    /\ lost = {}

\* initialize on the first start: the new account is stored before all else.
Generate ==
    /\ phase = "down"
    /\ storage.account = None
    /\ account' = GenerateWithPrekeys(Minted)
    /\ fresh' = fresh + Minted
    /\ writes' = <<[what |-> "account", value |-> ToBytes(account')]>>
    /\ phase' = "storing"
    /\ UNCHANGED <<sessions, contacts, storage, requests, replenish, directory,
                   saved, bundle, bounds, history>>

\* initialize on a later start: a session is restored if its contact was stored.
Restore ==
    /\ phase = "down"
    /\ storage.account # None
    /\ account' = FromBytes(storage.account)
    /\ contacts' = storage.contacts
    /\ sessions' = storage.sessions \cap storage.contacts
    /\ phase' = "starting"
    /\ UNCHANGED <<storage, writes, requests, replenish, directory, saved, bundle,
                   fresh, bounds, history>>

\* The publication is made of what memory holds, stored or not.
Publish(from) == requests' = Append(requests, Publication(account, from))

\* _startTransport: the worker is up, the bundle is on its way.
StartTransport ==
    /\ phase = "starting"
    /\ Publish("start")
    /\ phase' = "publishing"
    /\ exposed' = exposed \cup (KeysOf(Entries(account.one_time_prekeys))
                                   \ KeysOf(storage.account.one_time_prekeys))
    /\ UNCHANGED <<account, sessions, contacts, storage, writes, replenish, directory,
                   saved, bundle, fresh, bounds, uses, burned, undone, unsaved, lost>>

\* setConfig: _stopTransport kills the worker with what it has not served.
SwitchTransport ==
    /\ phase = "running"
    /\ Faults < MaxFaults
    /\ switches' = switches + 1
    /\ requests' = <<>>
    /\ phase' = "starting"
    /\ UNCHANGED <<account, sessions, contacts, storage, writes, replenish, directory,
                   saved, bundle, fresh, restarts, kills, failures, history>>

\* Mutant: the account is serialized before the new prekeys are in it.
MaybeReplenishEarly(a, w) ==
    IF replenish # "idle" \/ Remaining(a) >= LowWater
      THEN /\ account' = a
           /\ writes' = writes \o w
           /\ UNCHANGED <<replenish, fresh>>
      ELSE /\ account' = ReplenishOneTimePrekeys(a, Target - Remaining(a))
           /\ fresh' = fresh + Target - Remaining(a)
           /\ writes' = writes \o <<[what |-> "account", value |-> ToBytes(a)]>> \o w
           /\ replenish' = "writing"

\* _maybeReplenishPrekeys up to its first await, on account a with the storage
\* writes w still to be issued after its own.
MaybeReplenish(a, w) ==
    IF replenish # "idle" \/ Remaining(a) >= LowWater
      THEN /\ account' = a
           /\ writes' = writes \o w
           /\ UNCHANGED <<replenish, fresh>>
      ELSE /\ account' = ReplenishOneTimePrekeys(a, Target - Remaining(a))
           /\ fresh' = fresh + Target - Remaining(a)
           /\ writes' = writes \o <<[what |-> "account", value |-> ToBytes(account')]>> \o w
           /\ replenish' = "writing"

\* What waits for the account write: initialize goes on, or the replenishment
\* publishes - through `_relay?`, which is null while no worker runs.
AfterAccountWrite ==
    IF phase = "storing"
      THEN /\ phase' = "starting"
           /\ UNCHANGED <<requests, replenish>>
      ELSE /\ IF phase = "starting"
                THEN replenish' = "idle" /\ UNCHANGED requests
                ELSE replenish' = "publishing" /\ Publish("replenish")
           /\ UNCHANGED phase

WriteLands ==
    LET w == Head(writes)
    IN  /\ writes # <<>>
        /\ writes' = Tail(writes)
        /\ storage' = IF w.what = "sessions"
                        THEN [storage EXCEPT !.sessions = @ \cup {w.value}]
                        ELSE [storage EXCEPT ![w.what] = w.value]
        /\ IF w.what = "account"
             THEN AfterAccountWrite
             ELSE UNCHANGED <<requests, replenish, phase>>
        /\ UNCHANGED <<account, sessions, contacts, directory, saved, bundle, fresh,
                       bounds, history>>

\* The write at the head throws.  Of the account: initialize ends on its error
\* screen, or the replenishment ends in its `finally` with nothing published.  Of
\* a session or the contact list: nobody awaits it.
WriteFails ==
    LET w == Head(writes)
    IN  /\ writes # <<>>
        /\ Faults < MaxFaults
        /\ failures' = failures + 1
        /\ writes' = Tail(writes)
        /\ IF w.what # "account"
             THEN UNCHANGED <<phase, replenish>>
             ELSE /\ phase' = IF phase = "storing" THEN "failed" ELSE phase
                  /\ replenish' = "idle"
        /\ unsaved' = CASE w.what = "account"  -> unsaved
                         [] w.what = "sessions" -> unsaved \cup {w.value}
                         [] w.what = "contacts" -> unsaved \cup (w.value \ storage.contacts)
        /\ UNCHANGED <<account, sessions, contacts, storage, requests, directory, saved,
                       bundle, fresh, restarts, kills, switches, uses, burned, undone,
                       exposed, lost>>

\* Mutant: the flag is reset on one way out only.
AnsweredFlagStays(r) ==
    /\ requests' = Tail(requests)
    /\ IF r.from = "start"
         THEN /\ phase' = "running"
              /\ MaybeReplenish(account, <<>>)
         ELSE UNCHANGED <<replenish, phase, account, writes, fresh>>
    /\ UNCHANGED <<sessions, contacts, storage, saved, bundle, restarts, kills, switches,
                   history>>

\* The worker has served a publication; main awaits it and ignores the result.
Answered(r) ==
    /\ requests' = Tail(requests)
    /\ IF r.from = "start"
         THEN /\ phase' = "running"
              /\ MaybeReplenish(account, <<>>)
         ELSE /\ replenish' = "idle"
              /\ UNCHANGED <<phase, account, writes, fresh>>
    /\ UNCHANGED <<sessions, contacts, storage, saved, bundle, restarts, kills, switches,
                   history>>

\* RelayTransport::publish reaches the relay, whose directory takes the new pool
\* in place of the old one.
PublishLands ==
    /\ requests # <<>>
    /\ directory' = [base     |-> [Head(requests).base EXCEPT !.opk = None],
                     one_time |-> Head(requests).one_time]
    /\ UNCHANGED failures
    /\ Answered(Head(requests))

PublishFails ==
    /\ requests # <<>>
    /\ Faults < MaxFaults
    /\ failures' = failures + 1
    /\ UNCHANGED directory
    /\ Answered(Head(requests))

\* The peers whose session or contact is in a write that has not landed.
SessionOwed(p) == \E i \in 1 .. Len(writes) : writes[i] = [what |-> "sessions", value |-> p]
ContactOwed(p) ==
    \E i \in 1 .. Len(writes) : writes[i].what = "contacts" /\ p \in writes[i].value
Owed == {p \in Peer : SessionOwed(p) \/ ContactOwed(p)}

\* The app is killed: everything that is not in the storage is gone.
KillApp ==
    /\ phase # "down"
    /\ Faults < MaxFaults
    /\ restarts' = restarts + 1
    /\ account' = None
    /\ sessions' = {}
    /\ contacts' = {}
    /\ writes' = <<>>
    /\ requests' = <<>>
    /\ phase' = "down"
    /\ replenish' = "idle"
    /\ undone' = IF storage.account = None THEN undone
                 ELSE undone \cup (KeysOf(storage.account.one_time_prekeys)
                                     \cap {u[2] : u \in uses})
    /\ lost' = lost \cup ((Owed \cup unsaved) \ (storage.sessions \cap storage.contacts))
    /\ unsaved' = {}
    /\ UNCHANGED <<storage, directory, saved, bundle, fresh, kills, switches, failures,
                   uses, burned, exposed>>

-----------------------------------------------------------------------------
(* The relay and the peers. *)

\* RelayStore::fetch_bundle: the base bundle with the first prekey of the pool.
Dispensed(d) == IF d.one_time = <<>> THEN d.base ELSE [opk |-> Head(d.one_time)]
Rest(d) == [d EXCEPT !.one_time = IF @ = <<>> THEN @ ELSE Tail(@)]

\* addContact of peer p: the bundle is fetched, and a session initiated with it.
FetchBundle(p) ==
    /\ bundle[p] = None
    /\ directory # None
    /\ bundle' = [bundle EXCEPT ![p] = Dispensed(directory)]
    /\ directory' = Rest(directory)
    /\ UNCHANGED <<app, saved, fresh, bounds, history>>

\* The same with the response lost: the prekey is gone, the peer has nothing.
FetchLost ==
    /\ directory # None
    /\ directory.one_time # <<>>
    /\ Faults < MaxFaults
    /\ failures' = failures + 1
    /\ directory' = Rest(directory)
    /\ UNCHANGED <<app, saved, bundle, fresh, restarts, kills, switches, history>>

FlushDirectory ==
    /\ saved # directory
    /\ saved' = directory
    /\ UNCHANGED <<app, directory, bundle, fresh, bounds, history>>

\* A hard kill of the relay brings back what its file has.
KillRelay ==
    /\ Faults < MaxFaults
    /\ kills' = kills + 1
    /\ directory' = saved
    /\ UNCHANGED <<app, saved, bundle, fresh, restarts, switches, failures, history>>

\* Mutant: the contact list is written as it was before the message.
SessionWritesStale(p) ==
    <<[what |-> "sessions", value |-> p], [what |-> "contacts", value |-> contacts]>>

\* The writes a handled message issues: the session, then the contact list.
SessionWrites(p) ==
    <<[what |-> "sessions", value |-> p], [what |-> "contacts", value |-> contacts']>>

\* A PreKey message of p comes to an app that has no session with p.
Waiting(p) == phase = "running" /\ bundle[p] # None /\ p \notin sessions

\* _handleIncoming of a PreKey message of p.
\* (a) With a session: it is decrypted there, whatever its handshake says.
HandleKnown(p) ==
    /\ phase = "running"
    /\ bundle[p] # None
    /\ p \in sessions
    /\ Len(writes) < MaxWrites
    /\ contacts' = contacts
    /\ sessions' = sessions
    /\ writes' = writes \o SessionWrites(p)
    /\ UNCHANGED <<account, storage, requests, phase, replenish, directory, saved,
                   bundle, fresh, bounds, history>>

\* (b) Without one, and with its prekey in the account: Session::respond opens it.
HandleNew(p) ==
    LET opk == bundle[p].opk
    IN  /\ Waiting(p)
        /\ Len(writes) < MaxWrites
        /\ HoldsId(account, opk)
        /\ Agrees(account, opk)
        /\ sessions' = sessions \cup {p}
        /\ contacts' = contacts \cup {p}
        /\ MaybeReplenish(Consume(account, opk), SessionWrites(p))
        /\ uses' = uses \cup {<<p, e.key>> : e \in {opk} \ {None}}
        /\ UNCHANGED <<storage, requests, phase, directory, saved, bundle, bounds,
                       burned, undone, exposed, unsaved, lost>>

\* (c) A PreKey message of any sender without a session names a prekey that is
\* there, and does not open: the gap before it is above MAX_SKIP, it was altered,
\* or it was made from other material.  handshake::respond has taken the prekey by
\* then, and the exception ends the handler before it stores or replenishes.
HandleUnopened(id) ==
    /\ phase = "running"
    /\ Faults < MaxFaults
    /\ id \in DOMAIN account.one_time_prekeys
    /\ account' = TakeOneTimePrekey(account, id)
    /\ burned' = burned \cup {account.one_time_prekeys[id]}
    /\ UNCHANGED <<sessions, contacts, storage, writes, requests, phase, replenish,
                   directory, saved, bundle, fresh, bounds, uses, undone, exposed,
                   unsaved, lost>>

\* (d) UnknownPrekey: the message is dropped, and nothing changes.
Refused(p) == Waiting(p) /\ ~HoldsId(account, bundle[p].opk)

Next ==
    \/ Generate
    \/ Restore
    \/ StartTransport
    \/ SwitchTransport
    \/ WriteLands
    \/ WriteFails
    \/ PublishLands
    \/ PublishFails
    \/ KillApp
    \/ FetchLost
    \/ FlushDirectory
    \/ KillRelay
    \/ \E p \in Peer : \/ FetchBundle(p)
                       \/ HandleKnown(p)
                       \/ HandleNew(p)
    \/ \E id \in 0 .. fresh : HandleUnopened(id)

Spec == Init /\ [][Next]_vars

\* The storage completes or refuses the writes it was given, and the worker
\* serves its requests.
FairSpec ==
    /\ Spec
    /\ WF_vars(WriteLands \/ WriteFails)
    /\ WF_vars(PublishLands \/ PublishFails)

-----------------------------------------------------------------------------
\* The account the app has, or will have when it starts.
Durable == IF account # None THEN account
           ELSE IF storage.account # None THEN FromBytes(storage.account)
           ELSE [one_time_prekeys |-> NoPool, next_opk_id |-> 0]

Used(key) == \E p \in Peer : <<p, key>> \in uses
Spent(key) == Used(key) \/ key \in burned

\* identity.rs: "A one-time prekey is, by definition, usable exactly once" -
\* whatever the relay hands out twice, after a republication or a kill of its
\* own.  The one way around it is a kill of the app that undid the use.
OneSessionPerPrekey ==
    \A p, q \in Peer : \A u \in uses :
        <<p, u[2]>> \in uses /\ <<q, u[2]>> \in uses /\ p # q => u[2] \in undone

\* app_state.dart on replenishing: "the new private halves must survive a
\* restart": for every prekey the directory may hand out, now or after a kill of
\* either side, we hold the private half under the same id, or a message used it
\* up.  The way around it is a start of the transport before the prekey is stored.
PublishedSurvive ==
    \A d \in {directory, saved} \ {None} : \A e \in SeqElements(d.one_time) :
        \/ e \in Entries(Durable.one_time_prekeys)
        \/ Spent(e.key)
        \/ e.key \in exposed

\* A peer's first message is refused for an unknown prekey only if its prekey
\* opened somebody else's session, was burned by a message that did not open, or
\* was published unstored before a kill - or if the peer's own session was owed
\* to the storage when the app was killed, with the prekey stored as used: the
\* peer is then locked out.
RefusedOnlyIfTaken ==
    \A p \in Peer : Refused(p) =>
        LET key == bundle[p].opk.key
        IN  \/ key \in burned
            \/ \E q \in Peer \ {p} : <<q, key>> \in uses
            \/ key \in exposed /\ restarts > 0
            \/ <<p, key>> \in uses /\ p \in lost

\* No handshake ever meets other material under its id (and burns an innocent
\* prekey), but for the same start of the transport.
MismatchOnlyIfExposed ==
    \A p \in Peer :
        Waiting(p) /\ HoldsId(account, bundle[p].opk) /\ ~Agrees(account, bundle[p].opk) =>
            bundle[p].opk.key \in exposed

\* A replenishment that has begun ends, so that a later one can begin: the flag
\* is not left set - unless a change of the transport drops its publication.
ReplenishEnds ==
    replenish # "idle" ~> (replenish = "idle" \/ switches > 0)
=============================================================================
