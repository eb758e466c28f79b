# Clarity, in TLA+

A verification project for the Clarity messenger: TLA+ models of its core, the
TLC runs that check them on small instances, and TLAPS proofs of what matters
most for every instance. `PROJECT.json` is the index: which definition stands for
which lines of the source, the runs, their mutants, the findings, the hazards and
the theorems.

## 1. The system

| Part | State | Operations | Talks to |
|---|---|---|---|
| Double Ratchet (`core/src/ratchet.rs`) | root key, DH pair, remote key, two chain keys, three counters, cache of skipped keys | `init_*`, `encrypt`, `decrypt`, `serialize`, `deserialize` | `kdf.rs` |
| Session (`core/src/session.rs`) | a ratchet, the pending handshake | `initiate`, `respond`, `encrypt`, `decrypt`, `serialize` | the peer's session, over any transport |
| Handshake, account (`handshake.rs`, `identity.rs`) | identity keys, signed and one-time prekeys | `initiate`, `respond`, `take_one_time_prekey`, `replenish`, `to_bytes` | directory, session |
| Relay store (`relay/src/store.rs`) | prekey directory, mailboxes, dirty flag, snapshot file | `publish`, `fetch_bundle`, `enqueue`, `poll`, `sweep_expired`, `maybe_flush`, `flush`, `open` | file system, callers on any thread |
| Relay server (`relay/src/server.rs`) | rate limiter, sweep clock | one loop over requests | store, clients |
| Mesh (`mesh/src/lib.rs`, `mesh_service.dart`) | seen-set, carry-forward store, inbox | `originate`, `handle_incoming`, `outbound`, `take_inbox`; rebroadcast timer | radios of other phones |
| App (`app_state.dart`, `relay_worker.dart`, `net/src/lib.rs`, `ffi/src`) | account, sessions, contacts, history, last poll epoch, secure storage | start, send, poll, handle incoming, replenish, persist, restore, change the transport | all of the above through the FFI |
| Groups (`group/src/lib.rs`) | an OpenMLS key store and group per client | key package, create, add, remove, join, send, process, export, import | members |
| Enclave (`core/src/enclave.rs`) | none: sealed states held by the host | the session's operations, sealed in and sealed out | host |
| Envelope, inbox, safety number (`core/src/*`) | none | seal/open, epoch and inbox ids, formatting | app |

What is hard to test here:

* **Session**: any order, loss and duplication of messages, at the limits of the
  cache, on a state that an error does *not* roll back.
* **Relay store**: mutators leave one mutex before they take the other; `flush`
  consists of two critical sections; writes fail; the process is killed anywhere.
* **Relay server**: saving happens only when requests come.
* **Mesh**: bounded memory against frames that never stop circulating; which of
  several copies arrives first.
* **App**: everything is sent or shown before it is persisted; a kill between two
  writes; a prekey that the relay hands out twice; a poll that fails half way, or
  overlaps with the next one across the end of an epoch.
* **Groups**: commits that are merged before anyone else has seen them, welcomes
  and messages in any order, clients restored from an old export.

The complete list, each at its line, is `hazards` in `PROJECT.json`.

What makes each part correct: a session opens every message once, whatever the
order, and forgets its key, also on disk; a prekey opens one session, and what was
published keeps its private half; the store loses no change that it could have
saved and no mail without a reason; the limiter grants exactly its budget; a mesh
node accepts a frame once, never beyond its hop budget, in bounded memory; no mail
is left in an inbox that will not be polled; a group splits only by a race, and is
read only by its members; what is padded, sealed and framed comes out as it went in.

## 2. Modules

| Module | Models | Composes |
|---|---|---|
| `DoubleRatchet` | `ratchet.rs` as operators from a state to the state left behind and the verdict | |
| `Session` | two `Session`s and the network between them | EXTENDS `DoubleRatchet`; implements `Channel` |
| `Channel` | abstract: what a conversation promises to the application | |
| `StoredSession` | the conversation with ends that store their state, are killed and restored, in the app and in the enclave | EXTENDS `Session`; implements `Channel` |
| `SessionProofs` | theorems about `Session` | EXTENDS `Session` |
| `StoredSessionProofs` | theorems about `StoredSession` | EXTENDS `StoredSession`, `SessionProofs` |
| `PreKeys` | the life of one-time prekeys: account, storage, worker, directory, peers | |
| `PreKeysProofs` | theorems about `PreKeys` | EXTENDS `PreKeys` |
| `InboxPolling` | rotating inboxes, the poll window, `pollMany`, senders with other clocks | |
| `MCInboxPolling` | the skews, for TLC | EXTENDS `InboxPolling` |
| `InboxPollingProofs` | theorems about `InboxPolling` | EXTENDS `InboxPolling` |
| `RelayStore` | the store under any number of threads, its file, hard kills | |
| `MCRelayStore` | the symmetry of threads, for TLC | EXTENDS `RelayStore` |
| `RelayServer` | the request loop and the rate limiter over the store | EXTENDS `RelayStore` |
| `MCRelayServer` | with and without a budget, for TLC | EXTENDS `RelayServer` |
| `RelayProofs` | theorems about `RelayStore` and `RelayServer` | EXTENDS `RelayServer` |
| `Mesh` | a mesh node and its service in every phone, and the radios | |
| `MeshProofs` | theorems about `Mesh` | EXTENDS `Mesh` |
| `Group` | clients of one MLS group, and the blobs between them | |
| `GroupProofs` | theorems about `Group` | EXTENDS `Group` |
| `Codecs` | padding, sealing, byte lists, framing, export and import as pure algorithms | |
| `CodecsProofs` | theorems about `Codecs` | EXTENDS `Codecs` |

### Session and ratchet

A ratchet state is a record with the fields of the Rust struct. Cryptography is
symbolic: a key pair is a number, a DH output the set of two numbers, a root key
the sequence of DH outputs mixed in since the handshake, a chain key a root and a
number of advances, a message key the pair of the two. So two keys are equal in the
model exactly when they were derived alike, and the AEAD opens exactly when the
keys are equal. This is the usual idealisation of HKDF, X25519 and the AEAD; the
associated data needs no model of its own because the header belongs to the
message and both ends compute the same prefix.

`&mut self` serialises the calls on one session, so a call is one step. An `Err`
keeps what the method wrote before it, which is why `Decrypt` returns a state in
every case: `skip_message_keys` writes `skipped` and `n_recv` in its loop and
`chain_recv` only at its end (`SkipLoop`). Every message ever sealed stays on
`wire`; the network may hand it over in any order, again, or never. `Respond` is
the responder without a session, where `handshake::respond` takes the one-time
prekey before the ratchet decrypts. u32 counters do not wrap: the model has no
overflow, since 2^32 messages in one chain are out of reach.

`Channel` is the abstract specification: a message is opened after it was sent and
at most once, the responder does not speak first, and a party loses the promise only
by an event that the implementation names. `Session` implements it with
`broken <- overflowed` (the cache filled in the middle of a gap).

### Stored sessions

`StoredSession` lets both ends be killed. The state goes through `Serialize` and
`Deserialize`, where the map of skipped keys becomes a list and a map again. Two
hosts are modelled, chosen in `StoredInit`:

* the **app** calls the session in place, so an error keeps what was written, and it
  stores the session after the message is out (`_sendContent`) or handled
  (`_handleIncoming`); a handshake does not store the account;
* the **enclave** takes a sealed state and returns a new one: an error returns none,
  and a handshake returns the account together with the session.

`owed` are the parties with a write that was asked for; a kill before it lands puts
the party into `rolledBack`. It implements `Channel` with
`broken <- overflowed \cup rolledBack`: nothing but a lost operation costs the
promise. A write is one step that stores the present state: two writes under way
need no model, since nothing reads the storage before the next start.

### Prekeys

`PreKeys` composes `identity.rs`, the app's `initialize`, `_startTransport`,
`_maybeReplenishPrekeys`, `setConfig` and `_handleIncoming`, the worker's queue, the
directory part of the store with its file, and peers that fetch a bundle and write.
A prekey is an id and its key material; both ends agree exactly when the material
under the id is the same. The main isolate runs a handler up to its next `await` in
one step; `writes` and `requests` are the two FIFO queues it awaits, and a kill of
the app loses both. `RelayTransport::publish` may fail before the relay has it,
`fetch_bundle` after the relay has taken a key, and a write may throw: that of a new
account ends `initialize` on its error screen, that of a replenished one ends in
`finally` with keys in memory that are not stored, those of sessions and contacts are
awaited by nobody. `handshake::respond` takes the prekey before the first message is
decrypted, so besides `HandleNew` there is `HandleUnopened`: any PreKey message that
names a prekey we hold and does not open (a gap above `MAX_SKIP`, altered on its way,
made from other material) uses it up, without a session and without a write. Identity,
signed and ML-KEM keys never change and are left out.

The history variables are the events that cost a promise: `burned` (used up by a
message that did not open), `undone` (a kill brought a used prekey back), `exposed`
(published by a start of the transport before it was stored), and `lost` (peers whose
session or contact was owed to the storage, or failed to be written, when the app was
killed). `setConfig` is modelled in a running app and from relay to relay, which is what
the settings dialog offers once `initialize` is done; `main.dart` provides no
`MeshRadio`, and a second change while the first is under way is left out.

### Inboxes

An inbox is the epoch it was derived from. `InboxPolling` has the sender's epoch with
its skew, the window of `_pollOnce`, `pollMany` as one step per inbox with a failure
before or after the relay has emptied it, polls that overlap because the timer does
not wait, `_lastPollEpoch` with its unawaited write, kills and restarts. The worker
serves the oldest poll first. `blind` remembers polls that began without knowing of an
earlier one.

### Relay store and server

A section under the `inner` mutex is one step; taking the `persistence` mutex is a
guard; `maybe_flush` is four steps under that mutex (test, serialize, write,
rename) with a failure of write and of rename; `flush` is a step of its own before
it. `enqueue`, `poll` and `sweep_expired` read the clock in one step and lock in the
next. `Crash` is a hard kill of the process between any two steps, followed by
`open`: memory becomes what the file holds. A crash of the operating system (which
would need an fsync the code does not do) is not modelled. A message is a number,
a size and a time; base bundles are left out. Monotonic and wall clock are one
clock `now`. Serialization in memory does not fail; `checked_sub` in `flush` does
not underflow (on Linux an `Instant` may lie before boot; where it may not, a `flush` in
the first two seconds after boot would return without writing).

The server is the single thread that runs the loop: accept (or 429), handle, sweep
once per interval, `maybe_flush`. Requests that reach no state are `ServeOther`. No
timer and no shutdown path calls the store.

History variables, such as `version`, `promised`, `taken`, `delivered`,
`asked` and `granted`, are read by no guard (except `version`, which bounds the
number of mutations).

### Mesh

`seen`/`seenOrder` and `store`/`storeOrder` are the node's two hash structures with
their queues. `air` holds what radios have sent and may still hand over.
`_onFrame` ingests and drains the inbox in one synchronous handler, hence one
step. `Link` is the set of pairs of phones that meet now and then: at any time any
part of it may be in range. Nothing is persisted, so `Restart` empties the node.
MESH.md's "process each `msg_id` once" holds only while an id is remembered:
beyond SEEN_CAP messages a frame that a neighbour still carries is accepted, and
delivered, again. That is why `ProcessedOnceWithinCap` names the cap, and why
`TtlBoundsReach` is checked with caps of 1.

### Groups

OpenMLS is a library, modelled by what the wrapper relies on: an epoch is the list of
the commits that led to it with the tree they built; a commit applies only to the
epoch it was made in; a message opens only in its epoch, once per sender and
generation; an addition takes the leftmost blank leaf; a call that fails changes
nothing. Everything the calls return stays on `net`, and anyone may process it late,
in any order and repeatedly. `expected` is what a caller knows of the membership: it
changes by what the caller *asked* for (the member it looked up is gone, whatever leaf
was removed), and is what a message's audience is compared with. A removal by an index
of another epoch may hit somebody else's leaf; such a caller is `misled` until it asks
for the members again. The four `events` are what the wrapper
leaves to its caller: two commits in one epoch, an import of an old export, a key
package used twice, a second welcome to a member.

### Codecs

A u32 length is one cell and wraps at `LenModulus`; sealing turns each byte into a
cell that only the same key turns back. Each input of a bounded set is one initial
state; one step takes it through the conversion, and the result is compared with a
definition that does not compute it the same way (the least of the documented sizes;
a partition of the byte string into fields; the very payload that was sealed).

## 3. Runs

Passing runs (`expect: pass`):

| Run | Shows | Bounds |
|---|---|---|
| `session_network` | `ImplementsChannel` (refinement), `RefusedOnlyByLimits`, `NoReplay`, `KeysUnique`, `ForwardSecrecy`, `CacheBounded`, `TypeOK` | 5 + 3 messages in every order and with every loss, 1 duplicate (of a current or of an old chain), MAX_SKIP 2 and a cache of 2: gaps of exactly and above the limit, a cache that fills in the middle of a gap, three DH ratchets |
| `stored` | `KeysReusedOnlyIfLost`, `OneMessagePerKey`, `StoredNeverReplayed`, `StoredForwardSecrecy`, `ImplementsChannelUnlessLost` (refinement), `RestartIsInvisible`, `EnclaveErrorsUndone` | both hosts, 3 + 1 messages with two DH ratchets, 1 duplicate, a kill of either end at any point with any write lost, a cache of 1: a gap that fits and one that does not |
| `prekeys` | `OneSessionPerPrekey`, `PublishedSurvive`, `RefusedOnlyIfTaken`, `MismatchOnlyIfExposed`, `ReplenishEnds` (liveness) | 2 peers, a first pool of 1 that is topped up to 2 when empty, at most one handled message whose writes wait, and any three faults (kills of the app or of the relay, changes of the transport, failed writes, publications and fetches, messages that do not open): a key handed out twice takes one, an id minted twice a change of the transport and a kill, after a write that failed or is still waiting |
| `inbox` | `NeverStranded`, `MailLeavesRelay` (liveness) | epochs of 2 s, a window of 3, clock over 5 epochs, long enough for mail to expire, skews of up to an epoch, 2 polls at once, a failure and a kill; one mail, since inboxes do not influence each other and the mail's place and time range over all |
| `group` | `SplitOnlyByRace`, `MembersAsAsked`, `ReadOnlyByAudience`, `EveryoneCatchesUp` (liveness) | 3 clients, 7 calls and 1 message: two key packages, an addition, a look-up, a removal, an addition into the freed leaf, and a removal by the old index; two commits in one epoch; export, change, import |
| `store_threads` | `CleanMeansSaved`, `FlushIsDurable`, `TypeOK` | 2 threads (symmetric), 2 mutations, 1 kill, clock 0..1: a mutation and a flush overlap in every way |
| `store_mail` | `CapsRespected`, `PolledInOrderOnce`, `MailLeavesForAReason` | 2 threads, 5 mutations, sizes 1..3 against caps of 2 messages and 3 bytes, expiry after 1 s; no kills: that the caps hold of what a restart reads is the theorem's part |
| `server` | `BudgetExact`, `EventuallySaved` (liveness) | 2 clients and 4 requests, minutes of 2 s, windows dropped above 1; 2 mutations, 1 kill, failing writes; a file without a budget, and a budget without a file (the two together multiply the states beyond what is worth running; a request answered 429 reaches neither store nor flush, so to the file it is a pause) |
| `mesh_nodes` | `IndicesAgree`, `TtlBoundsReach` | 4 phones in a line, budget 2, caps of 1, a restart: every id is evicted and accepted again and again |
| `mesh_reach` | `ProcessedOnceWithinCap`, `ReachesRecipient` (liveness) | a triangle with a tail, 2 messages and 2 ids remembered, budget 2: the direct way to the tail fits, the one around the triangle does not |
| `codecs` | `DeliveredIntact`, `LengthIsLeastSize`, `FramingExact` | payloads of 0 to 17 bytes over buckets 4, 8 and multiples of 8; every byte string of up to 5 cells; every store of up to 3 entries in every order, with every entry as the signer |

One run expects a violation: `session_overflow`. `ratchet.rs` says that "old message
keys are deleted and cannot be rederived"; a cache that fills in the middle of a gap
leaves the chain key behind the counter, and keys of messages that were opened can be
derived again. Hence the exception for `overflowed` in the passing properties.

Other places where the models follow the code and a comment says more than the code
does; each is the named exception of a property:

* `session.rs` carries the handshake on every message so that the session can be
  established "even if an earlier copy was lost". In the app a copy that is refused
  (its gap is too long) has used up the one-time prekey, and later copies fail; and a
  duplicate from an old chain turns the DH ratchet and ends the conversation. The
  enclave, where an error returns no state, has neither problem (`EnclaveErrorsUndone`).
* `identity.rs`: a one-time prekey is "usable exactly once". The account is stored
  only when it is replenished, so a kill of the app brings a used prekey back
  (`undone` in `OneSessionPerPrekey`).
* `app_state.dart`: "the new private halves must survive a restart". A change of the
  transport publishes what memory holds while the account is being written, or after
  that write has failed (`exposed` in `PublishedSurvive`). A change while the publication is queued drops it, its answer
  never comes and `_replenishing` stays set until the next start (`ReplenishEnds`).
* `kdf.rs`: "every message key is unique". A kill between sending and storing makes the
  next message reuse the key (`KeysReusedOnlyIfLost`); a peer that was not itself set
  back opens only one of the two (`OneMessagePerKey`).
* `app_state.dart`: a failed poll is "transient; retry next tick". What `pollMany` had
  drained before it failed is lost at the relay and in the app.
* `app_state.dart`: the window "never strands mail". A poll that begins while none has
  been answered looks back to yesterday only; when it is answered after the end of an
  epoch, the older inboxes are past (`blind` in `LeftBehind`).
* `store.rs`: a hard kill loses "at most the last second of mutations". The flush is
  tried only after a request, so the last change before a quiet period waits for the
  next one (`EventuallySaved` needs requests that keep coming); and "a lost tail is
  equivalent to network loss" is not all: a poll whose removal was lost is answered
  again, which the session refuses (`NoReplay`).
* `MESH.md`: "`ttl` limits hop distance". A copy that came first by a longer way makes
  the node refuse the one with budget left, and in the graph of `mesh_reach` a phone
  two hops away may get nothing. `ReachesRecipient` therefore promises delivery to
  `Assured` pairs: those with a way on which no phone can be reached by a detour (short
  of the phones further on) that leaves no budget.

Deadlock is not checked: in every model the parties may simply stop, and the bounds
stop them.

**Fairness.** `server`: the loop takes its steps (a running thread), requests keep
coming (the app polls every few seconds; without them the property is false), the
clock advances, and a write and a rename that are tried again and again succeed at
some time. `mesh_reach`: the rebroadcast timer fires on every phone, and a frame that
is offered for ever is received at last. `prekeys`: the storage completes or refuses the
writes it was given, and the worker answers requests, with or without success.
`inbox`: the timer fires, the worker and the handler of its answer get on, and the user
starts a killed app again; nothing is assumed of failures or of the clock. `group`: a
client that can process a welcome or a commit processes one at last. The safety properties
assume no fairness.

**Type invariants** are checked for `Session` and `RelayStore`. That of `Mesh` is proved
(`TypeCorrect`), and that of `InboxPolling` is a conjunct of `PollInv`, which is proved;
the proofs of the other modules state the shapes they use (`StoredTypes`, `ShapeInv`,
`GroupType`, `LimiterInv`).

**Mutants.** Each property of a passing run has a mutant in the module it is about:
a variant of one definition with a plausible mistake, commented `Mutant:`, which
makes the property fail under the run's own configuration. No specification uses
these definitions.

## 4. Proofs

Every theorem holds for every value of the constants that satisfies the named
assumptions: any number of messages, threads, phones, kills, failures. The
assumptions say that limits are naturals, that `None` is not an ordinary value and
that the sets which are counted are finite; those that say more are named below.
Each inductive invariant was checked by TLC on the instances of section 3 before it
was proved. The table lists the property that each theorem states.

| Module | Theorems (property) |
|---|---|
| `SessionProofs` | `TypeCorrect` (`TypeOK`), `CacheStaysBounded` (`CacheBounded`), `ReplaysRefused` (`NoReplay`), `KeysNeverRepeat` (`KeysUnique`), `KeysAreForgotten` (`ForwardSecrecy`), `SessionImplementsChannel` (`ImplementsChannel`), `OnlyLimitsRefuse` (`RefusedOnlyByLimits`), `EndsAgree` |
| `StoredSessionProofs` | `KeysRepeatOnlyIfLost` (`KeysReusedOnlyIfLost`), `KeyOpensOnce` (`OneMessagePerKey`), `StoredKeysForgotten` (`StoredForwardSecrecy`), `StoredReplaysRefused` (`StoredNeverReplayed`), `StoredImplementsChannel` (`ImplementsChannelUnlessLost`), `RestartsUnseen` (`RestartIsInvisible`), `EnclaveUndoes` (`EnclaveErrorsUndone`), `CopiesAgree`, `EnclaveKeepsNoDamage` |
| `PreKeysProofs` | `UsedOnce` (`OneSessionPerPrekey`), `PublishedNeverLost` (`PublishedSurvive`), `IdsNeverReused` (`MismatchOnlyIfExposed`), `RefusalNeedsTaking` (`RefusedOnlyIfTaken`) |
| `InboxPollingProofs` | `MailNeverStranded` (`NeverStranded`) |
| `RelayProofs` | `CleanIsSaved` (`CleanMeansSaved`), `FlushKeepsItsWord` (`FlushIsDurable`), `StoreTypes` (`TypeOK`), `CapsAlwaysHold` (`CapsRespected`), `MailInOrderOnce` (`PolledInOrderOnce`), `MailIsKept` (`MailLeavesForAReason`), `BudgetAlwaysExact` (`BudgetExact`), `ServerUsesStore`, `ServerKeepsStore` |
| `MeshProofs` | `TypeCorrect`, `IndicesStayConsistent` (`IndicesAgree`), `TtlAlwaysBounds` (`TtlBoundsReach`), `ProcessedOnce` (`ProcessedOnceWithinCap`) |
| `GroupProofs` | `MembersStayAsAsked` (`MembersAsAsked`), `OnlyAudienceReads` (`ReadOnlyByAudience`), `SplitNeedsRace` (`SplitOnlyByRace`) |
| `CodecsProofs` | `LengthShowsBucket` (`LengthIsLeastSize`), `MailDeliveredIntact` (`DeliveredIntact`), `FramingInverts` (`FramingExact`) |

**Session** (`SkipAssumption`, `NoneAssumption`, `PartyAssumption`). None of the
properties is inductive alone. `IInv` adds, for each party, that its sending chain
hangs at its present root and every key it sealed with lies behind it (`SendInv`);
that the receiving chain stands one root back, in step with `n_recv`, and that every
key opened and every key cached lies behind it, no cached key was opened and no two
cache entries hold the same key (`RecvInv`, for parties whose cache never
overflowed); that root keys of the initiator have odd and those of the responder even
length, which keeps the two directions apart; and that a party seals once with a key.
A DH ratchet lengthens the root by two, so old chains can be told from new ones by
their length: this is what makes a duplicate from an old chain harmless for secrecy
although it wrecks the conversation. The lemmas follow the functions of `ratchet.rs`
one by one. The exception for `overflowed` parties is as narrow as the code allows: a
party enters it only when a full cache stopped `skip_message_keys` after it had stored
a key (`StoredLessIsFull` shows that there is no other way for chain key and counter to
part). The refinement maps every step to a step of `Channel` or a stutter; beside
`IInv` it needs that a responder with a session has opened a message
(`RespondersHeard`), so that it does not speak first.

*Why a message can be opened at all* is another matter: `IInv` speaks of each party by
itself, and `RefusedOnlyByLimits` needs that the two **agree**. `AgreeInv` says so as
long as the network has duplicated nothing. Of the two ratchets one is exactly one DH
ratchet `Ahead` of the other: its root is the other's with one more DH output, and it
receives on the chain that the other sends on. Each end `Expects` what the other has
sent: the keys the peer sealed with are those its present root and chain yield, the
receiving chain is never beyond the end of the peer's chain, and a message that was not
yet handed over has its key in the cache, or lies ahead on the receiving chain, or is of
the one chain that the receiver turns to when it sees the header. A cached key is the
key of the message of that name (`CacheRight`, for parties that never overflowed).
`Decrypt` keeps this on every way out of it, the refusals included: a refusal for a gap
or for a full cache leaves the message aside and the rest reachable.
The hypothesis on duplicates is needed: a duplicate of an old chain turns the DH ratchet
and ends the agreement (section 3).

**Stored sessions** (the assumptions of `Session`, none on the number of kills).
`IInv` does not survive a kill: the wire may hold messages of a party without a
session, and a restored party is behind what it sent. `StoredInv` therefore states
what memory and disk know *each for its own record* of messages sent and opened
(`CopiesInv`): a restart swaps one sound pair for the other. `RecordsInv` relates the
records: that of the disk lies within that of memory, is equal to it unless a write is
owed, and memory's is complete unless an operation was lost. `SerializeInverse` shows
that the list of skipped keys read back is the map that was written.

The agreement becomes one of *copies* (`StoredAgreeInv`): every state that an end may
continue from, in memory or (when it owes no write) in storage, agrees with every such
state of the peer, in the `Steady` behaviours where no kill has lost an owed write. In
the app these have no duplicates either; in the enclave they may have any number, since
a message that was refused leaves no trace, and a message is awaited until it is opened
rather than until it is handed over. `EnclaveInv` adds what makes the handshake
repeatable there: nothing ever overflows, the initiator stays at its first chain while
the handshake is pending, and the prekey is there until there is a session, in memory
and in storage. It needs no `Steady`: even kills that lose operations keep it.

**Prekeys** (`PreKeysAssumption`, `NoneAssumption`). `PrekeyInv` speaks of all
copies of the account (in memory, on disk, in a write under way) and of all prekeys
offered (in a publication under way, in the directory, in its file, in a bundle). Key
material is new when it is made (`FreshInv`); the two queues hold only what the handlers
put there at that point (`WritesInv`, `RequestsInv`); no copy has, or will ever give, the
id of an offered prekey to other material (`FitsInv`) and every copy has its private half
unless it was spent (`KeptInv`), both but for what was exposed; without a kill the account
in memory has them in any case (`NeverKilledInv`); a prekey that was used and is still
there was undone by a kill (`UsesInv`); and a session in memory and its contact are
stored, in a write under way or in one that failed, with contact lists that only grow
from the stored one to the one in memory (`SessionsInv`, `ContactsInv`), which is why a
peer is locked out of its own session only by a kill that found one of the two unwritten.

**Inboxes** (`InboxAssumption`: clocks are off by at most one epoch, the
adjacent epochs that `inbox.rs` polls). `PollInv` says that the inboxes which a poll under way has
still to empty, or a later one begins with, cover all mail that is not named as left
behind (`PollsInv`, `KnownInv`), whatever the number of overlapping polls.

**Relay store** (`StoreAssumption`, `LimitsAssumption`). `StoreInv` is about saving:
only the holder of the persistence mutex is inside a flush and the store stays dirty
until the rename (`MutexInv`); the serialized image lies between file and memory, has
all that waiting callers of `flush` ask for, and lacks only changes whose threads have
still to call `mark_dirty` (`ImageInv`); a `flush` that lost the race finds its work
due or done (`ForcedInv`). `MailInv` is about contents, in memory, in the file and in
the image between them, since a kill makes any of them the memory: queues sorted by
arrival, both caps respected, and what was polled arrived
before all that is queued. `MailIsKept` follows it through the loop that drops expired
and excess mail.

**Relay server** (`ServerAssumption`). `ServerUsesStore`: the loop is one way to use
the store, so all theorems about `RelayStore` hold of the server
(`ServerKeepsStore`). `LimiterInv` says that a client's window of this minute, or its
absence, equals what the client asked for in it: pruning drops no such window, so a
client cannot get a second budget by crowding the table.

**Mesh** (`MeshAssumption`; any number of phones, any graph of meetings, any caps).
`IInv` says that set and queue agree in both structures (`IndexInv`), that every frame
anywhere was originated (`SentInv`), that a frame with budget `ttl` is at most
`Ttl - ttl` hops from its origin (`HopsInv`), and that a node remembers all it accepted
as long as no more messages than its cap were sent (`MemoryInv`).

**Groups** (`GroupAssumption`). `ReadInv`: what callers that were not
misled know of the membership is the tree of the epoch they are in, and an index that was
looked up is the member's leaf in the epoch of the look-up (`LookedInv`), so only one of
another epoch can mislead. `SplitInv`: while nothing of the named events happened,
there is one chain of epochs that holds every commit, welcome and client, and nobody
returns to an epoch it has committed in.

**Codecs** (`CodecsAssumption`: the bucket limits are powers of two, as in
`envelope.rs`; `NoneAssumption`; `LengthsFit`: what is framed is shorter than
`LenModulus`, the range of the code's `as u32` casts, beyond which a length would wrap
and nothing is promised). `LengthShowsBucket` is arithmetic of powers of two and
multiples: the result of `bucket` is one of the listed sizes, holds the payload, and
no smaller one does. `FramingInverts` follows the reader's loop: a cursor that has failed
stays failed, and one that has not stands at the end of as many fields as it has read,
each behind its length (`Pieces`); a string that is such a partition is what the writer
writes, byte by byte (`UnframeExact`, `UnframeInverts`), and the two levels of framing of
an exported client invert each other (`ImportInverts`). For the theorem the number of
accounts, the length of payloads and the length of byte strings (over a small alphabet) are arbitrary; a mailbox
has two envelopes, a frame up to three fields and a store up to three entries over the
small alphabet of `Field`, as in the model. `MailDeliveredIntact` composes all of it: seal,
pad, pack, unpack, open.

Where a proof needs induction over a sequence or a number it takes the smallest
counterexample instead, because the prover cannot instantiate the library's induction
theorems; counting uses the library's theorems on finite sets. Folds of the community
modules are unfolded the same way: `ReadsExist` and `FlattensExist` turn `FoldLeft` and
`FlattenSeq` into the function of their intermediate values, by the least number of
rounds for which there is none (`CountUp`).

Only model-checked: liveness (`EventuallySaved`, `ReachesRecipient`, `ReplenishEnds`,
`MailLeavesRelay`, `EveryoneCatchesUp`), which the prover does not handle. Every safety
invariant, action property and refinement of section 3 is also a theorem.

## 5. Not modelled

* Key agreement arithmetic, ML-KEM, signatures, hashes and AEADs: idealised.
* HTTP, JSON and base64, Tor and SOCKS (`protocol.rs`, most of `server.rs`'s parsing):
  conversions without state.
* Pointers and buffers of the FFI: memory safety is not a question for these models.
* The lists of shown messages, retention, history, user interface and settings:
  nothing else reads them.
* Safety numbers: a hash, a comparison and digits.
* Two initiators at once: the two sessions share no state, each refuses the other's
  messages, and nothing in the code resolves it.
* An enclave's host that presents an older sealed state on purpose; bare MLS proposals,
  which no call of the wrapper creates.

## 6. Plan

Done: the ratchet, the session, its storage and its channel; the relay; the mesh; the
prekeys; the inboxes; groups; codecs; and the proofs of every safety property and both
refinements. Left, where it would repay the work:

1. What happens when both users write first: the hazard of `PROJECT.json` without a
   property.
2. Codecs for any number of envelopes, fields and entries, which needs another choice of
   jobs in the model and no new lemma about framing.
