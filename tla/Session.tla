------------------------------- MODULE Session -------------------------------
(***************************************************************************)
(* One conversation: core/src/session.rs over core/src/ratchet.rs, at both *)
(* of its ends, joined by a network that may lose, delay, reorder and      *)
(* duplicate messages.                                                     *)
(*                                                                         *)
(* The initiator holds a bundle of the responder's, with or without a      *)
(* one-time prekey.  Every message either party ever sealed stays on       *)
(* `wire` and may be handed to the peer in any order, MaxDuplicates times  *)
(* more than once; a message that is never handed over is a lost one.      *)
(* Calls on one Session are serialised by &mut self: a call is one step.   *)
(***************************************************************************)
EXTENDS DoubleRatchet

CONSTANTS
    Initiator, Responder,   \* the two parties
    MaxInitiatorSends,      \* bound: messages the initiator seals
    MaxResponderSends,      \* bound: messages the responder seals
    MaxDuplicates           \* bound: messages the network hands over again

ASSUME PartyAssumption == Initiator # Responder

Party == {Initiator, Responder}

Peer(p) == IF p = Initiator THEN Responder ELSE Initiator

MaxSends(p) == IF p = Initiator THEN MaxInitiatorSends ELSE MaxResponderSends

VARIABLES
    established,  \* the parties that hold a Session
    ratchet,      \* [Party -> ratchet state]: Session.ratchet, where established
    pending,      \* [Party -> BOOLEAN]: Session.pending_handshake is Some
    withOpk,      \* the handshake names a one-time prekey
    opkHeld,      \* the responder's account still holds that one-time prekey
    nextDh,       \* the next DH key pair the random generator gives
    wire,         \* [Party -> Seq(Envelope)]: what each party sealed, in order
    duplicates,   \* how many messages the network handed over again
    overflowed    \* history: parties a full cache stopped in the middle of a gap

vars == <<established, ratchet, pending, withOpk, opkHeld, nextDh, wire,
          duplicates, overflowed>>

\* Message::PreKey and Message::Normal; copies and accepts are history: how
\* often the peer was handed the message and how often it opened it.
Envelope ==
    [prekey : BOOLEAN, header : Header, key : MessageKey,
     copies : Nat, accepts : Nat]

TypeOK ==
    /\ established \in SUBSET Party
    /\ DOMAIN ratchet = Party
    /\ \A p \in Party : IsRatchetState(ratchet[p])
    /\ pending \in [Party -> BOOLEAN]
    /\ withOpk \in BOOLEAN
    /\ opkHeld \in BOOLEAN
    /\ nextDh \in DhKey
    /\ wire \in [Party -> Seq(Envelope)]
    /\ duplicates \in Nat
    /\ overflowed \in SUBSET Party

Init ==
    /\ established = {}
    /\ ratchet = [p \in Party |-> InitResponder(SPK)]
    /\ pending = [p \in Party |-> FALSE]
    /\ withOpk \in BOOLEAN
    /\ opkHeld = withOpk
    /\ nextDh = SPK + 1
    /\ wire = [p \in Party |-> <<>>]
    /\ duplicates = 0
    /\ overflowed = {}

-----------------------------------------------------------------------------
\* Session::initiate: the bundle's signatures hold, the handshake secret is
\* the empty root, and the handshake header stays pending.
Initiate ==
    /\ Initiator \notin established
    /\ established' = established \cup {Initiator}
    /\ ratchet' = [ratchet EXCEPT ![Initiator] = InitInitiator(SPK, nextDh)]
    /\ pending' = [pending EXCEPT ![Initiator] = TRUE]
    /\ nextDh' = nextDh + 1
    /\ UNCHANGED <<withOpk, opkHeld, wire, duplicates, overflowed>>

\* Session::encrypt; without a sending chain it is an error that changes nothing.
Send(p) ==
    /\ p \in established
    /\ CanEncrypt(ratchet[p])
    /\ Len(wire[p]) < MaxSends(p)
    /\ wire' = [wire EXCEPT ![p] = Append(@,
                 [prekey  |-> pending[p],
                  header  |-> EncryptHeader(ratchet[p]),
                  key     |-> KeyOf(ratchet[p].chain_send),
                  copies  |-> 0,
                  accepts |-> 0])]
    /\ ratchet' = [ratchet EXCEPT ![p] = EncryptState(@)]
    /\ UNCHANGED <<established, pending, withOpk, opkHeld, nextDh,
                   duplicates, overflowed>>

\* The network hands the i-th message of the peer to p, for the first time or
\* as one of the duplicates it may make.
Arrives(p, i) ==
    \/ wire[Peer(p)][i].copies = 0 /\ UNCHANGED duplicates
    \/ /\ wire[Peer(p)][i].copies > 0
       /\ duplicates < MaxDuplicates
       /\ duplicates' = duplicates + 1

Counted(m, opened) ==
    [m EXCEPT !.copies = @ + 1, !.accepts = IF opened THEN @ + 1 ELSE @]

Handed(p, i, opened) ==
    wire' = [wire EXCEPT ![Peer(p)][i] = Counted(@, opened)]

\* The DH ratchet drew a key pair from the random generator.
Drew(r) == IF r.dh_self = nextDh THEN nextDh + 1 ELSE nextDh

\* A full cache stopped skip_message_keys in the middle of a gap: the chain key
\* does not stand at the number the state says it stands at.
StoppedMidGap(r) ==
    /\ r.chain_recv # None
    /\ r.chain_recv.pos # r.n_recv
    /\ Cardinality(DOMAIN r.skipped) = MAX_SKIPPED_CACHE

\* handshake::respond fails when the one-time prekey it names is gone.
HandshakeFails(m) == ~m.prekey \/ (withOpk /\ ~opkHeld)

\* Session::respond by a party that has no session.  The one-time prekey is
\* taken before the first decryption, and stays taken when that fails.
Respond(i) ==
    LET m == wire[Initiator][i]
        out == Decrypt(InitResponder(SPK), m.header, m.key, nextDh)
    IN  /\ Responder \notin established
        /\ Arrives(Responder, i)
        /\ IF HandshakeFails(m)
             THEN /\ Handed(Responder, i, FALSE)
                  /\ UNCHANGED <<established, ratchet, opkHeld, nextDh>>
             ELSE /\ Handed(Responder, i, out.ok)
                  /\ opkHeld' = FALSE
                  /\ IF out.ok
                       THEN /\ established' = established \cup {Responder}
                            /\ ratchet' = [ratchet EXCEPT ![Responder] = out.state]
                       ELSE UNCHANGED <<established, ratchet>>
                  /\ nextDh' = Drew(out.state)
        /\ UNCHANGED <<pending, withOpk, overflowed>>

\* Session::decrypt; an error keeps what the ratchet already wrote.
Receive(p, i) ==
    LET m == wire[Peer(p)][i]
        out == Decrypt(ratchet[p], m.header, m.key, nextDh)
    IN  /\ p \in established
        /\ Arrives(p, i)
        /\ Handed(p, i, out.ok)
        /\ ratchet' = [ratchet EXCEPT ![p] = out.state]
        /\ pending' = [pending EXCEPT ![p] = @ /\ ~out.ok]
        /\ nextDh' = Drew(out.state)
        /\ overflowed' = overflowed \cup (IF StoppedMidGap(out.state) THEN {p} ELSE {})
        /\ UNCHANGED <<established, withOpk, opkHeld>>

Next ==
    \/ Initiate
    \/ \E p \in Party : Send(p)
    \/ \E i \in 1 .. Len(wire[Initiator]) : Respond(i)
    \/ \E p \in Party : \E i \in 1 .. Len(wire[Peer(p)]) : Receive(p, i)

Spec == Init /\ [][Next]_vars

-----------------------------------------------------------------------------
\* What p could still decrypt with: the keys its chains will yield and the
\* keys it cached.
Derivable(p, key) ==
    LET r == ratchet[p]
        Yields(ck) == ck # None /\ ck.id = key[1] /\ ck.pos <= key[2]
    IN  /\ p \in established
        /\ \/ Yields(r.chain_send)
           \/ Yields(r.chain_recv)
           \/ \E e \in DOMAIN r.skipped : r.skipped[e] = key

\* Forward secrecy (ratchet.rs, "old message keys are deleted and cannot be
\* rederived"): once a party has sealed a message, or opened one, nothing in
\* its state yields that message's key again - unless the cache overflowed.
ForwardSecrecy ==
    \A p \in Party \ overflowed :
        /\ \A i \in 1 .. Len(wire[p]) : ~Derivable(p, wire[p][i].key)
        /\ \A i \in 1 .. Len(wire[Peer(p)]) :
              wire[Peer(p)][i].accepts > 0 => ~Derivable(p, wire[Peer(p)][i].key)

\* The comment's claim as it stands, without the exception the code needs.
ForwardSecrecyAlways ==
    \A p \in Party : \A i \in 1 .. Len(wire[Peer(p)]) :
        wire[Peer(p)][i].accepts > 0 => ~Derivable(p, wire[Peer(p)][i].key)

\* Replay protection: however often the network hands a message over, and in
\* whatever order, Session::decrypt returns its plaintext at most once.
NoReplay ==
    \A p \in Party : Peer(p) \notin overflowed =>
        \A i \in 1 .. Len(wire[p]) : wire[p][i].accepts <= 1

\* kdf.rs: "every message key is unique", over both directions.
KeysUnique ==
    \A p, q \in Party : \A i \in 1 .. Len(wire[p]), j \in 1 .. Len(wire[q]) :
        wire[p][i].key = wire[q][j].key => p = q /\ i = j

\* The skipped-key cache never exceeds its cap, whatever headers arrive.
CacheBounded ==
    \A p \in Party :
        Cardinality(DOMAIN ratchet[p].skipped) <= MAX_SKIPPED_CACHE

\* The conversation as its user sees it: how often each message was opened.
Opened == [p \in Party |-> [i \in 1 .. Len(wire[p]) |-> wire[p][i].accepts]]

Promise == INSTANCE Channel
             WITH First <- Initiator, Second <- Responder,
                  opened <- Opened, broken <- overflowed

\* A session implements the at-most-once channel: whatever the network loses,
\* reorders and duplicates, decrypt returns each plaintext at most once and the
\* responder never speaks first; only a cache overflow ends the promise.
ImplementsChannel == Promise!Spec

\* p is handed message i for the first time, and does not open it.
FirstCopyRefused(p, i) ==
    /\ wire[Peer(p)][i].copies = 0
    /\ wire'[Peer(p)][i].copies = 1
    /\ wire'[Peer(p)][i].accepts = 0

\* The gap in front of a message, in its own chain or at the end of the one
\* before it, is longer than the code is willing to skip.
GapTooLong(r, h) ==
    LET behind == IF r.chain_recv = None THEN 0 ELSE h.pn - r.n_recv
    IN  IF r.dh_remote = h.dh_pub
          THEN h.n - r.n_recv > MAX_SKIP
          ELSE behind > MAX_SKIP \/ h.n > MAX_SKIP

\* The keys in front of a message do not fit the cache.
NoRoom(r, h) ==
    LET behind == IF r.chain_recv = None THEN 0 ELSE h.pn - r.n_recv
        gap == IF r.dh_remote = h.dh_pub THEN h.n - r.n_recv ELSE behind + h.n
    IN  Cardinality(DOMAIN r.skipped) + gap > MAX_SKIPPED_CACHE

\* As long as the network has duplicated nothing, a message is refused only
\* because a documented limit was reached: a gap above MAX_SKIP, a full cache,
\* or (before there is a session) a one-time prekey that an earlier refusal has
\* used up.  Losses and reordering below the limits never break the agreement
\* on the keys.
RefusedOnlyByLimits ==
    [][\A p \in Party : \A i \in 1 .. Len(wire[Peer(p)]) :
         FirstCopyRefused(p, i) /\ duplicates = 0 =>
            \/ GapTooLong(ratchet[p], wire[Peer(p)][i].header)
            \/ NoRoom(ratchet[p], wire[Peer(p)][i].header)
            \/ p \in overflowed
            \/ p \notin established /\ withOpk /\ ~opkHeld]_vars

\* session.rs on pending_handshake: "carried on each outgoing message as a
\* PreKey header so the responder can (re)establish the session even if an
\* earlier copy was lost": a PreKey message whose gap is within MAX_SKIP, and
\* fits a fresh cache, establishes the session of a responder that has none.
CopyEstablishes ==
    \A i \in 1 .. Len(wire[Initiator]) :
        ~(FirstCopyRefused(Responder, i)
            /\ Responder \notin established
            /\ wire[Initiator][i].prekey
            /\ wire[Initiator][i].header.n <= MAX_SKIP
            /\ wire[Initiator][i].header.n <= MAX_SKIPPED_CACHE)
=============================================================================
