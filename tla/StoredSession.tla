---------------------------- MODULE StoredSession ----------------------------
(***************************************************************************)
(* A conversation whose ends may be killed.  Each end keeps its Session in *)
(* memory and a copy in storage, and a restart continues from the copy.    *)
(*                                                                         *)
(* Two hosts do that.  The app (app_state.dart over ffi/src/lib.rs) calls  *)
(* the session in place: an error keeps what the call already wrote, and   *)
(* the account is not stored when a handshake used up a one-time prekey.   *)
(* The enclave (core/src/enclave.rs) takes a sealed state and returns a    *)
(* new one: an error returns none, so the old state stays; the account is  *)
(* returned, and stored, together with the session.                        *)
(*                                                                         *)
(* A storage write that lands before the next kill is modelled as landing  *)
(* when the state is serialised, one that does not as never happening:     *)
(* nothing reads the storage in between.  Whether the contact list, which  *)
(* the app writes next to the session, lands too is PreKeys' subject.      *)
(***************************************************************************)
EXTENDS Session

CONSTANT MaxCrashes     \* bound: kills, over both ends

VARIABLES
    host,       \* "app" or "enclave", for the whole behaviour
    disk,       \* [Party -> the state a restart finds]
    owed,       \* the parties with a write that has been asked for
    crashes,
    rolledBack, \* history: parties that lost an operation in a kill
    done        \* history: [Party -> the messages its state has sent and opened]

storedVars == <<host, disk, owed, crashes, rolledBack, done>>

\* Mutant: the skipped keys are not written.
SerializeForgetsSkipped(r) == [r EXCEPT !.skipped = {}]

\* DoubleRatchet::serialize: the map of skipped keys becomes a list of entries,
\* whose order does not matter; every other field is written as it is.
Serialize(r) == [r EXCEPT !.skipped = {<<e, r.skipped[e]>> : e \in DOMAIN r.skipped}]

\* DoubleRatchet::deserialize collects the entries into a map again.
Deserialize(s) ==
    [s EXCEPT !.skipped =
        [e \in {x[1] : x \in s.skipped} |->
            (CHOOSE x \in s.skipped : x[1] = e)[2]]]

\* What the party holds in memory, in its stored form.  The app's copy of the
\* account still has the one-time prekey.
Held(p) ==
    [session |-> p \in established,
     ratchet |-> Serialize(ratchet[p]),
     pending |-> pending[p],
     opk     |-> IF host = "app" THEN withOpk ELSE opkHeld,
     done    |-> done[p]]

StoredInit ==
    /\ Init
    /\ host \in {"app", "enclave"}
    /\ done = [p \in Party |-> [sent |-> {}, opened |-> {}]]
    /\ disk = [p \in Party |-> Held(p)]
    /\ owed = {}
    /\ crashes = 0
    /\ rolledBack = {}

-----------------------------------------------------------------------------
\* An operation that went through: its messages are in the state, and the
\* state is to be written.
Owes(p, sent, opened) ==
    /\ owed' = owed \cup {p}
    /\ done' = [done EXCEPT ![p].sent = @ \cup sent, ![p].opened = @ \cup opened]
    /\ UNCHANGED <<host, disk, crashes, rolledBack>>

\* The session's verdict on message i of the peer.
WillOpen(p, i) ==
    LET m == wire[Peer(p)][i]
    IN  IF p \in established
          THEN Decrypt(ratchet[p], m.header, m.key, nextDh).ok
          ELSE ~HandshakeFails(m) /\ Decrypt(InitResponder(SPK), m.header, m.key, nextDh).ok

\* Only a message that opened is followed by a write.
OwesIfOpened(p, i) ==
    IF WillOpen(p, i) THEN Owes(p, {}, {i}) ELSE UNCHANGED storedVars

\* addContact, Enclave::initiate
StoredInitiate == Initiate /\ Owes(Initiator, {}, {})

\* _sendContent, Enclave::encrypt: the message is out before the write.
StoredSend(p) == Send(p) /\ Owes(p, {Len(wire[p]) + 1}, {})

\* _handleIncoming of the app, without and with a session.
AppRespond(i) == host = "app" /\ Respond(i) /\ OwesIfOpened(Responder, i)

AppReceive(p, i) == host = "app" /\ Receive(p, i) /\ OwesIfOpened(p, i)

\* The message arrives, and no new state comes back.
Refuse(p, i) ==
    /\ Arrives(p, i)
    /\ Handed(p, i, FALSE)
    /\ UNCHANGED <<established, ratchet, pending, withOpk, opkHeld, nextDh, overflowed>>

\* Enclave::respond: an error leaves the sealed account as it was.
EnclaveRespond(i) ==
    /\ host = "enclave"
    /\ Responder \notin established
    /\ IF WillOpen(Responder, i) THEN Respond(i) ELSE Refuse(Responder, i)
    /\ OwesIfOpened(Responder, i)

\* Mutant: what a failed decrypt left behind is sealed and comes back.
EnclaveDecryptKeeps(p, i) ==
    host = "enclave" /\ Receive(p, i) /\ OwesIfOpened(p, i)

\* Enclave::decrypt: an error leaves the sealed session as it was.
EnclaveDecrypt(p, i) ==
    /\ host = "enclave"
    /\ p \in established
    /\ IF WillOpen(p, i) THEN Receive(p, i) ELSE Refuse(p, i)
    /\ OwesIfOpened(p, i)

-----------------------------------------------------------------------------
\* Mutant: the state is written only the first time.
PersistOnce(p) ==
    /\ p \in owed
    /\ disk' = [disk EXCEPT ![p] = IF @.session THEN [@ EXCEPT !.done = done[p]] ELSE Held(p)]
    /\ owed' = owed \ {p}
    /\ UNCHANGED <<vars, host, crashes, rolledBack, done>>

\* _persistSession, or the host of an enclave storing what it was returned.
Persist(p) ==
    /\ p \in owed
    /\ disk' = [disk EXCEPT ![p] = Held(p)]
    /\ owed' = owed \ {p}
    /\ UNCHANGED <<vars, host, crashes, rolledBack, done>>

\* The process is killed and started again: initialize restores what is on
\* disk (Session::deserialize, Enclave::open_session).
Restart(p) ==
    /\ crashes < MaxCrashes
    /\ crashes' = crashes + 1
    /\ established' = IF disk[p].session THEN established ELSE established \ {p}
    /\ ratchet' = [ratchet EXCEPT ![p] = Deserialize(disk[p].ratchet)]
    /\ pending' = [pending EXCEPT ![p] = disk[p].pending]
    /\ opkHeld' = IF p = Responder THEN disk[p].opk ELSE opkHeld
    /\ done' = [done EXCEPT ![p] = disk[p].done]
    /\ rolledBack' = rolledBack \cup (owed \cap {p})
    /\ owed' = owed \ {p}
    /\ UNCHANGED <<withOpk, nextDh, wire, duplicates, overflowed, host, disk>>

StoredNext ==
    \/ StoredInitiate
    \/ \E p \in Party : StoredSend(p)
    \/ \E i \in 1 .. Len(wire[Initiator]) : AppRespond(i) \/ EnclaveRespond(i)
    \/ \E p \in Party : \E i \in 1 .. Len(wire[Peer(p)]) :
          AppReceive(p, i) \/ EnclaveDecrypt(p, i)
    \/ \E p \in Party : Persist(p) \/ Restart(p)

StoredSpec == StoredInit /\ [][StoredNext]_<<vars, storedVars>>

-----------------------------------------------------------------------------
\* What was stored is done for good: a message whose opening reached the disk
\* is never opened again, however often the host is killed and the network
\* repeats itself - unless the cache overflowed.
StoredNeverReplayed ==
    [][\A p \in Party \ overflowed : \A i \in disk[p].done.opened :
         wire'[Peer(p)][i].accepts = wire[Peer(p)][i].accepts]_<<vars, storedVars>>

StoredPromise == INSTANCE Channel
                   WITH First <- Initiator, Second <- Responder,
                        opened <- Opened, broken <- overflowed \cup rolledBack

\* Restarts keep the at-most-once channel: only a kill that lost an operation
\* which was already visible outside, or a full cache, ends it.
ImplementsChannelUnlessLost == StoredPromise!Spec

\* kdf.rs, "every message key is unique": a key seals a second message only
\* when the first one's advance was lost in a kill before it was stored, and
\* never a message of the other end.
KeysReusedOnlyIfLost ==
    \A p, q \in Party : \A i \in 1 .. Len(wire[p]), j \in 1 .. Len(wire[q]) :
        wire[p][i].key = wire[q][j].key /\ <<p, i>> # <<q, j>> =>
            p = q /\ p \in rolledBack

\* A key that seals two messages opens at most one of them at a peer that was
\* not itself set back.
OneMessagePerKey ==
    \A p \in Party : Peer(p) \notin rolledBack \cup overflowed =>
        \A i, j \in 1 .. Len(wire[p]) :
            wire[p][i].key = wire[p][j].key /\ i # j =>
                wire[p][i].accepts + wire[p][j].accepts <= 1

\* session.rs, "lets a conversation survive an app restart": a restart that
\* loses no operation is invisible to the peer.  As in Session, a message is
\* refused only because a limit was reached.
RestartIsInvisible ==
    [][\A p \in Party : \A i \in 1 .. Len(wire[Peer(p)]) :
         FirstCopyRefused(p, i) /\ duplicates = 0 /\ rolledBack = {} =>
            \/ GapTooLong(ratchet[p], wire[Peer(p)][i].header)
            \/ NoRoom(ratchet[p], wire[Peer(p)][i].header)
            \/ p \in overflowed
            \/ p \notin established /\ withOpk /\ ~opkHeld]_<<vars, storedVars>>

\* Forward secrecy at rest: what is on disk yields no key of a message that was
\* sent or opened before it was written.
StoredForwardSecrecy ==
    \A p \in Party \ overflowed :
        LET r == Deserialize(disk[p].ratchet)
            Yields(ck, key) == ck # None /\ ck.id = key[1] /\ ck.pos <= key[2]
            Gives(key) == \/ Yields(r.chain_send, key)
                          \/ Yields(r.chain_recv, key)
                          \/ \E e \in DOMAIN r.skipped : r.skipped[e] = key
        IN  /\ \A i \in disk[p].done.sent : ~Gives(wire[p][i].key)
            /\ \A i \in disk[p].done.opened : ~Gives(wire[Peer(p)][i].key)

\* Sealed-in, sealed-out: in an enclave an error is as if the message had never
\* come.  Every copy of the first message whose gap is within the limits
\* establishes the session (in the app a refused copy uses the prekey up), and
\* the limits are the only reason to refuse a message, whatever the network
\* duplicates (in the app a duplicate of an old chain ends the conversation).
EnclaveErrorsUndone ==
    [][host = "enclave" =>
         /\ CopyEstablishes
         /\ \A p \in Party : \A i \in 1 .. Len(wire[Peer(p)]) :
               FirstCopyRefused(p, i) /\ rolledBack = {} =>
                  \/ GapTooLong(ratchet[p], wire[Peer(p)][i].header)
                  \/ NoRoom(ratchet[p], wire[Peer(p)][i].header)]_<<vars, storedVars>>
=============================================================================
