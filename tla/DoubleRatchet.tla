---------------------------- MODULE DoubleRatchet ----------------------------
(***************************************************************************)
(* The Double Ratchet of core/src/ratchet.rs as functions on ratchet       *)
(* states.  Every method of the Rust type takes &mut self and returns a    *)
(* Result; here it is an operator from a state to the state it leaves      *)
(* behind and the verdict, because an Err does NOT undo what the method    *)
(* already wrote.                                                          *)
(*                                                                         *)
(* Cryptography is symbolic.                                               *)
(*  - A DH key pair is a natural number, used for the secret and for the   *)
(*    public half; dh of two pairs is the set of the two numbers, which is *)
(*    symmetric as X25519 is.  The responder's signed prekey is SPK.       *)
(*  - A root key is the sequence of the DH outputs mixed into it since the *)
(*    handshake, whose own secret is the empty sequence: kdf_rk appends.   *)
(*  - A chain key is the root it was derived with and its number of        *)
(*    advances; the message key taken from it is the pair of the two.      *)
(*  - The AEAD opens exactly when the key is the one that sealed.          *)
(***************************************************************************)
EXTENDS Integers, Sequences, FiniteSets

CONSTANTS
    MAX_SKIP,             \* longest gap skipped in one call (1000 in the code)
    MAX_SKIPPED_CACHE,    \* most cached keys over all chains (4000 in the code)
    None                  \* Rust's None

ASSUME SkipAssumption ==
    /\ MAX_SKIP \in Nat
    /\ MAX_SKIPPED_CACHE \in Nat

\* The responder's signed prekey, which doubles as its first ratchet key.
SPK == 0

DhKey == Nat
RootKey == Seq(SUBSET DhKey)
ChainKey == [id : RootKey, pos : Nat]
MessageKey == RootKey \X Nat
Header == [dh_pub : DhKey, pn : Nat, n : Nat]

NoKeys == [e \in {} |-> None]

\* The map from (remote key, number) to the key of a skipped message.
IsSkippedMap(f) ==
    /\ f = [e \in DOMAIN f |-> f[e]]
    /\ IsFiniteSet(DOMAIN f)
    /\ \A e \in DOMAIN f : e \in DhKey \X Nat /\ f[e] \in MessageKey

\* (A record set that TLC can test r against: its last field is r's own map.)
IsRatchetState(r) ==
    /\ r \in [root_key   : RootKey,
             dh_self    : DhKey,
             dh_remote  : DhKey \cup {None},
             chain_send : ChainKey \cup {None},
             chain_recv : ChainKey \cup {None},
             n_send     : Nat,
             n_recv     : Nat,
             pn         : Nat,
             skipped    : {r.skipped}]
    /\ IsSkippedMap(r.skipped)

ASSUME NoneAssumption == None \notin DhKey /\ None \notin ChainKey

-----------------------------------------------------------------------------
(* Primitives: kdf.rs and the free functions of ratchet.rs.                *)

dh(a, b) == {a, b}

kdf_rk(root, dhOut) == Append(root, dhOut)

\* kdf_rk returns a root key and a chain key from one HKDF output.
FirstChainKey(root) == [id |-> root, pos |-> 0]

\* kdf_ck: the next chain key, and the message key of the present one.
Advance(ck, k) == [ck EXCEPT !.pos = @ + k]
NextChainKey(ck) == Advance(ck, 1)
KeyOf(ck) == <<ck.id, ck.pos>>
KeyAhead(ck, k) == <<ck.id, ck.pos + k>>

-----------------------------------------------------------------------------
InitInitiator(remoteDhPub, fresh) ==
    LET root == kdf_rk(<<>>, dh(fresh, remoteDhPub))
    IN  [root_key   |-> root,
         dh_self    |-> fresh,
         dh_remote  |-> remoteDhPub,
         chain_send |-> FirstChainKey(root),
         chain_recv |-> None,
         n_send     |-> 0,
         n_recv     |-> 0,
         pn         |-> 0,
         skipped    |-> NoKeys]

InitResponder(dhSelf) ==
    [root_key   |-> <<>>,
     dh_self    |-> dhSelf,
     dh_remote  |-> None,
     chain_send |-> None,
     chain_recv |-> None,
     n_send     |-> 0,
     n_recv     |-> 0,
     pn         |-> 0,
     skipped    |-> NoKeys]

\* encrypt: the header and the key of the next message, and the state after.
CanEncrypt(r) == r.chain_send # None

\* Mutant: numbers the message one too low.
EncryptHeaderOffByOne(r) ==
    [dh_pub |-> r.dh_self, pn |-> r.pn, n |-> r.n_send - 1]

EncryptHeader(r) == [dh_pub |-> r.dh_self, pn |-> r.pn, n |-> r.n_send]

\* Mutant: the chain key is not replaced by its successor.
EncryptStateStuck(r) == [r EXCEPT !.n_send = @ + 1]

EncryptState(r) ==
    [r EXCEPT !.chain_send = NextChainKey(@), !.n_send = @ + 1]

-----------------------------------------------------------------------------
\* A Result together with the state the call leaves behind.
Outcome(state, ok) == [state |-> state, ok |-> ok]

\* Mutant: the cap is tested with > instead of >=.
StoredNumbersOneOver(r, until) ==
    {m \in r.n_recv .. (until - 1) :
        Cardinality(DOMAIN r.skipped \cup ({r.dh_remote} \X (r.n_recv .. (m - 1))))
            <= MAX_SKIPPED_CACHE}

\* The numbers the loop of skip_message_keys caches on its way to `until`:
\* it stops at the first one that finds the cache full.
StoredNumbers(r, until) ==
    {m \in r.n_recv .. (until - 1) :
        Cardinality(DOMAIN r.skipped \cup ({r.dh_remote} \X (r.n_recv .. (m - 1))))
            < MAX_SKIPPED_CACHE}

\* The cache once the keys numbered `nums` of the current chain are in it.
CacheNumbers(r, nums) ==
    LET entries == {r.dh_remote} \X nums
    IN  [e \in DOMAIN r.skipped \cup entries |->
            IF e \in entries
              THEN KeyAhead(r.chain_recv, e[2] - r.n_recv)
              ELSE r.skipped[e]]

\* The loop of skip_message_keys.  chain_recv is written back only after the
\* last iteration; skipped and n_recv are written as the loop goes.
SkipLoop(r, until) ==
    LET nums == StoredNumbers(r, until)
        done == nums = r.n_recv .. (until - 1)
    IN  Outcome([r EXCEPT !.skipped = CacheNumbers(r, nums),
                          !.n_recv = @ + Cardinality(nums),
                          !.chain_recv = IF done THEN Advance(@, until - r.n_recv) ELSE @],
                done)

SkipMessageKeys(r, until) ==
    IF r.chain_recv = None \/ until < r.n_recv
      THEN Outcome(r, TRUE)
      ELSE IF until - r.n_recv > MAX_SKIP
             THEN Outcome(r, FALSE)
             ELSE SkipLoop(r, until)

\* dh_ratchet: a receiving chain from our old key pair, a sending one from a fresh.
DhRatchet(r, remotePub, fresh) ==
    LET recvRoot == kdf_rk(r.root_key, dh(r.dh_self, remotePub))
        sendRoot == kdf_rk(recvRoot, dh(fresh, remotePub))
    IN  [r EXCEPT !.pn = r.n_send,
                  !.n_send = 0,
                  !.n_recv = 0,
                  !.dh_remote = remotePub,
                  !.dh_self = fresh,
                  !.root_key = sendRoot,
                  !.chain_recv = FirstChainKey(recvRoot),
                  !.chain_send = FirstChainKey(sendRoot)]

\* Mutant: the cached key is read with get, not with remove.
OpenCachedKeeps(r, entry, key) == Outcome(r, r.skipped[entry] = key)

\* Step 1 of decrypt: the cached key goes, whether or not it opens.
OpenCached(r, entry, key) ==
    Outcome([r EXCEPT !.skipped = [e \in DOMAIN @ \ {entry} |-> @[e]]],
            r.skipped[entry] = key)

\* Mutant: the rest of the old chain is not cached before the DH ratchet.
TurnRatchetForgets(r, h, fresh) ==
    Outcome(IF r.dh_remote = h.dh_pub THEN r ELSE DhRatchet(r, h.dh_pub, fresh), TRUE)

\* Step 2 of decrypt: a DH ratchet when the header shows a new remote key.
TurnRatchet(r, h, fresh) ==
    LET skip == SkipMessageKeys(r, h.pn)
    IN  IF r.dh_remote = h.dh_pub
          THEN Outcome(r, TRUE)
          ELSE IF skip.ok
                 THEN Outcome(DhRatchet(skip.state, h.dh_pub, fresh), TRUE)
                 ELSE skip

\* Mutant: the receiving chain key is not replaced by its successor.
OpenNextStuck(r, key) ==
    Outcome(r, r.chain_recv # None /\ KeyOf(r.chain_recv) = key)

\* The end of decrypt: the chain advances before the AEAD is tried.
OpenNext(r, key) ==
    IF r.chain_recv = None
      THEN Outcome(r, FALSE)
      ELSE Outcome([r EXCEPT !.chain_recv = NextChainKey(@), !.n_recv = @ + 1],
                   KeyOf(r.chain_recv) = key)

\* decrypt of a ciphertext sealed with `key` under header h (the header is the
\* associated data); `fresh` is the key pair a DH ratchet would generate.
Decrypt(r, h, key, fresh) ==
    LET entry == <<h.dh_pub, h.n>>
        turned == TurnRatchet(r, h, fresh)
        ready == SkipMessageKeys(turned.state, h.n)
    IN  IF entry \in DOMAIN r.skipped
          THEN OpenCached(r, entry, key)
          ELSE IF ~turned.ok
                 THEN turned
                 ELSE IF ~ready.ok
                        THEN ready
                        ELSE OpenNext(ready.state, key)
=============================================================================
