------------------------------- MODULE Codecs --------------------------------
(***************************************************************************)
(* The byte-level conversions a message and a group client go through:     *)
(*  - core/src/envelope.rs pads a payload to a size bucket, puts the       *)
(*    sender and the length in front and seals it for one recipient;       *)
(*  - ffi/src/lib.rs packs the envelopes of a poll into one buffer, which  *)
(*    clarity.dart unpacks, before each envelope is opened;                *)
(*  - group/src/lib.rs frames the parts of an exported client and reads    *)
(*    them back from whatever the storage holds.                           *)
(* A run takes every input of a bounded set through its conversion, in one *)
(* step, and compares the result with a definition that says what it is.   *)
(*                                                                         *)
(* A u32 length is one cell of the byte string and wraps at LenModulus.    *)
(* Sealing turns each byte into a cell that only the same key turns back.  *)
(***************************************************************************)
EXTENDS Integers, Sequences, FiniteSets, SequencesExt

CONSTANTS
    LenModulus,        \* 2^32 in the code
    MIN_BUCKET,        \* 512 in the code
    MAX_POW2_BUCKET,   \* 8 KiB in the code
    Account,           \* the accounts, as numbers
    MaxPayload,        \* bound: longest payload
    MaxBuffer,         \* bound: longest byte string handed to unframe
    None

Power2 == {2 ^ k : k \in 0 .. 20}

ASSUME CodecsAssumption ==
    /\ MIN_BUCKET \in Power2 /\ MAX_POW2_BUCKET \in Power2
    /\ MIN_BUCKET <= MAX_POW2_BUCKET
    /\ LenModulus \in Nat /\ Account \subseteq Nat
    /\ MaxPayload \in Nat /\ MaxBuffer \in Nat

ASSUME NoneAssumption == None \notin Seq(Seq(Nat))

VARIABLES
    job,    \* the input and what is to be done with it
    out     \* the result, or None before the step

LenCell(s) == Len(s) % LenModulus

-----------------------------------------------------------------------------
(* envelope.rs *)

LEN_PREFIX == 1             \* four bytes in the code, one cell here
INNER_PREFIX_LEN == 2       \* the sender's two keys, one cell each
HEADER_LEN == 2             \* version and ephemeral key
VERSION == 2

\* usize::next_power_of_two
NextPowerOfTwo(n) == CHOOSE p \in Power2 : n <= p /\ \A q \in Power2 : n <= q => p <= q

\* Mutant: the length prefix is not part of what is padded.
BucketWithoutPrefix(len) ==
    IF len <= MIN_BUCKET THEN MIN_BUCKET
    ELSE IF len <= MAX_POW2_BUCKET THEN NextPowerOfTwo(len)
    ELSE ((len + MAX_POW2_BUCKET - 1) \div MAX_POW2_BUCKET) * MAX_POW2_BUCKET

Bucket(len) ==
    LET needed == len + LEN_PREFIX
    IN  IF needed <= MIN_BUCKET THEN MIN_BUCKET
        ELSE IF needed <= MAX_POW2_BUCKET THEN NextPowerOfTwo(needed)
        ELSE ((needed + MAX_POW2_BUCKET - 1) \div MAX_POW2_BUCKET) * MAX_POW2_BUCKET

\* derive_seal_key: bound to the ephemeral key and to the recipient.
SealKey(eph, recipient) == <<eph, recipient>>

\* kdf.rs aead_seal and aead_open, a cell per byte.
AeadSeal(key, bytes) == [i \in 1 .. Len(bytes) |-> <<key, bytes[i]>>]
AeadOpens(key, cells) == \A i \in 1 .. Len(cells) : cells[i][1] = key
AeadOpen(cells) == [i \in 1 .. Len(cells) |-> cells[i][2]]

SealEnvelope(sender, recipient, eph, payload) ==
    LET inner == <<sender, sender, LenCell(payload)>> \o payload
        padded == [i \in 1 .. (INNER_PREFIX_LEN + Bucket(Len(payload))) |->
                      IF i <= Len(inner) THEN inner[i] ELSE 0]
    IN  <<VERSION, eph>> \o AeadSeal(SealKey(eph, recipient), padded)

\* Mutant: the length is ignored and the padding comes along.
OpenEnvelopePadded(recipient, blob) ==
    LET key == SealKey(blob[2], recipient)
        cells == SubSeq(blob, HEADER_LEN + 1, Len(blob))
        inner == AeadOpen(cells)
    IN  IF ~AeadOpens(key, cells) THEN None
        ELSE [sender |-> inner[1],
              payload |-> SubSeq(inner, INNER_PREFIX_LEN + LEN_PREFIX + 1, Len(inner))]

OpenEnvelope(recipient, blob) ==
    LET key == SealKey(blob[2], recipient)
        cells == SubSeq(blob, HEADER_LEN + 1, Len(blob))
        inner == AeadOpen(cells)
        start == INNER_PREFIX_LEN + LEN_PREFIX
        len == inner[start]
    IN  IF \/ Len(blob) <= HEADER_LEN
           \/ blob[1] # VERSION
           \/ ~AeadOpens(key, cells)
           \/ Len(inner) < start
           \/ len > Len(inner) - start
          THEN None
          ELSE [sender |-> inner[1], payload |-> SubSeq(inner, start + 1, start + len)]

-----------------------------------------------------------------------------
(* The length-prefixed lists of group/src/lib.rs and ffi/src/lib.rs.       *)

\* frame
Frame(fields) == FlattenSeq([i \in 1 .. Len(fields) |-> <<LenCell(fields[i])>> \o fields[i]])

\* encode_byte_list: the same behind a count.
EncodeByteList(items) == <<LenCell(items)>> \o Frame(items)

\* Cursor::read_bytes at the cursor's place; a cursor that failed stays failed.
ReadBytes(cur) ==
    LET at == cur.i + 1
        end == at + cur.bytes[at]
    IN  IF ~cur.ok \/ at > Len(cur.bytes) THEN [cur EXCEPT !.ok = FALSE]
        ELSE IF end > Len(cur.bytes) THEN [cur EXCEPT !.ok = FALSE]
        ELSE [cur EXCEPT !.i = end, !.read = Append(@, SubSeq(cur.bytes, at + 1, end))]

ReadMany(bytes, from, count) ==
    FoldLeft(LAMBDA cur, n : ReadBytes(cur),
             [bytes |-> bytes, i |-> from, ok |-> TRUE, read |-> <<>>],
             [n \in 1 .. count |-> n])

\* Mutant: what follows the last field is not looked at.
UnframeLoose(bytes, count) ==
    LET cur == ReadMany(bytes, 0, count) IN IF cur.ok THEN cur.read ELSE None

\* unframe
Unframe(bytes, count) ==
    LET cur == ReadMany(bytes, 0, count)
    IN  IF cur.ok /\ cur.i = Len(bytes) THEN cur.read ELSE None

\* decodeByteList of clarity.dart; it throws where a read runs past the end.
DecodeByteList(bytes) ==
    IF Len(bytes) < 1 THEN <<>>
    ELSE LET cur == ReadMany(bytes, 1, bytes[1]) IN IF cur.ok THEN cur.read ELSE None

\* export_state: the identity, the public key, and the store as a count and its
\* entries in the order the map gives them.
ExportState(identity, public, store, order) ==
    LET entries == FlattenSeq([i \in 1 .. Len(order) |-> <<order[i], store[order[i]]>>])
    IN  Frame(<<identity, public, <<LenCell(order)>> \o Frame(entries)>>)

\* The map that the entries of a list leave behind: the last one of a key wins.
Inserted(read) ==
    LET Keys == {i \in 1 .. Len(read) : i % 2 = 1}
        Final(k) == CHOOSE i \in Keys : read[i] = k /\ \A j \in Keys : read[j] = k => j <= i
    IN  [k \in {read[i] : i \in Keys} |-> read[Final(k) + 1]]

\* The loop of import_state: a key and a value for each entry counted.
ReadEntries(bytes) == ReadMany(bytes, 1, 2 * bytes[1])

\* SignatureKeyPair::read finds the signer under its public key.
HasSigner(store, public) == public \in DOMAIN store

\* import_state
ImportState(bytes) ==
    LET parts == Unframe(bytes, 3)
        cur == ReadEntries(parts[3])
        store == Inserted(cur.read)
    IN  IF parts = None \/ parts[3] = <<>> THEN None
        ELSE IF ~cur.ok \/ cur.i # Len(parts[3]) THEN None
        ELSE IF ~HasSigner(store, parts[2]) THEN None
        ELSE [identity |-> parts[1], public |-> parts[2], store |-> store]

-----------------------------------------------------------------------------
\* What is framed is shorter than a u32 can count: envelope.rs, ffi/src/lib.rs and
\* group/src/lib.rs cast lengths with `as u32` and rely on it.
ASSUME LengthsFit ==
    /\ \A len \in 0 .. MaxPayload : HEADER_LEN + INNER_PREFIX_LEN + Bucket(len) < LenModulus
    /\ MaxBuffer < LenModulus
    /\ 19 < LenModulus     \* an exported store of three entries of Field, with its count

-----------------------------------------------------------------------------
\* Payloads of every length; the last byte may look like padding.
Payload == {[i \in 1 .. n |-> IF i = n THEN last ELSE 1] : n \in 0 .. MaxPayload, last \in {0, 1}}

Byte == 0 .. 2
Buffer == UNION {[1 .. n -> Byte] : n \in 0 .. MaxBuffer}
Field == {<<>>, <<0>>, <<1, 2>>}

Stores == UNION {[keys -> Field] : keys \in SUBSET Field}

\* Two messages wait in one mailbox, for whichever accounts they were sealed.
PollJobs == [kind : {"poll"}, sender : Account, to : Account \X Account,
             payloads : Payload \X Payload, by : Account]
FrameJobs == [kind : {"unframe"}, bytes : Buffer, count : 0 .. 3]

\* A client's store holds its signer (GroupClient::new), whatever the identity.
StoreJobs == UNION {[kind : {"import"}, identity : Field, public : DOMAIN st, store : {st},
                     order : SetToSeqs(DOMAIN st)] : st \in Stores}

Init ==
    /\ job \in PollJobs \cup FrameJobs \cup StoreJobs
    /\ out = None

\* The envelopes of a poll: sealed, packed by the FFI, unpacked and opened.
Poll ==
    /\ job.kind = "poll" /\ out = None
    /\ LET blob(i) == SealEnvelope(job.sender, job.to[i], i, job.payloads[i])
           received == DecodeByteList(EncodeByteList(<<blob(1), blob(2)>>))
       IN  out' = [i \in 1 .. Len(received) |-> OpenEnvelope(job.by, received[i])]
    /\ UNCHANGED job

ReadFields ==
    /\ job.kind = "unframe" /\ out = None
    /\ out' = [fields |-> Unframe(job.bytes, job.count)]
    /\ UNCHANGED job

Import ==
    /\ job.kind = "import" /\ out = None
    /\ out' = [client |-> ImportState(ExportState(job.identity, job.public, job.store, job.order))]
    /\ UNCHANGED job

Next == Poll \/ ReadFields \/ Import

Spec == Init /\ [][Next]_<<job, out>>

-----------------------------------------------------------------------------
Finished(kind) == job.kind = kind /\ out # None

\* envelope.rs, "malformed, tampered, or someone else's": of the envelopes in a
\* mailbox a client gets back the exact payload and sender of those sealed to
\* it, whatever the padding looks like, and nothing of the others; one
\* unreadable envelope does not shift or spoil the next.
DeliveredIntact ==
    Finished("poll") =>
        out = [i \in 1 .. 2 |->
                 IF job.to[i] = job.by
                   THEN [sender |-> job.sender, payload |-> job.payloads[i]]
                   ELSE None]

\* The sizes the module documentation lists.
Sizes == {s \in Power2 : MIN_BUCKET <= s /\ s <= MAX_POW2_BUCKET}
         \cup {k * MAX_POW2_BUCKET : k \in 1 .. (MaxPayload + 1)}

LeastSize(len) == CHOOSE s \in Sizes : len + LEN_PREFIX <= s
                     /\ \A t \in Sizes : len + LEN_PREFIX <= t => s <= t

\* envelope.rs, "ciphertext length reveals only the bucket": an envelope is as
\* long as the least listed size its payload and length prefix fit in, for
\* every length at and around the boundaries.
LengthIsLeastSize ==
    job.kind = "poll" =>
        Len(SealEnvelope(job.sender, job.to[1], 1, job.payloads[1]))
            = HEADER_LEN + INNER_PREFIX_LEN + LeastSize(Len(job.payloads[1]))

\* The byte string is `count` fields, each behind its own length, end to end.
IsFramed(bytes, count) ==
    \E at \in [1 .. (count + 1) -> 0 .. Len(bytes)] :
        /\ at[1] = 0
        /\ at[count + 1] = Len(bytes)
        /\ \A i \in 1 .. count :
              at[i] < Len(bytes) /\ at[i + 1] = at[i] + 1 + bytes[at[i] + 1]

\* unframe, "exactly `count` fields or None if malformed": it accepts exactly
\* what frame could have written, and returns what frame was given.  Nested, as
\* export_state and import_state use it, a client survives its export: identity,
\* public key and store, with the signer found again under that key, in
\* whatever order the map is written.
FramingExact ==
    /\ Finished("unframe") =>
          /\ (out.fields # None) = IsFramed(job.bytes, job.count)
          /\ out.fields # None => Len(out.fields) = job.count /\ Frame(out.fields) = job.bytes
    /\ Finished("import") =>
          out.client = [identity |-> job.identity, public |-> job.public, store |-> job.store]
=============================================================================
