------------------------- MODULE StoredSessionProofs -------------------------
(***************************************************************************)
(* Theorems about StoredSession, for every MAX_SKIP, every cache cap, any  *)
(* traffic and any number of kills of either end, in the app and in the    *)
(* enclave.                                                                *)
(*                                                                         *)
(* A party has two states of its session, the one in memory and the one a  *)
(* restart would find, and each has a record of the messages it has sent   *)
(* and opened.  Each is sound for ITS record: that is what a restart,      *)
(* which swaps one for the other, keeps.                                   *)
(***************************************************************************)
EXTENDS StoredSession, SessionProofs

Done == [sent : SUBSET Nat, opened : SUBSET Nat]

\* The keys of the messages a state has sent, and of those it has opened.
KeysSent(w, p, d) == {w[p][i].key : i \in d.sent}
KeysOpened(w, p, d) == {w[Peer(p)][i].key : i \in d.opened}

\* A state r of party p's session is sound for the record d, given the wire w,
\* the parties that have overflowed and those for which there is a session.
CopySound(w, over, est, p, r, d) ==
    /\ WellFormed(r)
    /\ d \in Done
    /\ d.sent \subseteq 1 .. Len(w[p])
    /\ d.opened \subseteq 1 .. Len(w[Peer(p)])
    /\ p \notin est => d.sent = {} /\ d.opened = {}
    /\ p \in est => Len(r.root_key) % 2 = RootParity(p)
    /\ SendSound(r, KeysSent(w, p, d))
    /\ p \notin over => RecvSound(r, KeysOpened(w, p, d))

\* The record tells all that happened.
Complete(w, p, d) ==
    /\ d.sent = 1 .. Len(w[p])
    /\ d.opened = {i \in 1 .. Len(w[Peer(p)]) : w[Peer(p)][i].accepts > 0}

\* The parties whose session is in storage.
Stored == {p \in Party : disk[p].session}

\* The keys on the wire.
KeysInv(w, lost, over) ==
    /\ \A p \in Party : \A i \in 1 .. Len(w[p]) : Len(w[p][i].key[1]) % 2 = RootParity(p)
    /\ \A p \in Party \ lost : \A i, j \in 1 .. Len(w[p]) : w[p][i].key = w[p][j].key => i = j
    /\ \A p \in Party : Peer(p) \notin lost \cup over =>
          /\ \A i \in 1 .. Len(w[p]) : w[p][i].accepts <= 1
          /\ \A i, j \in 1 .. Len(w[p]) :
                w[p][i].key = w[p][j].key /\ w[p][i].accepts > 0 /\ w[p][j].accepts > 0 => i = j

StoredTypes ==
    /\ TypeOK
    /\ owed \in SUBSET Party
    /\ rolledBack \in SUBSET Party
    /\ DOMAIN done = Party
    /\ DOMAIN disk = Party
    /\ \A p \in Party : /\ disk[p].session \in BOOLEAN
                        /\ disk[p].pending \in BOOLEAN
                        /\ disk[p].opk \in BOOLEAN

CopiesInv ==
    /\ \A p \in Party : CopySound(wire, overflowed, established, p, ratchet[p], done[p])
    /\ \A p \in Party : CopySound(wire, overflowed, Stored, p, Deserialize(disk[p].ratchet),
                                  disk[p].done)

\* What is stored was once in memory, and nothing is missing from a record but
\* in a party that lost an operation.
RecordsInv ==
    \A p \in Party :
        /\ p \in Stored => p \in established
        /\ disk[p].done.sent \subseteq done[p].sent
        /\ disk[p].done.opened \subseteq done[p].opened
        /\ p \notin owed => disk[p].done = done[p]
        /\ p \notin rolledBack => Complete(wire, p, done[p])

StoredInv ==
    /\ StoredTypes
    /\ CopiesInv
    /\ RecordsInv
    /\ KeysInv(wire, rolledBack, overflowed)
    /\ RespondersHeard

-----------------------------------------------------------------------------
(* The stored form of a session.                                           *)

\* DoubleRatchet::deserialize gives back what DoubleRatchet::serialize was
\* given, with every skipped key under its entry.
LEMMA SerializeInverse ==
    ASSUME NEW r, WellFormed(r)
    PROVE  Deserialize(Serialize(r)) = r
<1> DEFINE f == r.skipped
           S == {<<e, f[e]>> : e \in DOMAIN f}
           s == Serialize(r)
           g == [e \in {x[1] : x \in S} |-> (CHOOSE x \in S : x[1] = e)[2]]
<1>1. f = [e \in DOMAIN f |-> f[e]] BY DEF WellFormed, IsRatchetState, IsSkippedMap
<1>2. s = [r EXCEPT !.skipped = S] BY DEF Serialize
<1>3. r = [root_key |-> r.root_key, dh_self |-> r.dh_self, dh_remote |-> r.dh_remote,
           chain_send |-> r.chain_send, chain_recv |-> r.chain_recv, n_send |-> r.n_send,
           n_recv |-> r.n_recv, pn |-> r.pn, skipped |-> f]
  BY DEF WellFormed, IsRatchetState
<1> HIDE DEF f, S, s
<1>4. s.skipped = S BY <1>2, <1>3
<1>5. \A x \in S : x[1] \in DOMAIN f /\ x = <<x[1], f[x[1]]>> BY DEF S
<1>6. \A e \in DOMAIN f : <<e, f[e]>> \in S /\ <<e, f[e]>>[1] = e BY DEF S
<1>7. {x[1] : x \in S} = DOMAIN f BY <1>5, <1>6
<1>8. ASSUME NEW e \in DOMAIN f PROVE (CHOOSE x \in S : x[1] = e)[2] = f[e]
  <2> DEFINE c == CHOOSE x \in S : x[1] = e
  <2>1. c \in S /\ c[1] = e BY <1>6
  <2> HIDE DEF c
  <2>2. c = <<e, f[e]>> BY <1>5, <2>1
  <2>3. c[2] = f[e] BY <2>2
  <2> QED BY <2>3, Zenon DEF c
<1>9. g = f
  <2>1. g = [e \in DOMAIN f |-> (CHOOSE x \in S : x[1] = e)[2]] BY <1>7
  <2>2. g = [e \in DOMAIN f |-> f[e]] BY <1>8, <2>1
  <2> QED BY <1>1, <2>2
<1>10. Deserialize(s) = [s EXCEPT !.skipped = g] BY <1>4 DEF Deserialize
<1> HIDE DEF g
<1>11. Deserialize(s) = [s EXCEPT !.skipped = f] BY <1>9, <1>10
<1>12. [s EXCEPT !.skipped = f] = r
  <2>1. s = [root_key |-> r.root_key, dh_self |-> r.dh_self, dh_remote |-> r.dh_remote,
             chain_send |-> r.chain_send, chain_recv |-> r.chain_recv, n_send |-> r.n_send,
             n_recv |-> r.n_recv, pn |-> r.pn, skipped |-> S]
    BY <1>2, <1>3
  <2>2. [s EXCEPT !.skipped = f] =
            [root_key |-> r.root_key, dh_self |-> r.dh_self, dh_remote |-> r.dh_remote,
             chain_send |-> r.chain_send, chain_recv |-> r.chain_recv, n_send |-> r.n_send,
             n_recv |-> r.n_recv, pn |-> r.pn, skipped |-> f]
    BY <2>1
  <2> QED BY <1>3, <2>2
<1> QED BY <1>11, <1>12 DEF s

-----------------------------------------------------------------------------
(* What the wire and the records keep.                                     *)

\* The wire only grows: what was sealed stays, what was opened was opened.
WireGrows(w, v) ==
    \A q \in Party :
        /\ Len(w[q]) \in Nat /\ Len(v[q]) \in Nat /\ Len(w[q]) <= Len(v[q])
        /\ \A i \in 1 .. Len(w[q]) :
              /\ v[q][i].key = w[q][i].key
              /\ w[q][i].accepts \in Nat /\ v[q][i].accepts \in Nat
              /\ w[q][i].accepts <= v[q][i].accepts

\* A state stays sound for its record while the wire grows.
LEMMA GrowSound ==
    ASSUME NEW w, NEW v, WireGrows(w, v), NEW over, NEW over2, over \subseteq over2,
           NEW est, NEW est2, NEW p \in Party, p \in est <=> p \in est2,
           NEW r, NEW d, CopySound(w, over, est, p, r, d)
    PROVE  CopySound(v, over2, est2, p, r, d)
<1>1. Peer(p) \in Party BY PeerFacts
<1>2. \A q \in Party : \A i \in 1 .. Len(w[q]) : i \in 1 .. Len(v[q]) /\ v[q][i].key = w[q][i].key
  <2> SUFFICES ASSUME NEW q \in Party, NEW i \in 1 .. Len(w[q])
               PROVE  i \in 1 .. Len(v[q]) /\ v[q][i].key = w[q][i].key
    OBVIOUS
  <2>1. Len(w[q]) \in Nat /\ Len(v[q]) \in Nat /\ Len(w[q]) <= Len(v[q]) BY DEF WireGrows
  <2>2. v[q][i].key = w[q][i].key BY DEF WireGrows
  <2> QED BY <2>1, <2>2
<1>3. d.sent \subseteq 1 .. Len(w[p]) /\ d.opened \subseteq 1 .. Len(w[Peer(p)]) BY DEF CopySound
<1>4. d.sent \subseteq 1 .. Len(v[p]) /\ d.opened \subseteq 1 .. Len(v[Peer(p)])
  BY <1>1, <1>2, <1>3
<1>5. KeysSent(v, p, d) = KeysSent(w, p, d) BY <1>2, <1>3 DEF KeysSent
<1>6. KeysOpened(v, p, d) = KeysOpened(w, p, d)
  <2>1. \A i \in d.opened : v[Peer(p)][i].key = w[Peer(p)][i].key BY <1>1, <1>2, <1>3
  <2> QED BY <2>1 DEF KeysOpened
<1> QED BY <1>4, <1>5, <1>6 DEF CopySound

\* The wire's messages.
LEMMA WireTypes ==
    ASSUME TypeOK, NEW q \in Party
    PROVE  /\ wire[q] \in Seq(Envelope) /\ Len(wire[q]) \in Nat
           /\ \A i \in 1 .. Len(wire[q]) :
                 /\ wire[q][i] \in Envelope /\ wire[q][i].accepts \in Nat
                 /\ wire[q][i].header \in Header /\ wire[q][i].key \in MessageKey
<1>1. wire[q] \in Seq(Envelope) BY DEF TypeOK
<1>2. \A i \in 1 .. Len(wire[q]) : wire[q][i] \in Envelope BY <1>1
<1>3. \A x \in Envelope : x.accepts \in Nat /\ x.header \in Header /\ x.key \in MessageKey BY DEF Envelope
<1> QED BY <1>1, <1>2, <1>3

\* An operation that went through is in the record of memory, and owed.
LEMMA OwesFacts ==
    ASSUME DOMAIN done = Party, NEW p \in Party, done[p] \in Done,
           NEW S \in SUBSET Nat, NEW T \in SUBSET Nat, Owes(p, S, T)
    PROVE  /\ DOMAIN done' = Party /\ done'[p] \in Done
           /\ done'[p].sent = done[p].sent \cup S /\ done'[p].opened = done[p].opened \cup T
           /\ \A q \in Party : q # p => done'[q] = done[q]
           /\ owed' = owed \cup {p}
           /\ UNCHANGED <<host, disk, crashes, rolledBack>>
<1> DEFINE d == done[p]
           one == [d EXCEPT !.sent = @ \cup S]
           two == [one EXCEPT !.opened = @ \cup T]
<1>1. done' = [done EXCEPT ![p].sent = @ \cup S, ![p].opened = @ \cup T] BY DEF Owes
<1>2. done' = [[done EXCEPT ![p] = one] EXCEPT ![p] = two]
  <2>1. [done EXCEPT ![p] = one][p] = one OBVIOUS
  <2> HIDE DEF one
  <2> QED BY <1>1, <2>1 DEF one
<1>3. d \in Done /\ d = [sent |-> d.sent, opened |-> d.opened] BY DEF Done
<1>4. one = [sent |-> d.sent \cup S, opened |-> d.opened] BY <1>3
<1> HIDE DEF one
<1>5. two = [sent |-> d.sent \cup S, opened |-> d.opened \cup T]
  <2> HIDE DEF d
  <2>1. DOMAIN one = {"sent", "opened"} /\ one.sent = d.sent \cup S /\ one.opened = d.opened
    BY <1>4
  <2> QED BY <1>4, <2>1
<1> HIDE DEF two
<1>6. /\ DOMAIN done' = Party /\ done'[p] = two /\ \A q \in Party : q # p => done'[q] = done[q]
  BY <1>2
<1>7. two \in Done BY <1>3, <1>5 DEF Done
<1> QED BY <1>5, <1>6, <1>7 DEF Owes

\* Handing message i over lets the wire grow, and the records stay complete.
LEMMA HandedGrows ==
    ASSUME TypeOK, NEW p \in Party, NEW i \in 1 .. Len(wire[Peer(p)]), NEW ok \in BOOLEAN,
           Handed(p, i, ok)
    PROVE  /\ WireGrows(wire, wire') /\ wire' \in [Party -> Seq(Envelope)]
           /\ \A q \in Party : \A d, e :
                 /\ Complete(wire, q, d) /\ e.sent = d.sent
                 /\ e.opened = d.opened \cup (IF ok /\ q = p THEN {i} ELSE {})
                 => Complete(wire', q, e)
<1>1. /\ wire' \in [Party -> Seq(Envelope)]
      /\ \A q \in Party : Len(wire'[q]) = Len(wire[q])
      /\ \A q \in Party : \A j \in 1 .. Len(wire[q]) :
           /\ wire'[q][j].key = wire[q][j].key
           /\ wire'[q][j].accepts = IF q = Peer(p) /\ j = i /\ ok THEN wire[q][j].accepts + 1
                                                                 ELSE wire[q][j].accepts
  BY HandedFacts
<1>2. \A q \in Party : /\ Len(wire[q]) \in Nat
                       /\ \A j \in 1 .. Len(wire[q]) : wire[q][j].accepts \in Nat
  BY WireTypes
<1>3. WireGrows(wire, wire')
  <2> SUFFICES ASSUME NEW q \in Party
               PROVE  /\ Len(wire[q]) \in Nat /\ Len(wire'[q]) \in Nat /\ Len(wire[q]) <= Len(wire'[q])
                      /\ \A j \in 1 .. Len(wire[q]) :
                            /\ wire'[q][j].key = wire[q][j].key
                            /\ wire[q][j].accepts \in Nat /\ wire'[q][j].accepts \in Nat
                            /\ wire[q][j].accepts <= wire'[q][j].accepts
    BY DEF WireGrows
  <2>1. Len(wire[q]) \in Nat /\ Len(wire'[q]) = Len(wire[q]) BY <1>1, <1>2
  <2>2. ASSUME NEW j \in 1 .. Len(wire[q])
        PROVE  /\ wire[q][j].accepts \in Nat /\ wire'[q][j].accepts \in Nat
               /\ wire[q][j].accepts <= wire'[q][j].accepts
    <3> DEFINE a == wire[q][j].accepts
               b == wire'[q][j].accepts
    <3>1. a \in Nat /\ (b = a + 1 \/ b = a) BY <1>1, <1>2
    <3> HIDE DEF a, b
    <3>2. b \in Nat /\ a <= b BY <3>1
    <3> QED BY <3>1, <3>2 DEF a, b
  <2> QED BY <1>1, <2>1, <2>2
<1>4. ASSUME NEW q \in Party, NEW d, NEW e, Complete(wire, q, d), e.sent = d.sent,
             e.opened = d.opened \cup (IF ok /\ q = p THEN {i} ELSE {})
      PROVE  Complete(wire', q, e)
  <2> DEFINE z == Peer(q)
             Old == {j \in 1 .. Len(wire[z]) : wire[z][j].accepts > 0}
             New == {j \in 1 .. Len(wire'[z]) : wire'[z][j].accepts > 0}
  <2>1. z \in Party /\ (z = Peer(p) <=> q = p) BY PeerFacts DEF Party, Peer
  <2>2. e.sent = 1 .. Len(wire'[q]) BY <1>1, <1>4 DEF Complete
  <2>3. d.opened = Old BY <1>4 DEF Complete
  <2> HIDE DEF z
  <2>4. Len(wire'[z]) = Len(wire[z]) BY <1>1, <2>1
  <2>5. CASE ok /\ q = p
    <3>1. \A j \in 1 .. Len(wire[z]) : j # i => wire'[z][j].accepts = wire[z][j].accepts
      BY <1>1, <2>1, <2>5
    <3>2. i \in 1 .. Len(wire[z]) BY <2>1, <2>5
    <3>3. wire'[z][i].accepts = wire[z][i].accepts + 1 /\ wire[z][i].accepts \in Nat
      BY <1>1, <1>2, <2>1, <2>5, <3>2
    <3>4. wire'[z][i].accepts > 0 BY <3>3
    <3>5. New = Old \cup {i} BY <2>4, <3>1, <3>2, <3>4
    <3> HIDE DEF New, Old
    <3>6. e.opened = New BY <1>4, <2>3, <2>5, <3>5
    <3> QED BY <2>2, <3>6 DEF Complete, New, z
  <2>6. CASE ~(ok /\ q = p)
    <3>1. \A j \in 1 .. Len(wire[z]) : wire'[z][j].accepts = wire[z][j].accepts
      BY <1>1, <2>1, <2>6
    <3>2. New = Old BY <2>4, <3>1
    <3> HIDE DEF New, Old
    <3>3. e.opened = New BY <1>4, <2>3, <2>6, <3>2
    <3> QED BY <2>2, <3>3 DEF Complete, New, z
  <2> QED BY <2>5, <2>6
<1> QED BY <1>1, <1>3, <1>4

\* A message is opened with a key that p's state has not opened with: at a party
\* that never lost anything, no message of that key was opened before.
LEMMA HandedKeysInv ==
    ASSUME TypeOK, NEW p \in Party, NEW i \in 1 .. Len(wire[Peer(p)]), NEW ok \in BOOLEAN,
           Handed(p, i, ok), overflowed \subseteq overflowed',
           KeysInv(wire, rolledBack, overflowed), p \notin rolledBack => Complete(wire, p, done[p]),
           ok /\ p \notin overflowed => wire[Peer(p)][i].key \notin KeysOpened(wire, p, done[p])
    PROVE  /\ KeysInv(wire', rolledBack, overflowed')
           /\ ok /\ p \notin rolledBack \cup overflowed => wire[Peer(p)][i].accepts = 0
<1> DEFINE z == Peer(p)
<1>1. /\ \A q \in Party : Len(wire'[q]) = Len(wire[q])
      /\ \A q \in Party : \A j \in 1 .. Len(wire[q]) :
           /\ wire'[q][j].key = wire[q][j].key
           /\ wire'[q][j].accepts = IF q = z /\ j = i /\ ok THEN wire[q][j].accepts + 1
                                                           ELSE wire[q][j].accepts
  BY HandedFacts
<1>2. \A q \in Party : \A j \in 1 .. Len(wire[q]) : wire[q][j].accepts \in Nat BY WireTypes
<1>3. z \in Party /\ Peer(z) = p BY PeerFacts
<1>4. ASSUME ok, p \notin rolledBack \cup overflowed
      PROVE  \A j \in 1 .. Len(wire[z]) : wire[z][j].key = wire[z][i].key => wire[z][j].accepts = 0
  <2> SUFFICES ASSUME NEW j \in 1 .. Len(wire[z]), wire[z][j].key = wire[z][i].key
               PROVE  wire[z][j].accepts = 0
    OBVIOUS
  <2>1. done[p].opened = {k \in 1 .. Len(wire[z]) : wire[z][k].accepts > 0} BY <1>4 DEF Complete
  <2>2. wire[z][j].key \notin KeysOpened(wire, p, done[p]) BY <1>4
  <2>3. j \notin done[p].opened BY <2>2 DEF KeysOpened
  <2>4. ~(wire[z][j].accepts > 0) BY <2>1, <2>3
  <2> QED BY <1>2, <1>3, <2>4
<1> HIDE DEF z
<1>5. ASSUME NEW q \in Party, Peer(q) \notin rolledBack \cup overflowed'
      PROVE  /\ \A j \in 1 .. Len(wire'[q]) : wire'[q][j].accepts <= 1
             /\ \A j, k \in 1 .. Len(wire'[q]) :
                   wire'[q][j].key = wire'[q][k].key /\ wire'[q][j].accepts > 0
                     /\ wire'[q][k].accepts > 0 => j = k
  <2>1. /\ \A j \in 1 .. Len(wire[q]) : wire[q][j].accepts <= 1
        /\ \A j, k \in 1 .. Len(wire[q]) :
              wire[q][j].key = wire[q][k].key /\ wire[q][j].accepts > 0 /\ wire[q][k].accepts > 0 => j = k
    BY <1>5 DEF KeysInv
  <2>2. CASE ~(q = z /\ ok)
    <3>1. \A j \in 1 .. Len(wire[q]) : wire'[q][j].accepts = wire[q][j].accepts BY <1>1, <2>2
    <3>2. \A j \in 1 .. Len(wire[q]) : wire'[q][j].key = wire[q][j].key BY <1>1
    <3>3. 1 .. Len(wire'[q]) = 1 .. Len(wire[q]) BY <1>1
    <3> DEFINE D == 1 .. Len(wire[q])
    <3>4. \A j \in D : wire'[q][j].accepts <= 1 BY <2>1, <3>1
    <3>5. \A j, k \in D : wire'[q][j].key = wire'[q][k].key /\ wire'[q][j].accepts > 0
                            /\ wire'[q][k].accepts > 0 => j = k
      BY <2>1, <3>1, <3>2
    <3> QED BY <3>3, <3>4, <3>5
  <2>3. CASE q = z /\ ok
    <3>1. p \notin rolledBack \cup overflowed BY <1>3, <1>5, <2>3
    <3>2. \A j \in 1 .. Len(wire[q]) : wire[q][j].key = wire[q][i].key => wire[q][j].accepts = 0
      BY <1>4, <2>3, <3>1
    <3>3. i \in 1 .. Len(wire[q]) BY <2>3 DEF z
    <3>4. wire[q][i].accepts = 0 BY <3>2, <3>3
    <3>5. wire'[q][i].accepts = 1 BY <1>1, <2>3, <3>3, <3>4
    <3>6. \A j \in 1 .. Len(wire[q]) : j # i => wire'[q][j].accepts = wire[q][j].accepts
      BY <1>1, <2>3
    <3>7. \A j \in 1 .. Len(wire[q]) : wire'[q][j].accepts <= 1
      <4> SUFFICES ASSUME NEW j \in 1 .. Len(wire[q]) PROVE wire'[q][j].accepts <= 1 OBVIOUS
      <4>1. CASE j = i BY <3>5, <4>1
      <4>2. CASE j # i BY <2>1, <3>6, <4>2
      <4> QED BY <4>1, <4>2
    <3>8. \A j \in 1 .. Len(wire[q]) :
             wire[q][j].key = wire[q][i].key /\ wire'[q][j].accepts > 0 => j = i
      <4> SUFFICES ASSUME NEW j \in 1 .. Len(wire[q]), wire[q][j].key = wire[q][i].key,
                          wire'[q][j].accepts > 0, j # i
                   PROVE  FALSE
        OBVIOUS
      <4>1. wire'[q][j].accepts = 0 BY <3>2, <3>6
      <4> QED BY <4>1
    <3>9. ASSUME NEW j \in 1 .. Len(wire[q]), NEW k \in 1 .. Len(wire[q]),
                 wire[q][j].key = wire[q][k].key, wire'[q][j].accepts > 0, wire'[q][k].accepts > 0
          PROVE  j = k
      <4>1. CASE j = i BY <3>8, <3>9, <4>1
      <4>2. CASE k = i BY <3>8, <3>9, <4>2
      <4>3. CASE j # i /\ k # i BY <2>1, <3>6, <3>9, <4>3
      <4> QED BY <4>1, <4>2, <4>3
    <3>10. Len(wire'[q]) = Len(wire[q]) /\ \A j \in 1 .. Len(wire[q]) : wire'[q][j].key = wire[q][j].key
      BY <1>1
    <3> QED BY <3>7, <3>9, <3>10
  <2> QED BY <2>2, <2>3
<1>6. \A q \in Party : \A j \in 1 .. Len(wire'[q]) : Len(wire'[q][j].key[1]) % 2 = RootParity(q)
  <2> SUFFICES ASSUME NEW q \in Party, NEW j \in 1 .. Len(wire'[q])
               PROVE  Len(wire'[q][j].key[1]) % 2 = RootParity(q)
    OBVIOUS
  <2>1. j \in 1 .. Len(wire[q]) /\ wire'[q][j].key = wire[q][j].key BY <1>1
  <2>2. Len(wire[q][j].key[1]) % 2 = RootParity(q) BY <2>1 DEF KeysInv
  <2> QED BY <2>1, <2>2
<1>7. \A q \in Party \ rolledBack : \A j, k \in 1 .. Len(wire'[q]) : wire'[q][j].key = wire'[q][k].key => j = k
  BY <1>1 DEF KeysInv
<1>8. ok /\ p \notin rolledBack \cup overflowed => wire[z][i].accepts = 0 BY <1>4 DEF z
<1> QED BY <1>5, <1>6, <1>7, <1>8 DEF KeysInv, z

\* A step of p, in memory and on the wire: nothing stored is touched.
LEMMA ActKeeps ==
    ASSUME StoredInv, NEW p \in Party, StoredTypes', WireGrows(wire, wire'),
           disk' = disk, rolledBack' = rolledBack,
           overflowed \subseteq overflowed', established \subseteq established', owed \subseteq owed',
           \A q \in Party : q # p => /\ ratchet'[q] = ratchet[q] /\ done'[q] = done[q]
                                     /\ q \in established' => q \in established,
           done[p].sent \subseteq done'[p].sent, done[p].opened \subseteq done'[p].opened,
           p \notin owed' => done'[p] = done[p],
           CopySound(wire', overflowed', established', p, ratchet'[p], done'[p]),
           \A q \in Party \ rolledBack : Complete(wire', q, done'[q]),
           KeysInv(wire', rolledBack, overflowed'),
           Responder \in established' \ established =>
              \E i \in 1 .. Len(wire'[Initiator]) : wire'[Initiator][i].accepts > 0
    PROVE  StoredInv'
<1>1. Stored' = Stored BY DEF Stored
<1>2. CopiesInv'
  <2>1. ASSUME NEW q \in Party
        PROVE  CopySound(wire', overflowed', established', q, ratchet'[q], done'[q])
    <3>1. CASE q = p BY <3>1
    <3>2. CASE q # p
      <4>1. CopySound(wire, overflowed, established, q, ratchet[q], done[q])
        BY DEF StoredInv, CopiesInv
      <4>2. q \in established <=> q \in established' BY <3>2
      <4>3. ratchet'[q] = ratchet[q] /\ done'[q] = done[q] BY <3>2
      <4>4. CopySound(wire', overflowed', established', q, ratchet[q], done[q])
        BY <4>1, <4>2, GrowSound
      <4> QED BY <4>3, <4>4
    <3> QED BY <3>1, <3>2
  <2>2. ASSUME NEW q \in Party
        PROVE  CopySound(wire', overflowed', Stored', q, Deserialize(disk'[q].ratchet), disk'[q].done)
    <3>1. CopySound(wire, overflowed, Stored, q, Deserialize(disk[q].ratchet), disk[q].done)
      BY DEF StoredInv, CopiesInv
    <3>2. CopySound(wire', overflowed', Stored, q, Deserialize(disk[q].ratchet), disk[q].done)
      BY <3>1, GrowSound
    <3> QED BY <1>1, <3>2
  <2> QED BY <2>1, <2>2 DEF CopiesInv
<1>3. RecordsInv'
  <2> SUFFICES ASSUME NEW q \in Party
               PROVE  /\ q \in Stored' => q \in established'
                      /\ disk'[q].done.sent \subseteq done'[q].sent
                      /\ disk'[q].done.opened \subseteq done'[q].opened
                      /\ q \notin owed' => disk'[q].done = done'[q]
                      /\ q \notin rolledBack' => Complete(wire', q, done'[q])
    BY DEF RecordsInv
  <2>1. /\ q \in Stored => q \in established
        /\ disk[q].done.sent \subseteq done[q].sent
        /\ disk[q].done.opened \subseteq done[q].opened
        /\ q \notin owed => disk[q].done = done[q]
    BY DEF StoredInv, RecordsInv
  <2>2. /\ done[q].sent \subseteq done'[q].sent /\ done[q].opened \subseteq done'[q].opened
        /\ q \notin owed' => done'[q] = done[q]
    BY <2>1
  <2> QED BY <1>1, <2>1, <2>2
<1>4. RespondersHeard'
  <2>1. CASE Responder \in established
    <3>1. PICK i \in 1 .. Len(wire[Initiator]) : wire[Initiator][i].accepts > 0
      BY <2>1 DEF StoredInv, RespondersHeard
    <3>2. /\ Len(wire[Initiator]) \in Nat /\ Len(wire'[Initiator]) \in Nat
          /\ Len(wire[Initiator]) <= Len(wire'[Initiator])
          /\ wire[Initiator][i].accepts \in Nat /\ wire'[Initiator][i].accepts \in Nat
          /\ wire[Initiator][i].accepts <= wire'[Initiator][i].accepts
      BY DEF WireGrows, Party
    <3>3. i \in 1 .. Len(wire'[Initiator]) /\ wire'[Initiator][i].accepts > 0 BY <3>1, <3>2
    <3> QED BY <3>3 DEF RespondersHeard
  <2>2. CASE Responder \notin established BY <2>2 DEF RespondersHeard
  <2> QED BY <2>1, <2>2
<1> QED BY <1>2, <1>3, <1>4 DEF StoredInv

-----------------------------------------------------------------------------
(* Every operation keeps the invariant.                                    *)

\* What the invariant says of one party, in memory and in storage.
LEMMA PartyFacts ==
    ASSUME StoredInv, NEW p \in Party
    PROVE  /\ WellFormed(ratchet[p]) /\ done[p] \in Done
           /\ CopySound(wire, overflowed, established, p, ratchet[p], done[p])
           /\ CopySound(wire, overflowed, Stored, p, Deserialize(disk[p].ratchet), disk[p].done)
           /\ p \notin rolledBack => Complete(wire, p, done[p])
           /\ TypeOK /\ DOMAIN done = Party /\ DOMAIN ratchet = Party
           /\ Peer(p) \in Party /\ Len(wire[p]) \in Nat /\ Len(wire[Peer(p)]) \in Nat
<1>1. CopySound(wire, overflowed, established, p, ratchet[p], done[p])
  BY DEF StoredInv, CopiesInv
<1>2. CopySound(wire, overflowed, Stored, p, Deserialize(disk[p].ratchet), disk[p].done)
  BY DEF StoredInv, CopiesInv
<1>3. p \notin rolledBack => Complete(wire, p, done[p]) BY DEF StoredInv, RecordsInv
<1>4. TypeOK /\ DOMAIN done = Party /\ DOMAIN ratchet = Party
  BY DEF StoredInv, StoredTypes, TypeOK
<1>5. Peer(p) \in Party /\ Len(wire[p]) \in Nat /\ Len(wire[Peer(p)]) \in Nat
  BY <1>4, PeerFacts, WireTypes
<1>6. WellFormed(ratchet[p]) /\ done[p] \in Done BY <1>1 DEF CopySound
<1> QED BY <1>1, <1>2, <1>3, <1>4, <1>5, <1>6

\* p is handed a message and goes on with state s: the record, and the write
\* that is owed, follow the verdict.
LEMMA HandKeeps ==
    ASSUME StoredInv, NEW p \in Party, NEW i \in 1 .. Len(wire[Peer(p)]), NEW ok \in BOOLEAN,
           Arrives(p, i), Handed(p, i, ok),
           ok => Owes(p, {}, {i}), ~ok => UNCHANGED storedVars,
           NEW s, WellFormed(s), DOMAIN ratchet' = Party, ratchet'[p] = s,
           \A q \in Party : q # p => ratchet'[q] = ratchet[q],
           pending' \in [Party -> BOOLEAN], withOpk' \in BOOLEAN, opkHeld' \in BOOLEAN,
           nextDh' \in DhKey, overflowed' \in SUBSET Party, overflowed \subseteq overflowed',
           established' = established \cup (IF ok THEN {p} ELSE {}),
           p \in established' => Len(s.root_key) % 2 = RootParity(p),
           SendSound(s, KeysSent(wire, p, done[p])),
           ok /\ p \notin overflowed => wire[Peer(p)][i].key \notin KeysOpened(wire, p, done[p]),
           p \notin overflowed' =>
              RecvSound(s, KeysOpened(wire, p, done[p]) \cup
                             (IF ok THEN {wire[Peer(p)][i].key} ELSE {}))
    PROVE  /\ StoredInv'
           /\ ok /\ p \notin rolledBack \cup overflowed => wire[Peer(p)][i].accepts = 0
<1> DEFINE z == Peer(p)
           key == wire[z][i].key
           e == done'[p]
<1>1. /\ TypeOK /\ DOMAIN done = Party /\ done[p] \in Done
      /\ CopySound(wire, overflowed, established, p, ratchet[p], done[p])
      /\ z \in Party /\ Len(wire[z]) \in Nat
  BY PartyFacts
<1>2. i \in Nat /\ {i} \in SUBSET Nat /\ {} \in SUBSET Nat BY <1>1
<1>3. /\ DOMAIN done' = Party /\ e \in Done
      /\ e.sent = done[p].sent /\ e.opened = done[p].opened \cup (IF ok THEN {i} ELSE {})
      /\ \A q \in Party : q # p => done'[q] = done[q]
      /\ owed' = owed \cup (IF ok THEN {p} ELSE {})
      /\ ~ok => done' = done
      /\ UNCHANGED <<disk, rolledBack>>
  <2>1. CASE ok
    <3>1. Owes(p, {}, {i}) BY <2>1
    <3>2. /\ DOMAIN done' = Party /\ done'[p] \in Done
          /\ done'[p].sent = done[p].sent \cup {} /\ done'[p].opened = done[p].opened \cup {i}
          /\ \A q \in Party : q # p => done'[q] = done[q]
          /\ owed' = owed \cup {p}
          /\ UNCHANGED <<host, disk, crashes, rolledBack>>
      BY <1>1, <1>2, <3>1, OwesFacts
    <3> QED BY <2>1, <3>2
  <2>2. CASE ~ok BY <1>1, <2>2 DEF storedVars
  <2> QED BY <2>1, <2>2
<1> HIDE DEF e
<1>4. /\ WireGrows(wire, wire') /\ wire' \in [Party -> Seq(Envelope)]
      /\ \A q \in Party : \A d, f :
            /\ Complete(wire, q, d) /\ f.sent = d.sent
            /\ f.opened = d.opened \cup (IF ok /\ q = p THEN {i} ELSE {})
            => Complete(wire', q, f)
  BY <1>1, HandedGrows
<1>5. KeysInv(wire, rolledBack, overflowed) BY DEF StoredInv
<1>6. /\ KeysInv(wire', rolledBack, overflowed')
      /\ ok /\ p \notin rolledBack \cup overflowed => wire[Peer(p)][i].accepts = 0
  <2>1. p \notin rolledBack => Complete(wire, p, done[p]) BY PartyFacts
  <2> QED BY <1>1, <1>5, <2>1, HandedKeysInv
<1>7. StoredTypes'
  <2>1. duplicates' \in Nat BY <1>1 DEF Arrives, TypeOK
  <2>2. \A q \in Party : IsRatchetState(ratchet'[q])
    <3> SUFFICES ASSUME NEW q \in Party PROVE IsRatchetState(ratchet'[q]) OBVIOUS
    <3>1. CASE q = p BY <3>1 DEF WellFormed
    <3>2. CASE q # p BY <1>1, <3>2 DEF TypeOK
    <3> QED BY <3>1, <3>2
  <2>3. established' \in SUBSET Party BY <1>1 DEF TypeOK
  <2>4. TypeOK' BY <1>4, <2>1, <2>2, <2>3 DEF TypeOK
  <2>5. owed' \in SUBSET Party /\ rolledBack' \in SUBSET Party /\ disk' = disk
    BY <1>3 DEF StoredInv, StoredTypes
  <2> QED BY <1>3, <2>4, <2>5 DEF StoredInv, StoredTypes
<1>8. CopySound(wire', overflowed', established', p, s, e)
  <2>1. /\ done[p].sent \subseteq 1 .. Len(wire[p]) /\ done[p].opened \subseteq 1 .. Len(wire[z])
        /\ p \notin established => done[p].sent = {} /\ done[p].opened = {}
    BY <1>1 DEF CopySound
  <2>2. /\ \A q \in Party : Len(wire'[q]) = Len(wire[q])
        /\ \A q \in Party : \A j \in 1 .. Len(wire[q]) : wire'[q][j].key = wire[q][j].key
    BY <1>1, HandedFacts
  <2>3. KeysSent(wire', p, e) = KeysSent(wire, p, done[p])
    BY <1>3, <2>1, <2>2 DEF KeysSent
  <2>4. KeysOpened(wire', p, e) = KeysOpened(wire, p, done[p]) \cup (IF ok THEN {key} ELSE {})
    <3>1. \A j \in done[p].opened \cup {i} : wire'[z][j].key = wire[z][j].key
      BY <1>1, <2>1, <2>2
    <3>2. e.opened = done[p].opened \cup (IF ok THEN {i} ELSE {}) BY <1>3
    <3> HIDE DEF e
    <3>3. /\ KeysOpened(wire', p, e) = {wire'[z][j].key : j \in e.opened}
          /\ KeysOpened(wire, p, done[p]) = {wire[z][j].key : j \in done[p].opened}
      BY DEF KeysOpened
    <3> HIDE DEF z
    <3>4. CASE ok BY <3>1, <3>2, <3>3, <3>4 DEF key
    <3>5. CASE ~ok BY <3>1, <3>2, <3>3, <3>5
    <3> QED BY <3>4, <3>5
  <2>5. e.sent \subseteq 1 .. Len(wire'[p]) /\ e.opened \subseteq 1 .. Len(wire'[z])
    BY <1>1, <1>3, <2>1, <2>2
  <2>6. p \notin established' => e.sent = {} /\ e.opened = {} BY <1>3, <2>1
  <2> QED BY <1>3, <2>3, <2>4, <2>5, <2>6 DEF CopySound, z
<1>9. \A q \in Party \ rolledBack : Complete(wire', q, done'[q])
  <2> SUFFICES ASSUME NEW q \in Party \ rolledBack PROVE Complete(wire', q, done'[q]) OBVIOUS
  <2>1. Complete(wire, q, done[q]) BY PartyFacts
  <2>2. CASE q = p
    <3>1. e.opened = done[q].opened \cup (IF ok /\ q = p THEN {i} ELSE {}) /\ e.sent = done[q].sent
      BY <1>3, <2>2
    <3>2. Complete(wire', q, e) BY <1>4, <2>1, <3>1
    <3> QED BY <2>2, <3>2 DEF e
  <2>3. CASE q # p
    <3>1. done[q].opened = done[q].opened \cup (IF ok /\ q = p THEN {i} ELSE {}) BY <2>3
    <3>2. Complete(wire', q, done[q]) BY <1>4, <2>1, <3>1
    <3> QED BY <1>3, <2>3, <3>2
  <2> QED BY <2>2, <2>3
<1>10. Responder \in established' \ established =>
          \E j \in 1 .. Len(wire'[Initiator]) : wire'[Initiator][j].accepts > 0
  <2> SUFFICES ASSUME Responder \in established' \ established
               PROVE  \E j \in 1 .. Len(wire'[Initiator]) : wire'[Initiator][j].accepts > 0
    OBVIOUS
  <2>1. ok /\ p = Responder OBVIOUS
  <2>2. z = Initiator BY <2>1, PartyAssumption DEF Peer
  <2>3. /\ Len(wire'[z]) = Len(wire[z]) /\ wire'[z][i].accepts = wire[z][i].accepts + 1
        /\ wire[z][i].accepts \in Nat
    <3>1. wire[z][i].accepts \in Nat BY <1>1, WireTypes
    <3>2. /\ Len(wire'[z]) = Len(wire[z])
          /\ wire'[z][i].accepts = IF z = Peer(p) /\ i = i /\ ok THEN wire[z][i].accepts + 1
                                                                ELSE wire[z][i].accepts
      BY <1>1, HandedFacts
    <3> QED BY <2>1, <3>1, <3>2
  <2>4. wire'[z][i].accepts > 0 BY <2>3
  <2> QED BY <2>2, <2>3, <2>4
<1>11. StoredInv'
  <2>1. /\ disk' = disk /\ rolledBack' = rolledBack /\ owed \subseteq owed'
        /\ established \subseteq established'
        /\ done[p].sent \subseteq e.sent /\ done[p].opened \subseteq e.opened
        /\ p \notin owed' => e = done[p]
    <3>1. p \notin owed' => ~ok BY <1>3
    <3>2. ~ok => e = done[p] BY <1>3 DEF e
    <3> QED BY <1>3, <3>1, <3>2
  <2>2. \A q \in Party : q # p => /\ ratchet'[q] = ratchet[q] /\ done'[q] = done[q]
                                  /\ q \in established' => q \in established
    BY <1>3
  <2>3. CopySound(wire', overflowed', established', p, ratchet'[p], done'[p]) BY <1>8 DEF e
  <2> QED BY <1>4, <1>6, <1>7, <1>9, <1>10, <2>1, <2>2, <2>3, ActKeeps DEF e
<1> QED BY <1>6, <1>11

\* p is handed message i: a message that opens has a key that p's state had not
\* opened with, and was not opened before by a p that lost nothing; only a
\* refusal can overflow the cache.
HandedOver(p, i, ok) ==
    LET m == wire[Peer(p)][i]
    IN  /\ Handed(p, i, ok)
        /\ disk' = disk /\ rolledBack' = rolledBack
        /\ ok /\ p \notin overflowed => m.key \notin KeysOpened(wire, p, done[p])
        /\ ok /\ p \notin rolledBack \cup overflowed => m.accepts = 0
        /\ overflowed' = overflowed \/ (~ok /\ overflowed' = overflowed \cup {p})

\* Session::decrypt, in place: whatever it wrote is in memory, and only a
\* message that opened is owed to the disk.
LEMMA ReceiveKeeps ==
    ASSUME StoredInv, NEW p \in Party, NEW i \in 1 .. Len(wire[Peer(p)]),
           Receive(p, i), OwesIfOpened(p, i)
    PROVE  StoredInv' /\ \E ok \in BOOLEAN : HandedOver(p, i, ok)
<1> DEFINE m == wire[Peer(p)][i]
           r == ratchet[p]
           out == Decrypt(r, m.header, m.key, nextDh)
           ok == out.ok
           s == out.state
           old == KeysOpened(wire, p, done[p])
<1>1. /\ TypeOK /\ CopySound(wire, overflowed, established, p, r, done[p])
      /\ Peer(p) \in Party /\ DOMAIN ratchet = Party /\ WellFormed(r)
  BY PartyFacts
<1>2. m.header \in Header /\ m.key \in MessageKey /\ nextDh \in DhKey
  BY <1>1, WireTypes DEF TypeOK
<1>3. /\ ok \in BOOLEAN
      /\ Keeps(r, s)
      /\ \A opened : RecvSound(r, opened) =>
            \/ ok /\ m.key \notin opened /\ RecvSound(s, opened \cup {m.key})
            \/ ~ok /\ (StoppedMidGap(s) \/ RecvSound(s, opened))
  BY <1>1, <1>2, DecryptSound
<1>4. /\ p \in established /\ established' = established
      /\ Arrives(p, i)
      /\ Handed(p, i, ok)
      /\ ratchet' = [ratchet EXCEPT ![p] = s]
      /\ pending' = [pending EXCEPT ![p] = pending[p] /\ ~ok]
      /\ nextDh' = Drew(s)
      /\ overflowed' = overflowed \cup (IF StoppedMidGap(s) THEN {p} ELSE {})
      /\ withOpk' = withOpk /\ opkHeld' = opkHeld
  BY DEF Receive
<1>5. WillOpen(p, i) = ok BY <1>4 DEF WillOpen
<1>6. IF ok THEN Owes(p, {}, {i}) ELSE UNCHANGED storedVars BY <1>5 DEF OwesIfOpened
<1> HIDE DEF out, ok, s
<1>7. /\ DOMAIN ratchet' = Party /\ ratchet'[p] = s
      /\ \A q \in Party : q # p => ratchet'[q] = ratchet[q]
  BY <1>1, <1>4
<1>8. /\ WellFormed(s) /\ Len(s.root_key) % 2 = Len(r.root_key) % 2
      /\ SendSound(s, KeysSent(wire, p, done[p]))
  BY <1>1, <1>3 DEF Keeps, CopySound
<1>9. Len(s.root_key) % 2 = RootParity(p) BY <1>1, <1>4, <1>8 DEF CopySound
<1>10. /\ withOpk' \in BOOLEAN /\ opkHeld' \in BOOLEAN
       /\ overflowed' \in SUBSET Party /\ overflowed \subseteq overflowed'
       /\ established' = established \cup (IF ok THEN {p} ELSE {})
  BY <1>1, <1>4 DEF TypeOK
<1>11. nextDh' \in DhKey BY <1>2, <1>4 DEF Drew, DhKey
<1>12. pending' \in [Party -> BOOLEAN]
  <2>1. pending \in [Party -> BOOLEAN] /\ (pending[p] /\ ~ok) \in BOOLEAN BY <1>1 DEF TypeOK
  <2> QED BY <1>4, <2>1
<1>13. ASSUME p \notin overflowed
       PROVE  /\ ok => m.key \notin old /\ ~StoppedMidGap(s)
              /\ ~StoppedMidGap(s) => RecvSound(s, old \cup (IF ok THEN {m.key} ELSE {}))
  <2>1. RecvSound(r, old) BY <1>1, <1>13 DEF CopySound
  <2> HIDE DEF old
  <2>2. CASE ok
    <3>1. m.key \notin old /\ RecvSound(s, old \cup {m.key}) BY <1>3, <2>1, <2>2
    <3>2. ~StoppedMidGap(s) BY <3>1 DEF RecvSound, StoppedMidGap
    <3> QED BY <2>2, <3>1, <3>2
  <2>3. CASE ~ok
    <3>1. StoppedMidGap(s) \/ RecvSound(s, old) BY <1>3, <2>1, <2>3
    <3>2. old \cup (IF ok THEN {m.key} ELSE {}) = old BY <2>3
    <3> QED BY <2>3, <3>1, <3>2
  <2> QED BY <2>2, <2>3
<1>14. ok /\ p \notin overflowed => m.key \notin old BY <1>13
<1>15. p \notin overflowed' => RecvSound(s, old \cup (IF ok THEN {m.key} ELSE {}))
  BY <1>4, <1>13
<1>16. /\ StoredInv'
       /\ ok /\ p \notin rolledBack \cup overflowed => m.accepts = 0
  <2>1. ok \in BOOLEAN /\ Arrives(p, i) /\ Handed(p, i, ok) BY <1>3, <1>4
  <2>2. (ok => Owes(p, {}, {i})) /\ (~ok => UNCHANGED storedVars) BY <1>6
  <2>3. /\ ok /\ p \notin overflowed => wire[Peer(p)][i].key \notin KeysOpened(wire, p, done[p])
        /\ p \notin overflowed' =>
              RecvSound(s, KeysOpened(wire, p, done[p]) \cup
                             (IF ok THEN {wire[Peer(p)][i].key} ELSE {}))
    BY <1>14, <1>15
  <2> HIDE DEF r, m, old
  <2> QED BY <1>7, <1>8, <1>9, <1>10, <1>11, <1>12, <2>1, <2>2, <2>3, HandKeeps DEF m
<1>17. overflowed' = overflowed \/ (~ok /\ overflowed' = overflowed \cup {p}) BY <1>4, <1>13
<1>18. disk' = disk /\ rolledBack' = rolledBack BY <1>3, <1>6 DEF Owes, storedVars
<1>19. Handed(p, i, ok) BY <1>4
<1> HIDE DEF r
<1>20. HandedOver(p, i, ok) BY <1>14, <1>16, <1>17, <1>18, <1>19 DEF HandedOver
<1> QED BY <1>3, <1>16, <1>20

\* A message that leaves no state behind.
LEMMA RefuseKeeps ==
    ASSUME StoredInv, NEW p \in Party, NEW i \in 1 .. Len(wire[Peer(p)]),
           Refuse(p, i), UNCHANGED storedVars
    PROVE  StoredInv' /\ \E ok \in BOOLEAN : HandedOver(p, i, ok)
<1> DEFINE r == ratchet[p]
           old == KeysOpened(wire, p, done[p])
           ok == FALSE
<1>1. /\ TypeOK /\ CopySound(wire, overflowed, established, p, r, done[p])
      /\ Peer(p) \in Party /\ DOMAIN ratchet = Party /\ WellFormed(r)
  BY PartyFacts
<1>2. /\ Arrives(p, i) /\ Handed(p, i, ok)
      /\ ratchet' = ratchet /\ established' = established /\ overflowed' = overflowed
      /\ pending' = pending /\ withOpk' = withOpk /\ opkHeld' = opkHeld /\ nextDh' = nextDh
  BY DEF Refuse
<1>3. /\ pending' \in [Party -> BOOLEAN] /\ withOpk' \in BOOLEAN /\ opkHeld' \in BOOLEAN
      /\ nextDh' \in DhKey /\ overflowed' \in SUBSET Party
  BY <1>1, <1>2 DEF TypeOK
<1>4. /\ p \in established' => Len(r.root_key) % 2 = RootParity(p)
      /\ SendSound(r, KeysSent(wire, p, done[p]))
      /\ p \notin overflowed' => RecvSound(r, old)
  BY <1>1, <1>2 DEF CopySound
<1>5. /\ ok \in BOOLEAN /\ ~ok
      /\ established' = established \cup (IF ok THEN {p} ELSE {})
      /\ old \cup (IF ok THEN {wire[Peer(p)][i].key} ELSE {}) = old
  BY <1>2
<1>6. /\ DOMAIN ratchet' = Party /\ ratchet'[p] = r
      /\ \A q \in Party : q # p => ratchet'[q] = ratchet[q]
      /\ overflowed \subseteq overflowed'
  BY <1>1, <1>2
<1> HIDE DEF ok, r, old
<1>7. p \notin overflowed' => RecvSound(r, old \cup (IF ok THEN {wire[Peer(p)][i].key} ELSE {}))
  BY <1>4, <1>5
<1>8. StoredInv' BY <1>1, <1>2, <1>3, <1>4, <1>5, <1>6, <1>7, HandKeeps DEF old
<1>9. HandedOver(p, i, ok) BY <1>2, <1>5 DEF HandedOver, storedVars
<1> QED BY <1>5, <1>8, <1>9

\* Session::respond: a first message that opens makes the session; one that
\* does not leaves the party without.
LEMMA RespondKeeps ==
    ASSUME StoredInv, NEW i \in 1 .. Len(wire[Initiator]),
           Respond(i), OwesIfOpened(Responder, i)
    PROVE  StoredInv' /\ \E ok \in BOOLEAN : HandedOver(Responder, i, ok)
<1> DEFINE m == wire[Initiator][i]
           p == Responder
           r == InitResponder(SPK)
           out == Decrypt(r, m.header, m.key, nextDh)
           ok == ~HandshakeFails(m) /\ out.ok
           s == IF ok THEN out.state ELSE ratchet[p]
           old == KeysOpened(wire, p, done[p])
<1>1. /\ Responder \in Party /\ Initiator \in Party /\ Peer(Responder) = Initiator
      /\ Initiator # Responder
  BY PartyAssumption DEF Party, Peer
<1>2. /\ TypeOK /\ CopySound(wire, overflowed, established, p, ratchet[p], done[p])
      /\ DOMAIN ratchet = Party /\ WellFormed(ratchet[p])
  BY <1>1, PartyFacts
<1>3. /\ m.header \in Header /\ m.key \in MessageKey /\ nextDh \in DhKey
      /\ SPK \in DhKey /\ WellFormed(r)
  <2>1. SPK \in DhKey BY DEF SPK, DhKey
  <2> QED BY <1>1, <1>2, <2>1, InitWellFormed, WireTypes DEF TypeOK
<1>4. /\ out.ok \in BOOLEAN
      /\ Keeps(r, out.state)
      /\ \A was : RecvSound(r, was) =>
            \/ out.ok /\ m.key \notin was /\ RecvSound(out.state, was \cup {m.key})
            \/ ~out.ok /\ (StoppedMidGap(out.state) \/ RecvSound(out.state, was))
  BY <1>3, DecryptSound
<1>5. /\ SendSound(r, {}) /\ RecvSound(r, {})
      /\ Len(r.root_key) % 2 = RootParity(Responder)
  BY <1>3, FreshSound
<1>6. /\ Responder \notin established
      /\ Arrives(Responder, i)
      /\ Handed(Responder, i, ok)
      /\ established' = established \cup (IF ok THEN {Responder} ELSE {})
      /\ ratchet' = IF ok THEN [ratchet EXCEPT ![Responder] = out.state] ELSE ratchet
      /\ opkHeld' = opkHeld \/ opkHeld' = FALSE
      /\ nextDh' = nextDh \/ nextDh' = Drew(out.state)
      /\ UNCHANGED <<pending, withOpk, overflowed>>
  <2>1. CASE HandshakeFails(m)
    <3>1. ok = FALSE BY <2>1
    <3> HIDE DEF ok
    <3> QED BY <2>1, <3>1 DEF Respond
  <2>2. CASE ~HandshakeFails(m)
    <3>1. ok = out.ok BY <1>4, <2>2
    <3> HIDE DEF ok
    <3> QED BY <2>2, <3>1 DEF Respond
  <2> QED BY <2>1, <2>2
<1>7. ok \in BOOLEAN /\ (ok => out.ok) OBVIOUS
<1>8. WillOpen(p, i) = ok BY <1>1, <1>6 DEF WillOpen
<1>9. IF ok THEN Owes(p, {}, {i}) ELSE UNCHANGED storedVars BY <1>8 DEF OwesIfOpened
<1>10. KeysSent(wire, p, done[p]) = {} /\ old = {}
  <2>1. done[p].sent = {} /\ done[p].opened = {} BY <1>2, <1>6 DEF CopySound
  <2> QED BY <2>1 DEF KeysSent, KeysOpened
<1> HIDE DEF ok, r, old
<1>11. /\ WellFormed(s) /\ SendSound(s, {})
       /\ p \in established' => Len(s.root_key) % 2 = RootParity(p)
       /\ p \notin overflowed' => RecvSound(s, {} \cup (IF ok THEN {m.key} ELSE {}))
  <2>1. CASE ok
    <3>1. out.ok /\ s = out.state BY <1>7, <2>1
    <3> HIDE DEF out
    <3>2. RecvSound(out.state, {} \cup {m.key}) BY <1>4, <1>5, <3>1
    <3>3. /\ WellFormed(out.state) /\ SendSound(out.state, {})
          /\ Len(out.state.root_key) % 2 = RootParity(p)
      BY <1>4, <1>5 DEF Keeps
    <3> HIDE DEF s
    <3> QED BY <2>1, <3>1, <3>2, <3>3
  <2>2. CASE ~ok
    <3>1. s = ratchet[p] /\ p \notin established' /\ overflowed' = overflowed
      BY <1>6, <2>2
    <3>2. /\ SendSound(ratchet[p], {})
          /\ p \notin overflowed => RecvSound(ratchet[p], {})
      BY <1>2, <1>10 DEF CopySound, old
    <3>3. {} \cup (IF ok THEN {m.key} ELSE {}) = {} BY <2>2
    <3> HIDE DEF s
    <3> QED BY <1>2, <3>1, <3>2, <3>3
  <2> QED BY <2>1, <2>2
<1>12. /\ DOMAIN ratchet' = Party /\ ratchet'[p] = s
       /\ \A q \in Party : q # p => ratchet'[q] = ratchet[q]
  BY <1>1, <1>2, <1>6
<1> HIDE DEF s
<1>13. /\ pending' \in [Party -> BOOLEAN] /\ withOpk' \in BOOLEAN /\ opkHeld' \in BOOLEAN
       /\ overflowed' \in SUBSET Party /\ overflowed \subseteq overflowed'
  BY <1>2, <1>6 DEF TypeOK
<1>14. nextDh' \in DhKey BY <1>3, <1>6 DEF Drew, DhKey
<1> HIDE DEF p
<1>15. p = Responder /\ p \in Party /\ i \in 1 .. Len(wire[Peer(p)]) /\ m = wire[Peer(p)][i]
  BY <1>1 DEF p
<1>16. /\ Arrives(p, i) /\ Handed(p, i, ok)
       /\ established' = established \cup (IF ok THEN {p} ELSE {})
  BY <1>6, <1>15
<1> HIDE DEF m
<1>17. ok /\ p \notin overflowed => m.key \notin old BY <1>10
<1>18. SendSound(s, KeysSent(wire, p, done[p])) BY <1>10, <1>11
<1>19. p \notin overflowed' => RecvSound(s, old \cup (IF ok THEN {m.key} ELSE {}))
  BY <1>10, <1>11
<1>20. /\ StoredInv'
       /\ ok /\ p \notin rolledBack \cup overflowed => wire[Peer(p)][i].accepts = 0
  BY <1>7, <1>9, <1>11, <1>12, <1>13, <1>14, <1>15, <1>16, <1>17, <1>18, <1>19, HandKeeps DEF old
<1>21. disk' = disk /\ rolledBack' = rolledBack BY <1>7, <1>9 DEF Owes, storedVars
<1>22. overflowed' = overflowed BY <1>6
<1>23. HandedOver(p, i, ok)
  BY <1>15, <1>16, <1>17, <1>20, <1>21, <1>22 DEF HandedOver, old
<1> QED BY <1>7, <1>15, <1>20, <1>23

\* Session::initiate.
LEMMA InitiateKeeps ==
    ASSUME StoredInv, StoredInitiate
    PROVE  StoredInv'
<1> DEFINE p == Initiator
           s == InitInitiator(SPK, nextDh)
           e == done'[p]
<1>1. p \in Party /\ Initiator # Responder BY PartyAssumption DEF Party
<1>2. /\ TypeOK /\ DOMAIN done = Party /\ DOMAIN ratchet = Party /\ done[p] \in Done
      /\ CopySound(wire, overflowed, established, p, ratchet[p], done[p])
  BY <1>1, PartyFacts
<1>3. SPK \in DhKey /\ nextDh \in DhKey BY <1>2 DEF TypeOK, SPK, DhKey
<1>4. /\ p \notin established /\ established' = established \cup {p}
      /\ ratchet' = [ratchet EXCEPT ![p] = s]
      /\ pending' = [pending EXCEPT ![p] = TRUE]
      /\ nextDh' = nextDh + 1
      /\ UNCHANGED <<withOpk, opkHeld, wire, duplicates, overflowed>>
      /\ Owes(p, {}, {})
  BY DEF StoredInitiate, Initiate
<1>5. done[p].sent = {} /\ done[p].opened = {} BY <1>2, <1>4 DEF CopySound
<1>6. /\ DOMAIN done' = Party /\ e \in Done /\ e.sent = {} /\ e.opened = {}
      /\ \A q \in Party : q # p => done'[q] = done[q]
      /\ owed' = owed \cup {p}
      /\ UNCHANGED <<host, disk, crashes, rolledBack>>
  <2>1. {} \in SUBSET Nat /\ {} \cup {} = {} OBVIOUS
  <2>2. /\ DOMAIN done' = Party /\ done'[p] \in Done
        /\ done'[p].sent = done[p].sent \cup {} /\ done'[p].opened = done[p].opened \cup {}
        /\ \A q \in Party : q # p => done'[q] = done[q]
        /\ owed' = owed \cup {p}
        /\ UNCHANGED <<host, disk, crashes, rolledBack>>
    BY <1>1, <1>2, <1>4, <2>1, OwesFacts
  <2> QED BY <1>5, <2>1, <2>2
<1>7. /\ WellFormed(s) /\ SendSound(s, {}) /\ RecvSound(s, {})
      /\ Len(s.root_key) % 2 = RootParity(p)
  BY <1>3, InitWellFormed, FreshSound
<1> HIDE DEF s, e
<1>8. /\ DOMAIN ratchet' = Party /\ ratchet'[p] = s
      /\ \A q \in Party : q # p => ratchet'[q] = ratchet[q]
  BY <1>1, <1>2, <1>4
<1>9. StoredTypes'
  <2>1. \A q \in Party : IsRatchetState(ratchet'[q])
    BY <1>2, <1>7, <1>8 DEF WellFormed, TypeOK
  <2>2. pending' \in [Party -> BOOLEAN] /\ established' \in SUBSET Party /\ nextDh' \in DhKey
    BY <1>1, <1>2, <1>4 DEF TypeOK, DhKey
  <2>3. TypeOK' BY <1>2, <1>4, <1>8, <2>1, <2>2 DEF TypeOK
  <2>4. owed' \in SUBSET Party BY <1>1, <1>6 DEF StoredInv, StoredTypes
  <2> QED BY <1>6, <2>3, <2>4 DEF StoredInv, StoredTypes
<1>10. WireGrows(wire, wire')
  <2>1. \A q \in Party : /\ Len(wire[q]) \in Nat
                         /\ \A i \in 1 .. Len(wire[q]) : wire[q][i].accepts \in Nat
    BY <1>2, WireTypes
  <2> QED BY <1>4, <2>1 DEF WireGrows
<1>11. CopySound(wire', overflowed', established', p, s, e)
  <2>1. KeysSent(wire', p, e) = {} /\ KeysOpened(wire', p, e) = {}
    BY <1>6 DEF KeysSent, KeysOpened
  <2>2. e.sent \subseteq 1 .. Len(wire'[p]) /\ e.opened \subseteq 1 .. Len(wire'[Peer(p)])
    BY <1>6
  <2> QED BY <1>4, <1>6, <1>7, <2>1, <2>2 DEF CopySound
<1>12. \A q \in Party \ rolledBack : Complete(wire', q, done'[q])
  <2> SUFFICES ASSUME NEW q \in Party \ rolledBack PROVE Complete(wire', q, done'[q]) OBVIOUS
  <2>1. Complete(wire, q, done[q]) BY PartyFacts
  <2>2. done'[q].sent = done[q].sent /\ done'[q].opened = done[q].opened
    BY <1>5, <1>6 DEF e
  <2> QED BY <1>4, <2>1, <2>2 DEF Complete
<1>13. KeysInv(wire', rolledBack, overflowed') BY <1>4 DEF StoredInv
<1>14. /\ disk' = disk /\ rolledBack' = rolledBack
       /\ overflowed \subseteq overflowed' /\ established \subseteq established' /\ owed \subseteq owed'
       /\ p \in owed'
  BY <1>4, <1>6
<1>15. Responder \notin established' \ established BY <1>1, <1>4
<1> HIDE DEF p
<1>16. CopySound(wire', overflowed', established', p, ratchet'[p], done'[p]) BY <1>8, <1>11 DEF e
<1>17. /\ p \notin owed' => done'[p] = done[p]
       /\ done[p].sent \subseteq done'[p].sent /\ done[p].opened \subseteq done'[p].opened
  BY <1>5, <1>14
<1>18. Responder \in established' \ established =>
          \E i \in 1 .. Len(wire'[Initiator]) : wire'[Initiator][i].accepts > 0
  BY <1>15
<1>19. \A q \in Party : q # p => /\ ratchet'[q] = ratchet[q] /\ done'[q] = done[q]
                                 /\ q \in established' => q \in established
  BY <1>4, <1>6, <1>8
<1> QED BY <1>1, <1>9, <1>10, <1>12, <1>13, <1>14, <1>16, <1>17, <1>18, <1>19, ActKeeps

\* Session::encrypt: the message is on the wire, and its advance is owed.
LEMMA SendKeeps ==
    ASSUME StoredInv, NEW p \in Party, StoredSend(p)
    PROVE  StoredInv'
<1> DEFINE r == ratchet[p]
           s == EncryptState(r)
           key == KeyOf(r.chain_send)
           m == [prekey |-> pending[p], header |-> EncryptHeader(r), key |-> key,
                 copies |-> 0, accepts |-> 0]
           n == Len(wire[p])
           e == done'[p]
           sealed == KeysSent(wire, p, done[p])
           z == Peer(p)
<1>1. /\ TypeOK /\ DOMAIN done = Party /\ DOMAIN ratchet = Party /\ done[p] \in Done
      /\ CopySound(wire, overflowed, established, p, r, done[p])
      /\ WellFormed(r) /\ n \in Nat /\ Len(wire[z]) \in Nat
  BY PartyFacts
<1>2. z \in Party /\ z # p /\ Peer(z) = p /\ \A q \in Party : q # p => q = z
  BY PeerFacts
<1>3. CanEncrypt(r) /\ p \in established BY DEF StoredSend, Send
<1>4. /\ WellFormed(s) /\ EncryptHeader(r) \in Header /\ key \in MessageKey
  BY <1>1, <1>3, EncryptFields
<1>5. SendSound(r, sealed) /\ Len(r.root_key) % 2 = RootParity(p) BY <1>1, <1>3 DEF CopySound
<1>6. /\ key \notin sealed /\ key[1] = r.root_key
      /\ s.root_key = r.root_key
      /\ SendSound(s, sealed \cup {key})
      /\ \A opened : RecvSound(r, opened) => RecvSound(s, opened)
  BY <1>1, <1>3, <1>5, EncryptSound
<1>7. m \in Envelope BY <1>1, <1>4 DEF Envelope, TypeOK
<1>8. /\ wire' = [wire EXCEPT ![p] = Append(wire[p], m)]
      /\ ratchet' = [ratchet EXCEPT ![p] = s]
      /\ established' = established /\ overflowed' = overflowed
      /\ UNCHANGED <<pending, withOpk, opkHeld, nextDh, duplicates>>
      /\ Owes(p, {n + 1}, {})
  BY DEF StoredSend, Send
<1>9. m.key = key /\ m.accepts = 0 OBVIOUS
<1> HIDE DEF m, s, key, n, sealed
<1>10. wire \in [Party -> Seq(Envelope)] /\ wire[p] \in Seq(Envelope) BY <1>1 DEF TypeOK
<1>11. /\ wire'[p] = Append(wire[p], m) /\ wire'[z] = wire[z]
       /\ wire' \in [Party -> Seq(Envelope)]
  BY <1>2, <1>7, <1>8, <1>10
<1>12. /\ Len(wire'[p]) = n + 1
       /\ \A j \in 1 .. n : wire'[p][j] = wire[p][j]
       /\ wire'[p][n + 1] = m
  BY <1>7, <1>10, <1>11 DEF n
<1>13. 1 .. (n + 1) = (1 .. n) \cup {n + 1} /\ n + 1 \in Nat /\ n + 1 \notin 1 .. n BY <1>1
<1>14. /\ DOMAIN done' = Party /\ e \in Done
       /\ e.sent = done[p].sent \cup {n + 1} /\ e.opened = done[p].opened
       /\ \A q \in Party : q # p => done'[q] = done[q]
       /\ owed' = owed \cup {p}
       /\ UNCHANGED <<host, disk, crashes, rolledBack>>
  <2>1. {} \in SUBSET Nat /\ {n + 1} \in SUBSET Nat BY <1>13
  <2>2. /\ DOMAIN done' = Party /\ done'[p] \in Done
        /\ done'[p].sent = done[p].sent \cup {n + 1} /\ done'[p].opened = done[p].opened \cup {}
        /\ \A q \in Party : q # p => done'[q] = done[q]
        /\ owed' = owed \cup {p}
        /\ UNCHANGED <<host, disk, crashes, rolledBack>>
    BY <1>1, <1>8, <2>1, OwesFacts
  <2> QED BY <2>2
<1> HIDE DEF e
<1>15. /\ DOMAIN ratchet' = Party /\ ratchet'[p] = s
       /\ \A q \in Party : q # p => ratchet'[q] = ratchet[q]
  BY <1>1, <1>8
<1>16. StoredTypes'
  <2>1. \A q \in Party : IsRatchetState(ratchet'[q])
    BY <1>1, <1>4, <1>15 DEF WellFormed, TypeOK
  <2>2. TypeOK' BY <1>1, <1>8, <1>11, <1>15, <2>1 DEF TypeOK
  <2>3. owed' \in SUBSET Party BY <1>14 DEF StoredInv, StoredTypes
  <2> QED BY <1>14, <2>2, <2>3 DEF StoredInv, StoredTypes
<1>17. WireGrows(wire, wire')
  <2> SUFFICES ASSUME NEW q \in Party
               PROVE  /\ Len(wire[q]) \in Nat /\ Len(wire'[q]) \in Nat /\ Len(wire[q]) <= Len(wire'[q])
                      /\ \A j \in 1 .. Len(wire[q]) :
                            /\ wire'[q][j].key = wire[q][j].key
                            /\ wire[q][j].accepts \in Nat /\ wire'[q][j].accepts \in Nat
                            /\ wire[q][j].accepts <= wire'[q][j].accepts
    BY DEF WireGrows
  <2>1. Len(wire[q]) \in Nat /\ \A j \in 1 .. Len(wire[q]) : wire[q][j].accepts \in Nat
    BY <1>1, WireTypes
  <2>2. /\ \A j \in 1 .. Len(wire[q]) : wire'[q][j] = wire[q][j]
        /\ Len(wire'[q]) \in Nat /\ Len(wire[q]) <= Len(wire'[q])
    <3>1. CASE q = p BY <1>1, <1>12, <1>13, <3>1 DEF n
    <3>2. CASE q = z BY <1>11, <2>1, <3>2
    <3> QED BY <1>2, <3>1, <3>2
  <2> QED BY <2>1, <2>2
<1>18. /\ done[p].sent \subseteq 1 .. n /\ done[p].opened \subseteq 1 .. Len(wire[z])
  BY <1>1 DEF CopySound, n
<1>19. KeysSent(wire', p, e) = sealed \cup {key}
  <2>1. \A j \in done[p].sent : wire'[p][j] = wire[p][j] BY <1>12, <1>18
  <2> QED BY <1>9, <1>12, <1>14, <2>1 DEF KeysSent, sealed
<1>20. CopySound(wire', overflowed', established', p, s, e)
  <2>1. KeysOpened(wire', p, e) = KeysOpened(wire, p, done[p])
    BY <1>11, <1>14 DEF KeysOpened
  <2>2. e.sent \subseteq 1 .. Len(wire'[p]) /\ e.opened \subseteq 1 .. Len(wire'[z])
    BY <1>11, <1>12, <1>13, <1>14, <1>18
  <2>3. p \notin overflowed' => RecvSound(s, KeysOpened(wire', p, e))
    <3>1. p \notin overflowed => RecvSound(r, KeysOpened(wire, p, done[p])) BY <1>1 DEF CopySound
    <3> QED BY <1>6, <1>8, <2>1, <3>1
  <2> HIDE DEF r
  <2> QED BY <1>3, <1>4, <1>5, <1>6, <1>8, <1>14, <1>19, <2>2, <2>3 DEF CopySound, z
<1>21. \A q \in Party \ rolledBack : Complete(wire', q, done'[q])
  <2> SUFFICES ASSUME NEW q \in Party \ rolledBack PROVE Complete(wire', q, done'[q]) OBVIOUS
  <2>1. /\ done[q].sent = 1 .. Len(wire[q])
        /\ done[q].opened = {i \in 1 .. Len(wire[Peer(q)]) : wire[Peer(q)][i].accepts > 0}
    BY PartyFacts DEF Complete
  <2>2. CASE q = p
    <3>1. e.sent = 1 .. Len(wire'[p]) BY <1>12, <1>13, <1>14, <2>1, <2>2 DEF n
    <3>2. e.opened = {i \in 1 .. Len(wire'[z]) : wire'[z][i].accepts > 0}
      BY <1>11, <1>14, <2>1, <2>2
    <3> QED BY <2>2, <3>1, <3>2 DEF Complete, e
  <2>3. CASE q = z
    <3>1. done'[q] = done[q] /\ wire'[q] = wire[q] /\ Peer(q) = p BY <1>2, <1>11, <1>14, <2>3
    <3>2. ~(0 > 0) OBVIOUS
    <3>3. {i \in 1 .. (n + 1) : wire'[p][i].accepts > 0} = {i \in 1 .. n : wire[p][i].accepts > 0}
      BY <1>9, <1>12, <1>13, <3>2
    <3> QED BY <1>12, <2>1, <3>1, <3>3 DEF Complete, n
  <2> QED BY <1>2, <2>2, <2>3
<1>22. KeysInv(wire', rolledBack, overflowed')
  <2>1. KeysInv(wire, rolledBack, overflowed) BY DEF StoredInv
  <2>2. ASSUME NEW q \in Party, q = z
        PROVE  wire'[q] = wire[q]
    BY <1>11, <2>2
  <2>3. ASSUME NEW q \in Party, NEW i \in 1 .. Len(wire'[q])
        PROVE  Len(wire'[q][i].key[1]) % 2 = RootParity(q)
    <3>1. \A j \in 1 .. Len(wire[q]) : Len(wire[q][j].key[1]) % 2 = RootParity(q)
      BY <2>1 DEF KeysInv
    <3>2. CASE q = z
      <4>1. wire'[q] = wire[q] BY <2>2, <3>2
      <4> QED BY <3>1, <4>1
    <3>3. CASE q = p
      <4>1. i \in 1 .. n \/ i = n + 1 BY <1>12, <1>13, <3>3
      <4>2. CASE i \in 1 .. n BY <1>12, <3>1, <3>3, <4>2 DEF n
      <4>3. CASE i = n + 1
        <5>1. wire'[q][i].key[1] = r.root_key BY <1>6, <1>9, <1>12, <3>3, <4>3
        <5> QED BY <1>5, <3>3, <5>1
      <4> QED BY <4>1, <4>2, <4>3
    <3> QED BY <1>2, <3>2, <3>3
  <2>4. ASSUME NEW q \in Party \ rolledBack,
               NEW i \in 1 .. Len(wire'[q]), NEW j \in 1 .. Len(wire'[q]),
               wire'[q][i].key = wire'[q][j].key
        PROVE  i = j
    <3>1. \A k, l \in 1 .. Len(wire[q]) : wire[q][k].key = wire[q][l].key => k = l
      BY <2>1 DEF KeysInv
    <3>2. CASE q = z
      <4>1. wire'[q] = wire[q] BY <2>2, <3>2
      <4> QED BY <2>4, <3>1, <4>1
    <3>3. CASE q = p
      <4>1. (i \in 1 .. n \/ i = n + 1) /\ (j \in 1 .. n \/ j = n + 1) BY <1>12, <1>13, <3>3
      <4>2. done[p].sent = 1 .. n BY <3>3, PartyFacts DEF Complete, n
      <4>3. \A k \in 1 .. n : wire'[p][k].key # wire'[p][n + 1].key
        BY <1>6, <1>9, <1>12, <4>2 DEF sealed, KeysSent
      <4>4. \A k, l \in 1 .. n : wire'[p][k].key = wire'[p][l].key => k = l
        BY <1>12, <3>1, <3>3 DEF n
      <4> QED BY <2>4, <3>3, <4>1, <4>3, <4>4
    <3> QED BY <1>2, <3>2, <3>3
  <2>5. ASSUME NEW q \in Party, Peer(q) \notin rolledBack \cup overflowed
        PROVE  /\ \A i \in 1 .. Len(wire'[q]) : wire'[q][i].accepts <= 1
               /\ \A i, j \in 1 .. Len(wire'[q]) :
                     wire'[q][i].key = wire'[q][j].key /\ wire'[q][i].accepts > 0
                       /\ wire'[q][j].accepts > 0 => i = j
    <3>1. /\ \A i \in 1 .. Len(wire[q]) : wire[q][i].accepts <= 1
          /\ \A i, j \in 1 .. Len(wire[q]) :
                wire[q][i].key = wire[q][j].key /\ wire[q][i].accepts > 0 /\ wire[q][j].accepts > 0
                   => i = j
      BY <2>1, <2>5 DEF KeysInv
    <3>2. CASE q = z
      <4>1. wire'[q] = wire[q] BY <2>2, <3>2
      <4> QED BY <3>1, <4>1
    <3>3. CASE q = p
      <4>1. wire'[p][n + 1].accepts = 0 /\ 0 <= 1 /\ ~(0 > 0) BY <1>9, <1>12
      <4>2. \A i \in 1 .. n : wire'[p][i].accepts <= 1 BY <1>12, <3>1, <3>3 DEF n
      <4>3. \A i, j \in 1 .. n : wire'[p][i].key = wire'[p][j].key /\ wire'[p][i].accepts > 0
                                   /\ wire'[p][j].accepts > 0 => i = j
        BY <1>12, <3>1, <3>3 DEF n
      <4>4. \A i \in 1 .. Len(wire'[p]) : i \in 1 .. n \/ i = n + 1 BY <1>12, <1>13
      <4> QED BY <3>3, <4>1, <4>2, <4>3, <4>4
    <3> QED BY <1>2, <3>2, <3>3
  <2> QED BY <1>8, <2>3, <2>4, <2>5 DEF KeysInv
<1>23. /\ disk' = disk /\ rolledBack' = rolledBack
       /\ overflowed \subseteq overflowed' /\ established \subseteq established' /\ owed \subseteq owed'
       /\ p \in owed'
  BY <1>8, <1>14
<1>24. /\ p \notin owed' => done'[p] = done[p]
       /\ done[p].sent \subseteq done'[p].sent /\ done[p].opened \subseteq done'[p].opened
  BY <1>14, <1>23 DEF e
<1>25. \A q \in Party : q # p => /\ ratchet'[q] = ratchet[q] /\ done'[q] = done[q]
                                 /\ q \in established' => q \in established
  BY <1>8, <1>14, <1>15
<1>26. Responder \in established' \ established =>
          \E i \in 1 .. Len(wire'[Initiator]) : wire'[Initiator][i].accepts > 0
  BY <1>8
<1>27. CopySound(wire', overflowed', established', p, ratchet'[p], done'[p]) BY <1>15, <1>20 DEF e
<1> QED BY <1>16, <1>17, <1>21, <1>22, <1>23, <1>24, <1>25, <1>26, <1>27, ActKeeps

\* Losing more parties leaves less to hold.
LEMMA KeysInvLost ==
    ASSUME NEW w, NEW lost, NEW more, lost \subseteq more, NEW over, KeysInv(w, lost, over)
    PROVE  KeysInv(w, more, over)
<1>1. \A p \in Party : \A i \in 1 .. Len(w[p]) : Len(w[p][i].key[1]) % 2 = RootParity(p)
  BY DEF KeysInv
<1>2. \A p \in Party \ more : \A i, j \in 1 .. Len(w[p]) : w[p][i].key = w[p][j].key => i = j
  BY DEF KeysInv
<1>3. ASSUME NEW p \in Party, Peer(p) \notin more \cup over
      PROVE  /\ \A i \in 1 .. Len(w[p]) : w[p][i].accepts <= 1
             /\ \A i, j \in 1 .. Len(w[p]) :
                   w[p][i].key = w[p][j].key /\ w[p][i].accepts > 0 /\ w[p][j].accepts > 0 => i = j
  <2>1. Peer(p) \notin lost \cup over BY <1>3
  <2> QED BY <2>1 DEF KeysInv
<1> QED BY <1>1, <1>2, <1>3 DEF KeysInv

\* A state is sound for its record whichever set says that there is a session.
LEMMA EstSound ==
    ASSUME NEW w, NEW over, NEW est, NEW est2, NEW p, p \in est <=> p \in est2,
           NEW r, NEW d, CopySound(w, over, est, p, r, d)
    PROVE  CopySound(w, over, est2, p, r, d)
BY DEF CopySound

\* Serialising: the stored copy is the state in memory, with its record.
LEMMA PersistKeeps ==
    ASSUME StoredInv, NEW p \in Party, Persist(p)
    PROVE  StoredInv'
<1> DEFINE h == Held(p)
<1>1. /\ disk' = [disk EXCEPT ![p] = h] /\ owed' = owed \ {p}
      /\ UNCHANGED <<vars, host, crashes, rolledBack, done>>
  BY DEF Persist
<1>2. /\ UNCHANGED <<established, ratchet, pending, withOpk, opkHeld, nextDh, wire,
                     duplicates, overflowed>>
      /\ rolledBack' = rolledBack /\ done' = done
  BY <1>1 DEF vars
<1>3. /\ TypeOK /\ WellFormed(ratchet[p])
      /\ CopySound(wire, overflowed, established, p, ratchet[p], done[p])
  BY PartyFacts
<1>4. /\ h.session = (p \in established) /\ h.pending = pending[p] /\ h.done = done[p]
      /\ h.opk = (IF host = "app" THEN withOpk ELSE opkHeld)
      /\ h.ratchet = Serialize(ratchet[p])
  BY DEF Held
<1>5. h.session \in BOOLEAN /\ h.pending \in BOOLEAN /\ h.opk \in BOOLEAN
  <2>1. pending[p] \in BOOLEAN /\ withOpk \in BOOLEAN /\ opkHeld \in BOOLEAN BY <1>3 DEF TypeOK
  <2>2. (p \in established) \in BOOLEAN OBVIOUS
  <2>3. h.opk = withOpk \/ h.opk = opkHeld BY <1>4
  <2> HIDE DEF h
  <2> QED BY <1>4, <2>1, <2>2, <2>3
<1> HIDE DEF h
<1>6. DOMAIN disk = Party BY DEF StoredInv, StoredTypes
<1>7. DOMAIN disk' = Party /\ disk'[p] = h /\ \A q \in Party : q # p => disk'[q] = disk[q]
  BY <1>1, <1>6
<1>8. Deserialize(h.ratchet) = ratchet[p] BY <1>3, <1>4, SerializeInverse
<1>9. /\ p \in Stored' <=> p \in established
      /\ \A q \in Party : q # p => (q \in Stored' <=> q \in Stored)
  <2>1. h.session <=> p \in established BY <1>4
  <2> QED BY <1>7, <2>1 DEF Stored
<1>10. StoredTypes'
  <2>1. TypeOK' BY <1>2, <1>3 DEF TypeOK
  <2>2. \A q \in Party : /\ disk'[q].session \in BOOLEAN /\ disk'[q].pending \in BOOLEAN
                         /\ disk'[q].opk \in BOOLEAN
    BY <1>5, <1>7 DEF StoredInv, StoredTypes
  <2>3. owed' \in SUBSET Party /\ rolledBack' \in SUBSET Party /\ DOMAIN done' = Party
    BY <1>1, <1>2 DEF StoredInv, StoredTypes
  <2> QED BY <1>7, <2>1, <2>2, <2>3 DEF StoredTypes
<1>11. CopiesInv'
  <2>1. ASSUME NEW q \in Party
        PROVE  CopySound(wire', overflowed', established', q, ratchet'[q], done'[q])
    BY <1>2, PartyFacts
  <2>2. ASSUME NEW q \in Party
        PROVE  CopySound(wire', overflowed', Stored', q, Deserialize(disk'[q].ratchet), disk'[q].done)
    <3>1. CASE q = p
      <4>1. CopySound(wire, overflowed, Stored', p, ratchet[p], done[p]) BY <1>3, <1>9, EstSound
      <4>2. Deserialize(disk'[q].ratchet) = ratchet[p] /\ disk'[q].done = done[p]
        BY <1>4, <1>7, <1>8, <3>1
      <4> QED BY <1>2, <3>1, <4>1, <4>2
    <3>2. CASE q # p
      <4>1. CopySound(wire, overflowed, Stored, q, Deserialize(disk[q].ratchet), disk[q].done)
        BY PartyFacts
      <4>2. CopySound(wire, overflowed, Stored', q, Deserialize(disk[q].ratchet), disk[q].done)
        BY <1>9, <3>2, <4>1, EstSound
      <4> QED BY <1>2, <1>7, <3>2, <4>2
    <3> QED BY <3>1, <3>2
  <2> QED BY <2>1, <2>2 DEF CopiesInv
<1>12. RecordsInv'
  <2> SUFFICES ASSUME NEW q \in Party
               PROVE  /\ q \in Stored' => q \in established
                      /\ disk'[q].done.sent \subseteq done[q].sent
                      /\ disk'[q].done.opened \subseteq done[q].opened
                      /\ q \notin owed' => disk'[q].done = done[q]
                      /\ q \notin rolledBack => Complete(wire, q, done[q])
    BY <1>2 DEF RecordsInv
  <2>1. /\ q \in Stored => q \in established
        /\ disk[q].done.sent \subseteq done[q].sent
        /\ disk[q].done.opened \subseteq done[q].opened
        /\ q \notin owed => disk[q].done = done[q]
        /\ q \notin rolledBack => Complete(wire, q, done[q])
    BY DEF StoredInv, RecordsInv
  <2>2. CASE q = p BY <1>4, <1>7, <1>9, <2>1, <2>2
  <2>3. CASE q # p BY <1>1, <1>7, <1>9, <2>1, <2>3
  <2> QED BY <2>2, <2>3
<1>13. KeysInv(wire', rolledBack', overflowed') BY <1>2 DEF StoredInv
<1>14. RespondersHeard' BY <1>2 DEF StoredInv, RespondersHeard
<1> QED BY <1>10, <1>11, <1>12, <1>13, <1>14 DEF StoredInv

\* A kill and a restart: the stored copy takes the place of memory, with its
\* record, and the party is marked when a write was owed.
LEMMA RestartKeeps ==
    ASSUME StoredInv, NEW p \in Party, Restart(p)
    PROVE  StoredInv'
<1> DEFINE s == Deserialize(disk[p].ratchet)
           d == disk[p].done
<1>1. /\ established' = (IF disk[p].session THEN established ELSE established \ {p})
      /\ ratchet' = [ratchet EXCEPT ![p] = s]
      /\ pending' = [pending EXCEPT ![p] = disk[p].pending]
      /\ opkHeld' = (IF p = Responder THEN disk[p].opk ELSE opkHeld)
      /\ done' = [done EXCEPT ![p] = d]
      /\ rolledBack' = rolledBack \cup (owed \cap {p})
      /\ owed' = owed \ {p}
      /\ UNCHANGED <<withOpk, nextDh, wire, duplicates, overflowed, disk>>
  BY DEF Restart
<1>2. /\ TypeOK /\ DOMAIN ratchet = Party /\ DOMAIN done = Party
      /\ CopySound(wire, overflowed, Stored, p, s, d)
  BY PartyFacts
<1>3. /\ disk[p].session \in BOOLEAN /\ disk[p].pending \in BOOLEAN /\ disk[p].opk \in BOOLEAN
  BY DEF StoredInv, StoredTypes
<1> HIDE DEF s, d
<1>4. /\ DOMAIN ratchet' = Party /\ ratchet'[p] = s
      /\ \A q \in Party : q # p => ratchet'[q] = ratchet[q]
      /\ DOMAIN done' = Party /\ done'[p] = d
      /\ \A q \in Party : q # p => done'[q] = done[q]
  BY <1>1, <1>2
<1>5. Stored' = Stored /\ (p \in Stored <=> disk[p].session) BY <1>1 DEF Stored
<1>6. /\ p \in Stored => p \in established
      /\ p \notin owed => d = done[p]
  BY DEF StoredInv, RecordsInv, d
<1>7. /\ p \in established' <=> p \in Stored
      /\ \A q \in Party : q # p => (q \in established' <=> q \in established)
      /\ established' \subseteq established
  BY <1>1, <1>5, <1>6
<1>8. StoredTypes'
  <2>1. WellFormed(s) BY <1>2 DEF CopySound
  <2>2. \A q \in Party : IsRatchetState(ratchet'[q]) BY <1>2, <1>4, <2>1 DEF WellFormed, TypeOK
  <2>3. pending' \in [Party -> BOOLEAN] BY <1>1, <1>2, <1>3 DEF TypeOK
  <2>4. opkHeld' \in BOOLEAN
    <3>1. opkHeld' = disk[p].opk \/ opkHeld' = opkHeld BY <1>1
    <3>2. opkHeld \in BOOLEAN BY <1>2 DEF TypeOK
    <3> QED BY <1>3, <3>1, <3>2
  <2>5. TypeOK' BY <1>1, <1>2, <1>4, <1>7, <2>2, <2>3, <2>4 DEF TypeOK
  <2>6. owed' \in SUBSET Party /\ rolledBack' \in SUBSET Party
    BY <1>1 DEF StoredInv, StoredTypes
  <2> QED BY <1>1, <1>4, <2>5, <2>6 DEF StoredInv, StoredTypes
<1>9. CopiesInv'
  <2>1. ASSUME NEW q \in Party
        PROVE  CopySound(wire', overflowed', established', q, ratchet'[q], done'[q])
    <3>1. CASE q = p
      <4>1. CopySound(wire, overflowed, established', p, s, d) BY <1>2, <1>7, EstSound
      <4> QED BY <1>1, <1>4, <3>1, <4>1
    <3>2. CASE q # p
      <4>1. CopySound(wire, overflowed, established, q, ratchet[q], done[q]) BY PartyFacts
      <4>2. CopySound(wire, overflowed, established', q, ratchet[q], done[q])
        BY <1>7, <3>2, <4>1, EstSound
      <4> QED BY <1>1, <1>4, <3>2, <4>2
    <3> QED BY <3>1, <3>2
  <2>2. ASSUME NEW q \in Party
        PROVE  CopySound(wire', overflowed', Stored', q, Deserialize(disk'[q].ratchet), disk'[q].done)
    <3>1. CopySound(wire, overflowed, Stored, q, Deserialize(disk[q].ratchet), disk[q].done)
      BY PartyFacts
    <3> QED BY <1>1, <1>5, <3>1
  <2> QED BY <2>1, <2>2 DEF CopiesInv
<1>10. RecordsInv'
  <2> SUFFICES ASSUME NEW q \in Party
               PROVE  /\ q \in Stored => q \in established'
                      /\ disk[q].done.sent \subseteq done'[q].sent
                      /\ disk[q].done.opened \subseteq done'[q].opened
                      /\ q \notin owed' => disk[q].done = done'[q]
                      /\ q \notin rolledBack' => Complete(wire, q, done'[q])
    BY <1>1, <1>5 DEF RecordsInv
  <2>1. /\ q \in Stored => q \in established
        /\ disk[q].done.sent \subseteq done[q].sent
        /\ disk[q].done.opened \subseteq done[q].opened
        /\ q \notin owed => disk[q].done = done[q]
        /\ q \notin rolledBack => Complete(wire, q, done[q])
    BY DEF StoredInv, RecordsInv
  <2>2. CASE q = p
    <3>1. done'[q] = disk[q].done BY <1>4, <2>2 DEF d
    <3>2. q \notin rolledBack' => q \notin rolledBack /\ disk[q].done = done[q]
      BY <1>1, <2>1, <2>2
    <3> QED BY <1>7, <2>1, <2>2, <3>1, <3>2
  <2>3. CASE q # p
    <3>1. q \notin rolledBack' => q \notin rolledBack BY <1>1
    <3>2. q \notin owed' => q \notin owed BY <1>1, <2>3
    <3> QED BY <1>4, <1>7, <2>1, <2>3, <3>1, <3>2
  <2> QED BY <2>2, <2>3
<1>11. KeysInv(wire', rolledBack', overflowed')
  <2>1. KeysInv(wire, rolledBack, overflowed) BY DEF StoredInv
  <2>2. rolledBack \subseteq rolledBack' BY <1>1
  <2>3. KeysInv(wire, rolledBack', overflowed) BY <2>1, <2>2, KeysInvLost
  <2> QED BY <1>1, <2>3
<1>12. RespondersHeard' BY <1>1, <1>7 DEF StoredInv, RespondersHeard
<1> QED BY <1>8, <1>9, <1>10, <1>11, <1>12 DEF StoredInv

\* The invariant holds before anybody has a session.
LEMMA StoredInitInv == StoredInit => StoredInv
<1> SUFFICES ASSUME StoredInit PROVE StoredInv OBVIOUS
<1> DEFINE none == [sent |-> {}, opened |-> {}]
           r == InitResponder(SPK)
<1>1. Init /\ TypeOK BY InitIInv DEF StoredInit, IInv
<1>2. /\ DOMAIN done = Party /\ DOMAIN disk = Party /\ owed = {} /\ rolledBack = {}
      /\ \A p \in Party : done[p] = none /\ disk[p] = Held(p)
  BY DEF StoredInit
<1>3. /\ established = {} /\ overflowed = {}
      /\ \A p \in Party : ratchet[p] = r /\ wire[p] = <<>> /\ pending[p] \in BOOLEAN
      /\ withOpk \in BOOLEAN /\ opkHeld \in BOOLEAN
  BY <1>1 DEF Init
<1>4. WellFormed(r) /\ SendSound(r, {}) /\ RecvSound(r, {})
  <2>1. SPK \in DhKey BY DEF SPK, DhKey
  <2> QED BY <2>1, InitWellFormed, FreshSound
<1>5. none \in Done /\ none.sent = {} /\ none.opened = {} BY DEF Done
<1> HIDE DEF r, none
<1>6. ASSUME NEW p \in Party
      PROVE  /\ disk[p].session = FALSE /\ disk[p].pending \in BOOLEAN /\ disk[p].opk \in BOOLEAN
             /\ disk[p].done = none /\ Deserialize(disk[p].ratchet) = r
  <2>1. /\ disk[p].session = (p \in established) /\ disk[p].pending = pending[p]
        /\ disk[p].opk = (IF host = "app" THEN withOpk ELSE opkHeld)
        /\ disk[p].done = done[p] /\ disk[p].ratchet = Serialize(ratchet[p])
    BY <1>2 DEF Held
  <2>2. disk[p].opk = withOpk \/ disk[p].opk = opkHeld BY <2>1
  <2>3. disk[p].session = FALSE
    <3>1. (p \in established) = FALSE BY <1>3
    <3> QED BY <2>1, <3>1, Zenon
  <2>4. Deserialize(disk[p].ratchet) = r BY <1>3, <1>4, <2>1, SerializeInverse
  <2> QED BY <1>2, <1>3, <2>1, <2>2, <2>3, <2>4
<1>7. Stored = {} BY <1>6 DEF Stored
<1>8. StoredTypes BY <1>1, <1>2, <1>6 DEF StoredTypes
<1>9. ASSUME NEW p \in Party
      PROVE  CopySound(wire, overflowed, {}, p, r, none)
  <2>1. KeysSent(wire, p, none) = {} /\ KeysOpened(wire, p, none) = {}
    BY <1>5 DEF KeysSent, KeysOpened
  <2> QED BY <1>4, <1>5, <2>1 DEF CopySound
<1>10. CopiesInv BY <1>2, <1>3, <1>6, <1>7, <1>9 DEF CopiesInv
<1>11. \A p \in Party : Peer(p) \in Party /\ Len(wire[p]) = 0 BY <1>3, PeerFacts
<1>12. 1 .. 0 = {} OBVIOUS
<1>13. RecordsInv
  <2>1. \A p \in Party : Complete(wire, p, none) BY <1>5, <1>11, <1>12 DEF Complete
  <2> QED BY <1>2, <1>6, <1>7, <2>1 DEF RecordsInv
<1>14. KeysInv(wire, rolledBack, overflowed)
  <2>1. \A p \in Party : 1 .. Len(wire[p]) = {} BY <1>11, <1>12
  <2> QED BY <2>1 DEF KeysInv
<1>15. RespondersHeard BY <1>3 DEF RespondersHeard
<1> QED BY <1>8, <1>10, <1>13, <1>14, <1>15 DEF StoredInv

\* The ways in which a host is handed a message.
HostHanded(p, i) ==
    \/ p = Responder /\ (AppRespond(i) \/ EnclaveRespond(i))
    \/ AppReceive(p, i) \/ EnclaveDecrypt(p, i)

\* Whichever host it is, a message it is handed keeps the invariant.
LEMMA HostHandedKeeps ==
    ASSUME StoredInv, NEW p \in Party, NEW i \in 1 .. Len(wire[Peer(p)]), HostHanded(p, i)
    PROVE  StoredInv' /\ \E ok \in BOOLEAN : HandedOver(p, i, ok)
<1>1. p = Responder => Peer(p) = Initiator BY PartyAssumption DEF Peer
<1>2. CASE Receive(p, i) /\ OwesIfOpened(p, i) BY <1>2, ReceiveKeeps
<1>3. CASE p = Responder /\ Respond(i) /\ OwesIfOpened(Responder, i) BY <1>1, <1>3, RespondKeeps
<1>4. CASE Refuse(p, i) /\ UNCHANGED storedVars BY <1>4, RefuseKeeps
<1>5. CASE p = Responder /\ AppRespond(i) BY <1>3, <1>5 DEF AppRespond
<1>6. CASE AppReceive(p, i) BY <1>2, <1>6 DEF AppReceive
<1>7. CASE p = Responder /\ EnclaveRespond(i)
  <2>1. CASE WillOpen(Responder, i) BY <1>3, <1>7, <2>1 DEF EnclaveRespond
  <2>2. CASE ~WillOpen(Responder, i)
    <3>1. Refuse(p, i) /\ UNCHANGED storedVars BY <1>7, <2>2 DEF EnclaveRespond, OwesIfOpened
    <3> QED BY <1>4, <3>1
  <2> QED BY <2>1, <2>2
<1>8. CASE EnclaveDecrypt(p, i)
  <2>1. CASE WillOpen(p, i) BY <1>2, <1>8, <2>1 DEF EnclaveDecrypt
  <2>2. CASE ~WillOpen(p, i)
    <3>1. Refuse(p, i) /\ UNCHANGED storedVars BY <1>8, <2>2 DEF EnclaveDecrypt, OwesIfOpened
    <3> QED BY <1>4, <3>1
  <2> QED BY <2>1, <2>2
<1> QED BY <1>5, <1>6, <1>7, <1>8 DEF HostHanded

\* A step, told by who is handed what.
LEMMA StoredSteps ==
    ASSUME [StoredNext]_<<vars, storedVars>>
    PROVE  \/ StoredInitiate
           \/ \E p \in Party : StoredSend(p)
           \/ \E p \in Party : \E i \in 1 .. Len(wire[Peer(p)]) : HostHanded(p, i)
           \/ \E p \in Party : Persist(p) \/ Restart(p)
           \/ UNCHANGED <<vars, storedVars>>
<1>1. Responder \in Party /\ Peer(Responder) = Initiator BY PartyAssumption DEF Party, Peer
<1>2. ASSUME NEW i \in 1 .. Len(wire[Initiator]), AppRespond(i) \/ EnclaveRespond(i)
      PROVE  \E p \in Party : \E j \in 1 .. Len(wire[Peer(p)]) : HostHanded(p, j)
  BY <1>1, <1>2 DEF HostHanded
<1>3. ASSUME NEW p \in Party, NEW i \in 1 .. Len(wire[Peer(p)]),
             AppReceive(p, i) \/ EnclaveDecrypt(p, i)
      PROVE  \E q \in Party : \E j \in 1 .. Len(wire[Peer(q)]) : HostHanded(q, j)
  BY <1>3 DEF HostHanded
<1> QED BY <1>2, <1>3 DEF StoredNext

\* No step of either host leaves the invariant.
LEMMA StoredNextInv == StoredInv /\ [StoredNext]_<<vars, storedVars>> => StoredInv'
<1> SUFFICES ASSUME StoredInv, [StoredNext]_<<vars, storedVars>> PROVE StoredInv' OBVIOUS
<1>1. CASE StoredInitiate BY <1>1, InitiateKeeps
<1>2. ASSUME NEW p \in Party, StoredSend(p) PROVE StoredInv' BY <1>2, SendKeeps
<1>3. ASSUME NEW p \in Party, NEW i \in 1 .. Len(wire[Peer(p)]), HostHanded(p, i)
      PROVE  StoredInv'
  BY <1>3, HostHandedKeeps
<1>4. ASSUME NEW p \in Party, Persist(p) PROVE StoredInv' BY <1>4, PersistKeeps
<1>5. ASSUME NEW p \in Party, Restart(p) PROVE StoredInv' BY <1>5, RestartKeeps
<1>6. CASE UNCHANGED <<vars, storedVars>>
  <2>1. /\ UNCHANGED <<established, ratchet, pending, withOpk, opkHeld, nextDh, wire,
                       duplicates, overflowed>>
        /\ UNCHANGED <<disk, owed, rolledBack, done>>
    BY <1>6 DEF vars, storedVars
  <2>2. TypeOK' BY <2>1 DEF TypeOK, StoredInv, StoredTypes
  <2>3. StoredTypes' BY <2>1, <2>2 DEF StoredTypes, StoredInv
  <2>4. Stored' = Stored BY <2>1 DEF Stored
  <2>5. CopiesInv' BY <2>1, <2>4 DEF CopiesInv, StoredInv
  <2>6. RecordsInv' BY <2>1, <2>4 DEF RecordsInv, StoredInv
  <2>7. KeysInv(wire', rolledBack', overflowed') BY <2>1 DEF StoredInv
  <2>8. RespondersHeard' BY <2>1 DEF RespondersHeard, StoredInv
  <2> QED BY <2>3, <2>5, <2>6, <2>7, <2>8 DEF StoredInv
<1> QED BY <1>1, <1>2, <1>3, <1>4, <1>5, <1>6, StoredSteps

\* Every state of a conversation whose ends may be killed keeps the invariant:
\* memory and disk are each sound for what they have sent and opened
\* (session.rs "lets a conversation survive an app restart").
THEOREM StoredInvariance == StoredSpec => []StoredInv
<1>1. StoredInit => StoredInv BY StoredInitInv
<1>2. StoredInv /\ [StoredNext]_<<vars, storedVars>> => StoredInv' BY StoredNextInv
<1> QED BY <1>1, <1>2, PTL DEF StoredSpec

-----------------------------------------------------------------------------
(* What the invariant gives.                                               *)

\* A message key seals two messages only when a kill lost the first one's
\* advance before _persistSession wrote it, and then both are messages of the
\* party that was set back (kdf.rs: "every message key is unique").
THEOREM KeysRepeatOnlyIfLost == StoredSpec => []KeysReusedOnlyIfLost
<1>1. StoredInv => KeysReusedOnlyIfLost
  <2> SUFFICES ASSUME StoredInv, NEW p \in Party, NEW q \in Party,
                      NEW i \in 1 .. Len(wire[p]), NEW j \in 1 .. Len(wire[q]),
                      wire[p][i].key = wire[q][j].key, <<p, i>> # <<q, j>>
               PROVE  p = q /\ p \in rolledBack
    BY DEF KeysReusedOnlyIfLost
  <2>1. KeysInv(wire, rolledBack, overflowed) BY DEF StoredInv
  <2>2. RootParity(p) = RootParity(q) BY <2>1 DEF KeysInv
  <2>3. p = q BY <2>2, PartyAssumption DEF RootParity, Party
  <2>4. p \notin rolledBack => i = j BY <2>1, <2>3 DEF KeysInv
  <2> QED BY <2>3, <2>4
<1> QED BY StoredInvariance, <1>1, PTL

\* Of two messages under one key Session::decrypt opens at most one, at a peer
\* that was not itself set back and whose cache did not overflow.
THEOREM KeyOpensOnce == StoredSpec => []OneMessagePerKey
<1>1. StoredInv => OneMessagePerKey
  <2> SUFFICES ASSUME StoredInv, NEW p \in Party, Peer(p) \notin rolledBack \cup overflowed,
                      NEW i \in 1 .. Len(wire[p]), NEW j \in 1 .. Len(wire[p]),
                      wire[p][i].key = wire[p][j].key, i # j
               PROVE  wire[p][i].accepts + wire[p][j].accepts <= 1
    BY DEF OneMessagePerKey
  <2>1. KeysInv(wire, rolledBack, overflowed) BY DEF StoredInv
  <2>2. /\ wire[p][i].accepts <= 1 /\ wire[p][j].accepts <= 1
        /\ ~(wire[p][i].accepts > 0 /\ wire[p][j].accepts > 0)
    BY <2>1 DEF KeysInv
  <2>3. wire[p][i].accepts \in Nat /\ wire[p][j].accepts \in Nat BY PartyFacts, WireTypes
  <2> QED BY <2>2, <2>3
<1> QED BY StoredInvariance, <1>1, PTL

\* Forward secrecy at rest: neither the chains nor the skipped keys that
\* DoubleRatchet::serialize writes yield the key of a message that was sent or
\* opened before the write.
THEOREM StoredKeysForgotten == StoredSpec => []StoredForwardSecrecy
<1>1. StoredInv => StoredForwardSecrecy
  <2> SUFFICES ASSUME StoredInv, NEW p \in Party \ overflowed
               PROVE  LET r == Deserialize(disk[p].ratchet)
                          Yields(ck, key) == ck # None /\ ck.id = key[1] /\ ck.pos <= key[2]
                          Gives(key) == \/ Yields(r.chain_send, key)
                                        \/ Yields(r.chain_recv, key)
                                        \/ \E e \in DOMAIN r.skipped : r.skipped[e] = key
                      IN  /\ \A i \in disk[p].done.sent : ~Gives(wire[p][i].key)
                          /\ \A i \in disk[p].done.opened : ~Gives(wire[Peer(p)][i].key)
    BY DEF StoredForwardSecrecy
  <2> DEFINE r == Deserialize(disk[p].ratchet)
             d == disk[p].done
             n == Len(r.root_key)
             Yields(ck, key) == ck # None /\ ck.id = key[1] /\ ck.pos <= key[2]
             Gives(key) == \/ Yields(r.chain_send, key)
                           \/ Yields(r.chain_recv, key)
                           \/ \E e \in DOMAIN r.skipped : r.skipped[e] = key
  <2>1. CopySound(wire, overflowed, Stored, p, r, d) BY PartyFacts
  <2> HIDE DEF r, d
  <2>2. /\ WellFormed(r) /\ SendSound(r, KeysSent(wire, p, d)) /\ RecvSound(r, KeysOpened(wire, p, d))
    BY <2>1 DEF CopySound
  <2>3. /\ n \in Nat
        /\ r.chain_send # None => r.chain_send.id = r.root_key /\ r.chain_send.pos \in Nat
        /\ r.chain_recv # None => /\ Len(r.chain_recv.id) + 1 = n
                                 /\ Len(r.chain_recv.id) \in Nat
                                 /\ r.chain_recv.pos \in Nat
    BY <2>2 DEF WellFormed, IsRatchetState, SendSound, RecvSound, ChainKey, RootKey
  <2>4. ASSUME NEW k \in KeysSent(wire, p, d)
        PROVE  ~Gives(k)
    <3>1. /\ k \in MessageKey /\ Len(k[1]) % 2 = n % 2
          /\ k[1] = r.root_key => r.chain_send # None /\ k[2] < r.chain_send.pos
          /\ k[2] \in Nat
      BY <2>2, <2>4 DEF SendSound, MessageKey
    <3>2. ~(r.chain_send # None /\ r.chain_send.id = k[1] /\ r.chain_send.pos <= k[2])
      BY <2>3, <3>1
    <3>3. ~(r.chain_recv # None /\ r.chain_recv.id = k[1])
      <4> SUFFICES ASSUME r.chain_recv # None, r.chain_recv.id = k[1]
                   PROVE  FALSE
        OBVIOUS
      <4>1. Len(k[1]) \in Nat /\ n = Len(k[1]) + 1 BY <2>3
      <4>2. Len(k[1]) % 2 # n % 2 BY <4>1, NextParity
      <4> QED BY <3>1, <4>2
    <3>4. \A e \in DOMAIN r.skipped : r.skipped[e] # k BY <2>2, <3>1 DEF RecvSound, Past
    <3> QED BY <3>2, <3>3, <3>4
  <2>5. ASSUME NEW k \in KeysOpened(wire, p, d)
        PROVE  ~Gives(k)
    <3>1. Past(r, k) /\ \A e \in DOMAIN r.skipped : r.skipped[e] # k
      BY <2>2, <2>5 DEF RecvSound
    <3>2. /\ k[2] \in Nat /\ Len(k[1]) \in Nat /\ Len(k[1]) < n
          /\ r.chain_recv # None /\ k[1] = r.chain_recv.id => k[2] < r.chain_recv.pos
      BY <3>1 DEF Past, MessageKey, RootKey
    <3>3. ~(r.chain_send # None /\ r.chain_send.id = k[1]) BY <2>3, <3>2
    <3>4. ~(r.chain_recv # None /\ r.chain_recv.id = k[1] /\ r.chain_recv.pos <= k[2])
      BY <2>3, <3>2
    <3> QED BY <3>1, <3>3, <3>4
  <2> HIDE DEF Gives
  <2>6. /\ \A i \in d.sent : ~Gives(wire[p][i].key)
        /\ \A i \in d.opened : ~Gives(wire[Peer(p)][i].key)
    BY <2>4, <2>5 DEF KeysSent, KeysOpened
  <2> QED BY <2>6 DEF Gives, d, r
<1> QED BY StoredInvariance, <1>1, PTL

\* Handing a message over counts no opening of any other.
LEMMA HandedCounts ==
    ASSUME TypeOK, NEW p \in Party, NEW i \in 1 .. Len(wire[Peer(p)]), NEW ok \in BOOLEAN,
           Handed(p, i, ok), NEW q \in Party, NEW j \in 1 .. Len(wire[Peer(q)]),
           wire'[Peer(q)][j].accepts # wire[Peer(q)][j].accepts
    PROVE  ok /\ q = p /\ j = i
<1>1. Peer(q) \in Party /\ Peer(Peer(q)) = q /\ Peer(Peer(p)) = p BY PeerFacts
<1>2. wire'[Peer(q)][j].accepts =
        IF Peer(q) = Peer(p) /\ j = i /\ ok THEN wire[Peer(q)][j].accepts + 1
                                            ELSE wire[Peer(q)][j].accepts
  BY <1>1, HandedFacts
<1>3. Peer(q) = Peer(p) /\ j = i /\ ok BY <1>2
<1> QED BY <1>1, <1>3

\* A step opens no message again whose opening is on the disk.
OpensNoStored ==
    \A p \in Party \ overflowed : \A i \in disk[p].done.opened :
        wire'[Peer(p)][i].accepts = wire[Peer(p)][i].accepts

\* What reached the disk is done for good: after any number of kills
\* Session::decrypt does not open a message again whose opening was stored
\* (unless a full cache stopped skip_message_keys in the middle of a gap).
THEOREM StoredReplaysRefused == StoredSpec => StoredNeverReplayed
<1>1. StoredInv /\ [StoredNext]_<<vars, storedVars>> => OpensNoStored
  <2> SUFFICES ASSUME StoredInv, [StoredNext]_<<vars, storedVars>>,
                      NEW p \in Party \ overflowed, NEW i \in disk[p].done.opened,
                      wire'[Peer(p)][i].accepts # wire[Peer(p)][i].accepts
               PROVE  FALSE
    BY DEF OpensNoStored
  <2>1. TypeOK /\ Peer(p) \in Party /\ i \in 1 .. Len(wire[Peer(p)]) /\ i \in done[p].opened
    <3>1. CopySound(wire, overflowed, Stored, p, Deserialize(disk[p].ratchet), disk[p].done)
      BY PartyFacts
    <3>2. i \in 1 .. Len(wire[Peer(p)]) BY <3>1 DEF CopySound
    <3>3. i \in done[p].opened BY DEF StoredInv, RecordsInv
    <3> QED BY <3>2, <3>3, PartyFacts
  <2>2. wire' # wire OBVIOUS
  <2>3. CASE StoredInitiate BY <2>2, <2>3 DEF StoredInitiate, Initiate
  <2>4. ASSUME NEW q \in Party, StoredSend(q) PROVE FALSE
    <3>1. Send(q) BY <2>4 DEF StoredSend
    <3>2. wire'[Peer(p)][i] = wire[Peer(p)][i] BY <2>1, <3>1, SendOpens
    <3> QED BY <3>2
  <2>5. ASSUME NEW q \in Party, NEW j \in 1 .. Len(wire[Peer(q)]), HostHanded(q, j) PROVE FALSE
    <3>1. PICK ok \in BOOLEAN : HandedOver(q, j, ok) BY <2>5, HostHandedKeeps
    <3>2. Handed(q, j, ok) BY <3>1 DEF HandedOver
    <3>3. ok /\ p = q /\ i = j BY <2>1, <3>2, HandedCounts
    <3>4. wire[Peer(p)][i].key \notin KeysOpened(wire, p, done[p]) BY <3>1, <3>3 DEF HandedOver
    <3> QED BY <2>1, <3>4 DEF KeysOpened
  <2>6. ASSUME NEW q \in Party, Persist(q) \/ Restart(q) PROVE FALSE
    BY <2>2, <2>6 DEF Persist, Restart, vars
  <2>7. CASE UNCHANGED <<vars, storedVars>> BY <2>2, <2>7 DEF vars
  <2> QED BY <2>3, <2>4, <2>5, <2>6, <2>7, StoredSteps
<1> QED BY <1>1, StoredInvariance, PTL DEF StoredSpec, StoredNeverReplayed, OpensNoStored

-----------------------------------------------------------------------------
(* Restarts keep the at-most-once channel.                                 *)

\* The parties to which the channel no longer promises anything.
Broken == overflowed \cup rolledBack

\* The channel's names for the two ends are the session's.
LEMMA StoredChannelEnds ==
    ASSUME NEW p \in Party
    PROVE  StoredPromise!Ends = Party /\ StoredPromise!Other(p) = Peer(p)
BY DEF StoredPromise!Ends, StoredPromise!Other, Party, Peer

\* Every step, a kill included, is a step of the channel or changes nothing that
\* the channel's user sees; a kill that loses an operation is a Break.
LEMMA StoredStepsOfTheChannel ==
    ASSUME StoredInv, [StoredNext]_<<vars, storedVars>>
    PROVE  [StoredPromise!Next]_<<Opened, Broken>>
<1>1. /\ Initiator \in Party /\ Responder \in Party
      /\ Peer(Responder) = Initiator /\ StoredPromise!Ends = Party
  BY PartyAssumption, StoredChannelEnds DEF Party, Peer
<1>2. TypeOK BY DEF StoredInv, StoredTypes
<1>3. \A q \in Party : /\ Len(Opened[q]) = Len(wire[q])
                       /\ \A i \in 1 .. Len(wire[q]) : Opened[q][i] = wire[q][i].accepts
  <2> SUFFICES ASSUME NEW q \in Party
               PROVE  /\ Len(Opened[q]) = Len(wire[q])
                      /\ \A i \in 1 .. Len(wire[q]) : Opened[q][i] = wire[q][i].accepts
    OBVIOUS
  <2>1. Len(wire[q]) \in Nat BY <1>2, WireTypes
  <2>2. Opened[q] = [i \in 1 .. Len(wire[q]) |-> wire[q][i].accepts] BY DEF Opened
  <2> QED BY <2>1, <2>2
<1>4. CASE wire' = wire /\ Broken' = Broken
  <2>1. Opened' = Opened BY <1>4 DEF Opened
  <2> QED BY <1>4, <2>1
<1>5. CASE StoredInitiate
  BY <1>4, <1>5 DEF StoredInitiate, Initiate, Owes, Broken
<1>6. ASSUME NEW p \in Party, StoredSend(p)
      PROVE  StoredPromise!Next
  <2>1. Send(p) /\ Broken' = Broken /\ p \in established
    BY <1>6 DEF StoredSend, Send, Owes, Broken
  <2>2. Opened' = [Opened EXCEPT ![p] = Append(@, 0)] BY <1>2, <2>1, SendOpens
  <2>3. p = Initiator \/ StoredPromise!Heard(p)
    <3>1. CASE p = Responder
      <4>1. PICK i \in 1 .. Len(wire[Initiator]) : wire[Initiator][i].accepts > 0
        BY <2>1, <3>1 DEF StoredInv, RespondersHeard
      <4>2. StoredPromise!Other(p) = Initiator BY <1>1, <3>1, StoredChannelEnds
      <4> QED BY <1>1, <1>3, <4>1, <4>2 DEF StoredPromise!Heard
    <3> QED BY <3>1 DEF Party
  <2>4. StoredPromise!Say(p) BY <2>1, <2>2, <2>3 DEF StoredPromise!Say, Broken
  <2> QED BY <1>1, <2>4 DEF StoredPromise!Next
<1>7. ASSUME NEW p \in Party, wire' = wire, Broken' = Broken \cup {p}
      PROVE  StoredPromise!Next
  <2>1. Opened' = Opened BY <1>7 DEF Opened
  <2> QED BY <1>1, <1>7, <2>1 DEF StoredPromise!Next, StoredPromise!Break, Broken
<1>8. ASSUME NEW p \in Party, NEW i \in 1 .. Len(wire[Peer(p)]), HostHanded(p, i)
      PROVE  [StoredPromise!Next]_<<Opened, Broken>>
  <2>1. PICK ok \in BOOLEAN : HandedOver(p, i, ok) BY <1>8, HostHandedKeeps
  <2>2. /\ Handed(p, i, ok)
        /\ ok /\ p \notin Broken => wire[Peer(p)][i].accepts = 0
        /\ Broken' = Broken \/ (~ok /\ Broken' = Broken \cup {p})
    BY <2>1 DEF HandedOver, Broken
  <2>3. Opened' = IF ok THEN [Opened EXCEPT ![Peer(p)][i] = @ + 1] ELSE Opened
    BY <1>2, <2>2, HandedOpens
  <2>4. StoredPromise!Other(p) = Peer(p) /\ Peer(p) \in Party BY StoredChannelEnds, PeerFacts
  <2>5. CASE ok
    <3>1. p \in Broken \/ Opened[Peer(p)][i] = 0 BY <1>3, <2>2, <2>4, <2>5
    <3>2. StoredPromise!Open(p, i) /\ UNCHANGED Broken
      BY <2>2, <2>3, <2>4, <2>5, <3>1 DEF StoredPromise!Open, Broken
    <3>3. i \in 1 .. Len(Opened[StoredPromise!Other(p)]) BY <1>3, <2>4
    <3> QED BY <1>1, <3>2, <3>3 DEF StoredPromise!Next, Broken
  <2>6. CASE ~ok
    <3>1. Opened' = Opened BY <2>3, <2>6
    <3>2. CASE Broken' = Broken BY <3>1, <3>2
    <3>3. CASE Broken' = Broken \cup {p}
      BY <1>1, <3>1, <3>3 DEF StoredPromise!Next, StoredPromise!Break, Broken
    <3> QED BY <2>2, <3>2, <3>3
  <2> QED BY <2>5, <2>6
<1>9. ASSUME NEW p \in Party, Persist(p)
      PROVE  [StoredPromise!Next]_<<Opened, Broken>>
  BY <1>4, <1>9 DEF Persist, vars, Broken
<1>10. ASSUME NEW p \in Party, Restart(p)
       PROVE  [StoredPromise!Next]_<<Opened, Broken>>
  <2>1. wire' = wire /\ (Broken' = Broken \/ Broken' = Broken \cup {p})
    BY <1>10 DEF Restart, Broken
  <2> QED BY <1>4, <1>7, <2>1
<1>11. CASE UNCHANGED <<vars, storedVars>> BY <1>4, <1>11 DEF vars, storedVars, Broken
<1> QED BY <1>5, <1>6, <1>8, <1>9, <1>10, <1>11, StoredSteps

\* Restarts keep the at-most-once channel, in the app and in the enclave, for
\* every MAX_SKIP, every cache cap, any traffic and any number of kills: only a
\* kill before _persistSession has written an operation, or a full cache, ends
\* the promise, and then for that party alone.
THEOREM StoredImplementsChannel == StoredSpec => ImplementsChannelUnlessLost
<1>1. StoredInit => StoredPromise!Init
  <2> SUFFICES ASSUME StoredInit
               PROVE  StoredPromise!Init
    OBVIOUS
  <2>1. \A p \in Party : wire[p] = <<>> BY DEF StoredInit, Init
  <2>2. \A p \in Party : [i \in 1 .. Len(wire[p]) |-> wire[p][i].accepts] = <<>> BY <2>1
  <2>3. Opened = [p \in Party |-> <<>>] BY <2>2 DEF Opened
  <2>4. overflowed \cup rolledBack = {} BY DEF StoredInit, Init
  <2> QED BY <2>3, <2>4 DEF StoredPromise!Init, StoredPromise!Ends, Party
<1>2. StoredInv /\ [StoredNext]_<<vars, storedVars>> =>
         [StoredPromise!Next]_<<Opened, overflowed \cup rolledBack>>
  BY StoredStepsOfTheChannel DEF Broken
<1> QED BY <1>1, <1>2, StoredInvariance, PTL
        DEF StoredSpec, ImplementsChannelUnlessLost, StoredPromise!Spec

-----------------------------------------------------------------------------
(* The agreement of the two ends on the keys, when they may be killed: every *)
(* state an end may continue from agrees with every state of the other end. *)

\* The states p may continue from: a restart that loses nothing finds the stored one.
Copies(p) == {ratchet[p]} \cup (IF p \in owed THEN {} ELSE {Deserialize(disk[p].ratchet)})

\* The messages p can still be asked to open.  The enclave forgets a message it
\* could not open, and the app remembers what that message did to its ratchet.
Awaited(p) ==
    {i \in 1 .. Len(wire[Peer(p)]) :
        LET m == wire[Peer(p)][i]
        IN  IF host = "enclave" THEN m.accepts = 0 ELSE m.copies = 0}

\* No operation is lost, and in the app nothing is duplicated.
Steady == rolledBack = {} /\ (host = "enclave" \/ duplicates = 0)

\* Each end by itself.
StoredEnds ==
    \A p \in Party :
        /\ HeadersDiffer(wire[p])
        /\ WireBelow(wire[p], nextDh)
        /\ \A r \in Copies(p) : Below(r, nextDh) /\ InStep(r)

\* The order of the handshake, the PreKey messages, and what is on the disk of a
\* party that owes nothing.
StoredHandshake ==
    /\ Responder \in established => Initiator \in established
    /\ Responder \notin established => \A r \in Copies(Responder) : r = InitResponder(SPK)
    /\ wire[Responder] = <<>> =>
          /\ Initiator \in established => pending[Initiator]
          /\ \A i \in 1 .. Len(wire[Initiator]) : wire[Initiator][i].prekey
    /\ \A p \in Party : p \notin owed =>
          /\ disk[p].session = (p \in established)
          /\ disk[p].pending = pending[p]

\* The two ends against each other.
StoredAgreement ==
    \A p \in Party :
        /\ Initiator \in established =>
              \A r \in Copies(p), s \in Copies(Peer(p)) :
                 Agrees(r, s, wire[Peer(p)], wire[p], Awaited(p), Awaited(Peer(p)))
        /\ p \notin overflowed => \A r \in Copies(p) : CacheRight(r, wire[Peer(p)])

\* All of it holds in the steady states.
StoredAgreeInv == Steady => StoredEnds /\ StoredHandshake /\ StoredAgreement

\* The types of what the agreement is about.
LEMMA StoredFacts ==
    ASSUME StoredInv, NEW p \in Party
    PROVE  /\ TypeOK /\ Peer(p) \in Party /\ Peer(p) # p /\ Peer(Peer(p)) = p
           /\ \A q \in Party : q = p \/ q = Peer(p)
           /\ wire[p] \in Seq(Envelope) /\ wire[Peer(p)] \in Seq(Envelope)
           /\ Awaited(p) \in SUBSET (1 .. Len(wire[Peer(p)]))
           /\ Awaited(Peer(p)) \in SUBSET (1 .. Len(wire[p]))
           /\ nextDh \in DhKey /\ nextDh \in Nat
           /\ ratchet[p] \in Copies(p)
           /\ DOMAIN ratchet = Party /\ DOMAIN disk = Party /\ DOMAIN wire = Party
           /\ pending \in [Party -> BOOLEAN]
<1>1. /\ Peer(p) \in Party /\ Peer(p) # p /\ Peer(Peer(p)) = p
      /\ \A q \in Party : q = p \/ q = Peer(p)
  BY PeerFacts
<1>2. TypeOK /\ DOMAIN disk = Party
  BY DEF StoredInv, StoredTypes
<1>3. /\ wire[p] \in Seq(Envelope) /\ wire[Peer(p)] \in Seq(Envelope) /\ nextDh \in DhKey
      /\ DOMAIN ratchet = Party /\ DOMAIN wire = Party /\ pending \in [Party -> BOOLEAN]
  BY <1>1, <1>2 DEF TypeOK
<1>4. \A q \in Party : Awaited(q) \in SUBSET (1 .. Len(wire[Peer(q)]))
  BY DEF Awaited
<1> QED BY <1>1, <1>2, <1>3, <1>4 DEF DhKey, Copies

\* What is known of every state a party may continue from.
LEMMA CopyFacts ==
    ASSUME StoredInv, NEW p \in Party, NEW r \in Copies(p)
    PROVE  /\ WellFormed(r)
           /\ p \notin overflowed => InStepRecv(r)
           /\ r.chain_send # None => r.chain_send.id = r.root_key
<1>1. \E est, d : CopySound(wire, overflowed, est, p, r, d)
  <2>1. r = ratchet[p] \/ r = Deserialize(disk[p].ratchet)
    BY DEF Copies
  <2> QED BY <2>1, PartyFacts
<1>2. PICK est, d : CopySound(wire, overflowed, est, p, r, d)
  BY <1>1
<1>3. /\ WellFormed(r) /\ SendSound(r, KeysSent(wire, p, d))
      /\ p \notin overflowed => RecvSound(r, KeysOpened(wire, p, d))
  BY <1>2 DEF CopySound
<1> QED BY <1>3 DEF SendSound, RecvSound, InStepRecv

\* Before there is a session nothing is on the wires.
LEMMA StoredQuiet ==
    ASSUME StoredInv, StoredHandshake, rolledBack = {}
    PROVE  /\ \A p \in Party : p \notin established => wire[p] = <<>>
           /\ Initiator \notin established =>
                 \A p \in Party : p \notin established /\ wire[p] = <<>>
<1>1. ASSUME NEW p \in Party, p \notin established
      PROVE  wire[p] = <<>>
  <2>1. /\ CopySound(wire, overflowed, established, p, ratchet[p], done[p])
        /\ Complete(wire, p, done[p]) /\ Len(wire[p]) \in Nat
    BY <1>1, PartyFacts
  <2>2. 1 .. Len(wire[p]) = {}
    BY <1>1, <2>1 DEF CopySound, Complete
  <2>3. \A k \in Nat : 1 .. k = {} => k = 0
    OBVIOUS
  <2>4. Len(wire[p]) = 0
    BY <2>1, <2>2, <2>3
  <2>5. wire[p] \in Seq(Envelope)
    BY StoredFacts
  <2> QED BY <2>4, <2>5
<1>2. Initiator \notin established => \A p \in Party : p \notin established
  BY DEF StoredHandshake, Party
<1> QED BY <1>1, <1>2

\* The state a message is opened with.
Opener(p) == IF p \in established THEN ratchet[p] ELSE InitResponder(SPK)

\* What a host does with message i of the peer.
HostActs(p, i) ==
    LET m == wire[Peer(p)][i]
        out == Decrypt(Opener(p), m.header, m.key, nextDh)
        ok == WillOpen(p, i)
    IN  /\ ok \in BOOLEAN /\ Arrives(p, i) /\ Handed(p, i, ok)
        /\ UNCHANGED <<withOpk, host, disk, rolledBack>>
        /\ \A q \in Party : q # p => ratchet'[q] = ratchet[q] /\ pending'[q] = pending[q]
        /\ ok => /\ out.ok /\ ratchet'[p] = out.state /\ nextDh' = Drew(out.state)
                 /\ established' = established \cup {p} /\ owed' = owed \cup {p}
                 /\ p = Initiator => ~pending'[p]
        /\ ~ok => /\ UNCHANGED <<established, pending, owed>>
                  /\ \/ ratchet'[p] = ratchet[p] /\ nextDh' \in {nextDh, Drew(out.state)}
                     \/ p \in established /\ ratchet'[p] = out.state /\ nextDh' = Drew(out.state)
                  /\ ~out.ok \/ (p \notin established /\ HandshakeFails(m))
                  /\ host = "enclave" =>
                        UNCHANGED <<ratchet, opkHeld, nextDh, overflowed>>
        /\ p \notin established => p = Responder
        /\ overflowed \subseteq overflowed'

\* The call that the host makes, and the write it owes.
LEMMA HostHandedActs ==
    ASSUME StoredInv, NEW p \in Party, NEW i \in 1 .. Len(wire[Peer(p)]), HostHanded(p, i)
    PROVE  HostActs(p, i)
<1> DEFINE m == wire[Peer(p)][i]
           r == Opener(p)
           out == Decrypt(r, m.header, m.key, nextDh)
           ok == WillOpen(p, i)
<1>1. /\ TypeOK /\ Peer(p) \in Party /\ DOMAIN ratchet = Party /\ pending \in [Party -> BOOLEAN]
      /\ p = Responder => Peer(p) = Initiator
      /\ Initiator # Responder
  BY StoredFacts, PartyAssumption DEF Peer
<1>2. m.header \in Header /\ m.key \in MessageKey /\ nextDh \in DhKey
  BY <1>1, WireTypes DEF TypeOK
<1>3. WellFormed(r)
  <2>1. SPK \in DhKey
    BY DEF SPK, DhKey
  <2>2. WellFormed(InitResponder(SPK))
    BY <2>1, InitWellFormed
  <2>3. WellFormed(ratchet[p])
    BY PartyFacts
  <2> QED BY <2>2, <2>3 DEF Opener
<1>4. out.ok \in BOOLEAN
  BY <1>2, <1>3, DecryptSound
<1>5. /\ p \in established => ok = out.ok
      /\ p \notin established => ok = (~HandshakeFails(m) /\ out.ok)
  BY DEF WillOpen, Opener
<1> HIDE DEF out
<1>6. ok \in BOOLEAN
  BY <1>4, <1>5
<1>7. OwesIfOpened(p, i)
  BY DEF HostHanded, AppRespond, EnclaveRespond, AppReceive, EnclaveDecrypt
<1>8. /\ UNCHANGED <<host, disk, rolledBack>>
      /\ owed' = IF ok THEN owed \cup {p} ELSE owed
  BY <1>7 DEF OwesIfOpened, Owes, storedVars
<1>9. CASE Refuse(p, i) /\ ~ok /\ (p \notin established => p = Responder)
  <2>1. /\ Arrives(p, i) /\ Handed(p, i, FALSE)
        /\ UNCHANGED <<established, ratchet, pending, withOpk, opkHeld, nextDh, overflowed>>
    BY <1>9 DEF Refuse
  <2>2. Handed(p, i, ok)
    <3>1. ok = FALSE
      BY <1>6, <1>9
    <3> HIDE DEF ok
    <3> QED BY <2>1, <3>1
  <2> HIDE DEF ok, r, m
  <2> QED BY <1>5, <1>6, <1>8, <1>9, <2>1, <2>2 DEF HostActs, ok, out, r, m
<1>10. CASE Receive(p, i) /\ (~ok => host = "app")
  <2>1. /\ p \in established /\ Arrives(p, i) /\ Handed(p, i, out.ok)
        /\ ratchet' = [ratchet EXCEPT ![p] = out.state]
        /\ pending' = [pending EXCEPT ![p] = @ /\ ~out.ok]
        /\ nextDh' = Drew(out.state)
        /\ overflowed \subseteq overflowed'
        /\ UNCHANGED <<established, withOpk, opkHeld>>
    BY <1>10 DEF Receive, out, r, Opener
  <2>2. ok = out.ok
    BY <1>5, <2>1
  <2>3. ratchet'[p] = out.state /\ \A q \in Party : q # p => ratchet'[q] = ratchet[q]
    BY <1>1, <2>1
  <2>4. /\ \A q \in Party : q # p => pending'[q] = pending[q]
        /\ ok => ~pending'[p]
        /\ ~ok => pending' = pending
    <3> HIDE DEF ok
    <3> QED BY <1>1, <1>4, <2>1, <2>2
  <2>5. established \cup {p} = established
    BY <2>1
  <2>6. host = "app" => host # "enclave"
    OBVIOUS
  <2> HIDE DEF ok, r, m
  <2> QED BY <1>6, <1>8, <1>10, <2>1, <2>2, <2>3, <2>4, <2>5, <2>6 DEF HostActs, ok, out, r, m
<1>11. CASE p = Responder /\ Respond(i) /\ (~ok => host = "app")
  <2>1. r = InitResponder(SPK) /\ p \notin established /\ m = wire[Initiator][i]
    BY <1>1, <1>11 DEF Respond, Opener
  <2>2. /\ Arrives(p, i) /\ Handed(p, i, ok)
        /\ established' = established \cup (IF ok THEN {p} ELSE {})
        /\ ratchet' = IF ok THEN [ratchet EXCEPT ![p] = out.state] ELSE ratchet
        /\ nextDh' = nextDh \/ nextDh' = Drew(out.state)
        /\ ok => nextDh' = Drew(out.state)
        /\ UNCHANGED <<pending, withOpk, overflowed>>
    <3>1. CASE HandshakeFails(m)
      <4>1. ok = FALSE
        BY <1>5, <2>1, <3>1
      <4> HIDE DEF ok, m
      <4> QED BY <1>11, <2>1, <3>1, <4>1 DEF Respond
    <3>2. CASE ~HandshakeFails(m)
      <4>1. ok = out.ok
        BY <1>4, <1>5, <2>1, <3>2
      <4>2. out = Decrypt(InitResponder(SPK), wire[Initiator][i].header, wire[Initiator][i].key, nextDh)
        BY <2>1 DEF out
      <4> HIDE DEF ok, m
      <4> QED BY <1>11, <2>1, <3>2, <4>1, <4>2 DEF Respond
    <3> QED BY <3>1, <3>2
  <2>3. /\ \A q \in Party : q # p => ratchet'[q] = ratchet[q]
        /\ ratchet'[p] = IF ok THEN out.state ELSE ratchet[p]
    BY <1>1, <2>2
  <2>4. ok => out.ok
    BY <1>5, <2>1
  <2>5. ~ok => ~out.ok \/ (p \notin established /\ HandshakeFails(m))
    BY <1>4, <1>5, <2>1
  <2>6. p # Initiator /\ (host = "app" => host # "enclave")
    BY <1>1, <1>11
  <2> HIDE DEF ok, r, m
  <2> QED BY <1>6, <1>8, <1>11, <2>2, <2>3, <2>4, <2>5, <2>6 DEF HostActs, ok, out, r, m
<1>12. \/ Refuse(p, i) /\ ~ok /\ (p \notin established => p = Responder)
       \/ Receive(p, i) /\ (~ok => host = "app")
       \/ p = Responder /\ Respond(i) /\ (~ok => host = "app")
  BY DEF HostHanded, AppRespond, EnclaveRespond, AppReceive, EnclaveDecrypt
<1> QED BY <1>9, <1>10, <1>11, <1>12

\* The verdict decides what is counted.
LEMMA HostVerdict ==
    ASSUME StoredInv, NEW p \in Party, NEW i \in 1 .. Len(wire[Peer(p)]), HostHanded(p, i)
    PROVE  HandedOver(p, i, WillOpen(p, i))
<1>1. PICK ok \in BOOLEAN : HandedOver(p, i, ok)
  BY HostHandedKeeps
<1>2. TypeOK /\ Peer(p) \in Party
  BY StoredFacts
<1>3. WillOpen(p, i) \in BOOLEAN /\ Handed(p, i, WillOpen(p, i))
  BY HostHandedActs DEF HostActs
<1>4. wire[Peer(p)][i].accepts \in Nat
  BY <1>2, WireTypes
<1>5. /\ wire'[Peer(p)][i].accepts =
           IF ok THEN wire[Peer(p)][i].accepts + 1 ELSE wire[Peer(p)][i].accepts
      /\ wire'[Peer(p)][i].accepts =
           IF WillOpen(p, i) THEN wire[Peer(p)][i].accepts + 1 ELSE wire[Peer(p)][i].accepts
  <2>1. Handed(p, i, ok)
    BY <1>1 DEF HandedOver
  <2> QED BY <1>2, <1>3, <2>1, HandedFacts
<1>6. ok = WillOpen(p, i)
  BY <1>3, <1>4, <1>5
<1> QED BY <1>1, <1>6

-----------------------------------------------------------------------------
(* The enclave: what a message could not do is undone.                     *)

\* The initiator has opened nothing: its root is the handshake's.
Early(r) == r.root_key = <<dh(r.dh_self, SPK)>> /\ InStep(r)

\* A PreKey message is of the chain that the responder turns to first.
OfFirstChain(m) ==
    m.prekey => m.key = << <<dh(m.header.dh_pub, SPK)>>, m.header.n >>

\* In the enclave the cache never stops a call that keeps its state, the
\* initiator is at its first chain while the handshake is pending, in memory and
\* in storage, and the one-time prekey stays until there is a session.
EnclaveInv ==
    host = "enclave" =>
        /\ overflowed = {}
        /\ pending[Initiator] => Early(ratchet[Initiator])
        /\ disk[Initiator].pending => Early(Deserialize(disk[Initiator].ratchet))
        /\ \A i \in 1 .. Len(wire[Initiator]) : OfFirstChain(wire[Initiator][i])
        /\ Responder \notin established => opkHeld = withOpk
        /\ ~disk[Responder].session => disk[Responder].opk = withOpk

\* Nothing has happened yet.
LEMMA EnclaveInit == StoredInit => EnclaveInv
<1> SUFFICES ASSUME StoredInit, host = "enclave"
             PROVE  EnclaveInv
  BY DEF EnclaveInv
<1>1. Initiator \in Party /\ Responder \in Party
  BY DEF Party
<1>2. /\ overflowed = {} /\ opkHeld = withOpk /\ ~pending[Initiator]
      /\ wire[Initiator] = <<>> /\ disk = [p \in Party |-> Held(p)]
  BY <1>1 DEF StoredInit, Init
<1>3. Held(Initiator).pending = pending[Initiator] /\ Held(Responder).opk = opkHeld
  BY DEF Held
<1>4. 1 .. Len(wire[Initiator]) = {}
  BY <1>2
<1> HIDE DEF StoredInit
<1>5. disk[Initiator].pending = pending[Initiator] /\ disk[Responder].opk = opkHeld
  <2>1. disk[Initiator] = Held(Initiator) /\ disk[Responder] = Held(Responder)
    BY <1>1, <1>2
  <2> QED BY <1>3, <2>1
<1> QED BY <1>2, <1>4, <1>5 DEF EnclaveInv

\* Session::initiate derives the first root and holds the handshake pending.
LEMMA EnclaveInitiate ==
    ASSUME StoredInv, EnclaveInv, StoredInitiate
    PROVE  EnclaveInv'
<1> DEFINE a == InitInitiator(SPK, nextDh)
<1>1. /\ established \subseteq established'
      /\ ratchet' = [ratchet EXCEPT ![Initiator] = a]
      /\ UNCHANGED <<withOpk, opkHeld, wire, overflowed, host, disk>>
  BY DEF StoredInitiate, Initiate, Owes
<1>2. Early(a)
  <2>1. Append(<<>>, dh(nextDh, SPK)) = <<dh(nextDh, SPK)>>
    OBVIOUS
  <2> QED BY <2>1 DEF InitInitiator, Early, InStep, kdf_rk, FirstChainKey
<1> HIDE DEF a
<1>3. ratchet'[Initiator] = a
  <2>1. Initiator \in Party /\ DOMAIN ratchet = Party
    BY StoredFacts DEF Party
  <2> QED BY <1>1, <2>1
<1> QED BY <1>1, <1>2, <1>3 DEF EnclaveInv

\* Session::encrypt: a PreKey message is sealed with the first chain's key.
LEMMA EnclaveSend ==
    ASSUME StoredInv, EnclaveInv, NEW p \in Party, StoredSend(p)
    PROVE  EnclaveInv'
<1> SUFFICES ASSUME host = "enclave"
             PROVE  EnclaveInv'
  BY DEF StoredSend, Owes, EnclaveInv
<1> DEFINE s == ratchet[p]
           e == EncryptState(s)
           m == [prekey |-> pending[p], header |-> EncryptHeader(s),
                 key |-> KeyOf(s.chain_send), copies |-> 0, accepts |-> 0]
           w == Append(wire[p], m)
<1>1. /\ CanEncrypt(s) /\ wire' = [wire EXCEPT ![p] = w]
      /\ ratchet' = [ratchet EXCEPT ![p] = e]
      /\ UNCHANGED <<established, pending, withOpk, opkHeld, overflowed, host, disk>>
  BY DEF StoredSend, Send, Owes
<1>2. /\ DOMAIN ratchet = Party /\ DOMAIN wire = Party
      /\ wire[p] \in Seq(Envelope) /\ WellFormed(s) /\ s \in Copies(p)
  BY StoredFacts, PartyFacts
<1>3. s.chain_send \in ChainKey /\ s.chain_send.id = s.root_key /\ s.n_send \in Nat
  BY <1>1, <1>2, CopyFacts, EncryptFields, StateFacts DEF CanEncrypt
<1>4. Early(s) => /\ Early(e)
                  /\ m.key = << <<dh(m.header.dh_pub, SPK)>>, m.header.n >>
  <2> SUFFICES ASSUME Early(s)
               PROVE  Early(e) /\ m.key = << <<dh(m.header.dh_pub, SPK)>>, m.header.n >>
    OBVIOUS
  <2>1. s.root_key = <<dh(s.dh_self, SPK)>> /\ s.chain_send.pos = s.n_send
    BY <1>1 DEF Early, InStep, CanEncrypt
  <2>2. /\ e.root_key = s.root_key /\ e.dh_self = s.dh_self
        /\ e.chain_send.pos = s.chain_send.pos + 1 /\ e.n_send = s.n_send + 1
    <3>1. SameKeys(s, e) /\ e.chain_send = NextChainKey(s.chain_send)
      BY <1>1, <1>2, EncryptFields
    <3>2. e.n_send = s.n_send + 1
      BY <1>2 DEF EncryptState, WellFormed, IsRatchetState
    <3>3. NextChainKey(s.chain_send).pos = s.chain_send.pos + 1
      BY <1>3 DEF NextChainKey, Advance, ChainKey
    <3> HIDE DEF e
    <3> QED BY <3>1, <3>2, <3>3 DEF SameKeys
  <2>3. m.key = <<s.root_key, s.n_send>> /\ m.header.dh_pub = s.dh_self /\ m.header.n = s.n_send
    BY <1>3, <2>1 DEF KeyOf, EncryptHeader
  <2> HIDE DEF e, m
  <2> QED BY <2>1, <2>2, <2>3 DEF Early, InStep
<1>5. m.prekey = pending[p]
  OBVIOUS
<1> HIDE DEF e, m
<1>6. /\ Initiator \in Party /\ pending[Initiator] => Early(ratchet[Initiator])
      /\ \A i \in 1 .. Len(wire[Initiator]) : OfFirstChain(wire[Initiator][i])
  BY DEF EnclaveInv
<1>7. CASE p = Initiator
  <2>1. ratchet'[Initiator] = e /\ wire'[Initiator] = w
    BY <1>1, <1>2, <1>7
  <2>2. pending[Initiator] => Early(e) /\ m.key = << <<dh(m.header.dh_pub, SPK)>>, m.header.n >>
    BY <1>4, <1>6, <1>7
  <2>3. OfFirstChain(m)
    BY <1>5, <1>7, <2>2 DEF OfFirstChain
  <2>4. \A i \in 1 .. Len(w) : w[i] = m \/ (i \in 1 .. Len(wire[p]) /\ w[i] = wire[p][i])
    BY <1>2
  <2>5. \A i \in 1 .. Len(w) : OfFirstChain(w[i])
    BY <1>6, <1>7, <2>3, <2>4
  <2> HIDE DEF w
  <2> QED BY <1>1, <2>1, <2>2, <2>5 DEF EnclaveInv
<1>8. CASE p # Initiator
  <2>1. ratchet'[Initiator] = ratchet[Initiator] /\ wire'[Initiator] = wire[Initiator]
    BY <1>1, <1>2, <1>8 DEF Party
  <2> QED BY <1>1, <2>1 DEF EnclaveInv
<1> QED BY <1>7, <1>8

\* Enclave::respond and Enclave::decrypt keep a new state only of a message that
\* opened: then the responder has a session, and the initiator no longer sends
\* the handshake.
LEMMA EnclaveHanded ==
    ASSUME StoredInv, EnclaveInv, NEW p \in Party, NEW i \in 1 .. Len(wire[Peer(p)]),
           HostHanded(p, i)
    PROVE  EnclaveInv'
<1> DEFINE ok == WillOpen(p, i)
<1>1. HostActs(p, i) /\ HandedOver(p, i, ok)
  BY HostHandedActs, HostVerdict
<1>2. /\ TypeOK /\ Peer(p) \in Party /\ Initiator \in Party /\ Responder \in Party
      /\ Initiator # Responder
  BY StoredFacts, PartyAssumption DEF Party
<1>3. /\ ok \in BOOLEAN /\ Handed(p, i, ok) /\ UNCHANGED <<withOpk, host, disk>>
      /\ \A q \in Party : q # p => ratchet'[q] = ratchet[q] /\ pending'[q] = pending[q]
      /\ ok => established' = established \cup {p} /\ (p = Initiator => ~pending'[p])
      /\ ~ok => UNCHANGED <<established, pending>>
      /\ ~ok /\ host = "enclave" => UNCHANGED <<ratchet, opkHeld, nextDh, overflowed>>
  BY <1>1 DEF HostActs
<1> SUFFICES ASSUME host = "enclave"
             PROVE  EnclaveInv'
  BY <1>3 DEF EnclaveInv
<1>4. /\ Len(wire'[Initiator]) = Len(wire[Initiator])
      /\ \A j \in 1 .. Len(wire[Initiator]) :
            /\ wire'[Initiator][j].prekey = wire[Initiator][j].prekey
            /\ wire'[Initiator][j].key = wire[Initiator][j].key
            /\ wire'[Initiator][j].header = wire[Initiator][j].header
  BY <1>2, <1>3, HandedMessages DEF SameMessages
<1>5. overflowed' = {}
  BY <1>1, <1>3 DEF EnclaveInv, HandedOver
<1>6. \A j \in 1 .. Len(wire'[Initiator]) : OfFirstChain(wire'[Initiator][j])
  BY <1>4 DEF EnclaveInv, OfFirstChain
<1>7. pending'[Initiator] => Early(ratchet'[Initiator])
  BY <1>2, <1>3 DEF EnclaveInv
<1>8. Responder \notin established' => opkHeld' = withOpk'
  <2>1. CASE ~ok
    BY <1>3, <2>1 DEF EnclaveInv
  <2>2. CASE ok /\ p = Responder
    BY <1>3, <2>2
  <2>3. CASE ok /\ p # Responder
    <3>1. Receive(p, i)
      BY <2>3 DEF HostHanded, AppReceive, EnclaveDecrypt
    <3> QED BY <1>3, <2>3, <3>1 DEF EnclaveInv, Receive
  <2> QED BY <1>3, <2>1, <2>2, <2>3
<1> HIDE DEF ok
<1> QED BY <1>3, <1>5, <1>6, <1>7, <1>8 DEF EnclaveInv

\* Storing writes what is in memory.
LEMMA EnclavePersist ==
    ASSUME StoredInv, EnclaveInv, NEW p \in Party, Persist(p)
    PROVE  EnclaveInv'
<1> SUFFICES ASSUME host = "enclave"
             PROVE  EnclaveInv'
  BY DEF Persist, EnclaveInv
<1>1. /\ disk' = [disk EXCEPT ![p] = Held(p)]
      /\ UNCHANGED <<established, ratchet, pending, withOpk, opkHeld, nextDh, wire, duplicates,
                     overflowed, host>>
  BY DEF Persist, vars
<1>2. Initiator \in Party /\ Responder \in Party /\ DOMAIN disk = Party
  BY StoredFacts DEF Party
<1>3. \A q \in Party : disk'[q] = disk[q] \/ disk'[q] = Held(q)
  BY <1>1, <1>2
<1>4. /\ Held(Initiator).pending = pending[Initiator]
      /\ Held(Initiator).ratchet = Serialize(ratchet[Initiator])
      /\ Held(Responder).session = (Responder \in established)
      /\ Held(Responder).opk = opkHeld
  BY DEF Held
<1>5. Deserialize(Serialize(ratchet[Initiator])) = ratchet[Initiator]
  BY <1>2, PartyFacts, SerializeInverse
<1>6. disk'[Initiator].pending => Early(Deserialize(disk'[Initiator].ratchet))
  BY <1>2, <1>3, <1>4, <1>5 DEF EnclaveInv
<1>7. ~disk'[Responder].session => disk'[Responder].opk = withOpk
  BY <1>2, <1>3, <1>4 DEF EnclaveInv
<1> QED BY <1>1, <1>6, <1>7 DEF EnclaveInv

\* A kill and a restart: the sealed state and the sealed account come back together.
LEMMA EnclaveRestart ==
    ASSUME StoredInv, EnclaveInv, NEW p \in Party, Restart(p)
    PROVE  EnclaveInv'
<1> SUFFICES ASSUME host = "enclave"
             PROVE  EnclaveInv'
  BY DEF Restart, EnclaveInv
<1>1. /\ established' = IF disk[p].session THEN established ELSE established \ {p}
      /\ ratchet' = [ratchet EXCEPT ![p] = Deserialize(disk[p].ratchet)]
      /\ pending' = [pending EXCEPT ![p] = disk[p].pending]
      /\ opkHeld' = IF p = Responder THEN disk[p].opk ELSE opkHeld
      /\ UNCHANGED <<withOpk, wire, overflowed, host, disk>>
  BY DEF Restart
<1>2. /\ Initiator \in Party /\ Responder \in Party
      /\ DOMAIN ratchet = Party /\ pending \in [Party -> BOOLEAN]
  BY StoredFacts DEF Party
<1>3. pending'[Initiator] => Early(ratchet'[Initiator])
  <2>1. CASE p = Initiator
    <3>1. pending'[p] = disk[p].pending /\ ratchet'[p] = Deserialize(disk[p].ratchet)
      BY <1>1, <1>2
    <3> QED BY <2>1, <3>1 DEF EnclaveInv
  <2>2. CASE p # Initiator
    BY <1>1, <1>2, <2>2 DEF EnclaveInv
  <2> QED BY <2>1, <2>2
<1>4. Responder \notin established' => opkHeld' = withOpk
  <2>1. CASE p = Responder
    <3>1. p \in Stored => p \in established
      BY DEF StoredInv, RecordsInv
    <3>2. p \notin established' => ~disk[p].session
      BY <1>1, <3>1 DEF Stored
    <3> QED BY <1>1, <2>1, <3>2 DEF EnclaveInv
  <2>2. CASE p # Responder
    BY <1>1, <2>2 DEF EnclaveInv
  <2> QED BY <2>1, <2>2
<1> QED BY <1>1, <1>3, <1>4 DEF EnclaveInv

\* No step of an enclave leaves its invariant.
LEMMA EnclaveNextInv ==
    StoredInv /\ EnclaveInv /\ [StoredNext]_<<vars, storedVars>> => EnclaveInv'
<1> SUFFICES ASSUME StoredInv, EnclaveInv, [StoredNext]_<<vars, storedVars>>
             PROVE  EnclaveInv'
  OBVIOUS
<1>1. CASE StoredInitiate
  BY <1>1, EnclaveInitiate
<1>2. ASSUME NEW p \in Party, StoredSend(p)
      PROVE  EnclaveInv'
  BY <1>2, EnclaveSend
<1>3. ASSUME NEW p \in Party, NEW i \in 1 .. Len(wire[Peer(p)]), HostHanded(p, i)
      PROVE  EnclaveInv'
  BY <1>3, EnclaveHanded
<1>4. ASSUME NEW p \in Party, Persist(p)
      PROVE  EnclaveInv'
  BY <1>4, EnclavePersist
<1>5. ASSUME NEW p \in Party, Restart(p)
      PROVE  EnclaveInv'
  BY <1>5, EnclaveRestart
<1>6. CASE UNCHANGED <<vars, storedVars>>
  BY <1>6 DEF vars, storedVars, EnclaveInv
<1> QED BY <1>1, <1>2, <1>3, <1>4, <1>5, <1>6, StoredSteps

\* Enclave::decrypt and Enclave::respond never return a state in which a full
\* cache stopped skip_message_keys in the middle of a gap, and the account keeps
\* the one-time prekey until there is a session: whatever the network duplicates
\* and whatever a kill loses.
THEOREM EnclaveKeepsNoDamage == StoredSpec => []EnclaveInv
<1>1. StoredInit => EnclaveInv
  BY EnclaveInit
<1>2. StoredInv /\ EnclaveInv /\ [StoredNext]_<<vars, storedVars>> => EnclaveInv'
  BY EnclaveNextInv
<1> QED BY <1>1, <1>2, StoredInvariance, PTL DEF StoredSpec

-----------------------------------------------------------------------------
(* Every step keeps the agreement.                                         *)

\* Before anybody has a session there is nothing to disagree about.
LEMMA StoredInitAgree == StoredInit => StoredAgreeInv
<1> SUFFICES ASSUME StoredInit
             PROVE  StoredEnds /\ StoredHandshake /\ StoredAgreement
  BY DEF StoredAgreeInv
<1> DEFINE b == InitResponder(SPK)
<1>1. /\ \A p \in Party : ratchet[p] = b /\ wire[p] = <<>> /\ Peer(p) \in Party /\ ~pending[p]
      /\ owed = {} /\ established = {} /\ disk = [p \in Party |-> Held(p)]
      /\ pending \in [Party -> BOOLEAN]
  BY PeerFacts DEF StoredInit, Init
<1>2. nextDh \in DhKey /\ SPK < nextDh /\ SPK \in DhKey
  BY DEF StoredInit, Init, SPK, DhKey
<1>3. InStep(b) /\ Below(b, nextDh) /\ CacheRight(b, <<>>)
  BY <1>2, StartAgrees
<1>4. WellFormed(b)
  BY <1>2, InitWellFormed
<1>5. \A p \in Party : /\ Held(p).ratchet = Serialize(ratchet[p])
                       /\ Held(p).session = (p \in established)
                       /\ Held(p).pending = pending[p]
  BY DEF Held
<1>6. \A p \in Party : disk[p] = Held(p)
  BY <1>1
<1> HIDE DEF b, StoredInit
<1>7. Deserialize(Serialize(b)) = b
  BY <1>4, SerializeInverse
<1>8. \A p \in Party : \A r \in Copies(p) : r = b
  BY <1>1, <1>5, <1>6, <1>7 DEF Copies
<1>9. HeadersDiffer(<<>>) /\ WireBelow(<<>>, nextDh) /\ 1 .. Len(<<>>) = {}
  BY DEF HeadersDiffer, WireBelow
<1>10. StoredEnds
  BY <1>1, <1>3, <1>8, <1>9 DEF StoredEnds
<1>11. StoredHandshake
  <2>1. Initiator \in Party /\ Responder \in Party
    BY DEF Party
  <2> QED BY <1>1, <1>5, <1>6, <1>8, <1>9, <2>1 DEF StoredHandshake, b
<1>12. StoredAgreement
  BY <1>1, <1>3, <1>8 DEF StoredAgreement
<1> QED BY <1>10, <1>11, <1>12

\* Session::initiate puts the initiator one DH ratchet ahead of the responder's
\* copies, which are all untouched.
LEMMA StoredInitiateAgree ==
    ASSUME StoredInv, StoredAgreeInv, StoredInitiate
    PROVE  StoredAgreeInv'
<1> SUFFICES ASSUME Steady'
             PROVE  StoredEnds' /\ StoredHandshake' /\ StoredAgreement'
  BY DEF StoredAgreeInv
<1> DEFINE a == InitInitiator(SPK, nextDh)
           b == InitResponder(SPK)
<1>1. /\ duplicates' = duplicates /\ wire' = wire /\ nextDh' = nextDh + 1
      /\ Initiator \notin established /\ established' = established \cup {Initiator}
      /\ ratchet' = [ratchet EXCEPT ![Initiator] = a]
      /\ pending' = [pending EXCEPT ![Initiator] = TRUE]
      /\ owed' = owed \cup {Initiator}
      /\ UNCHANGED <<host, disk, rolledBack>>
  BY DEF StoredInitiate, Initiate, Owes
<1>2. StoredEnds /\ StoredHandshake /\ StoredAgreement /\ rolledBack = {}
  BY <1>1 DEF StoredAgreeInv, Steady
<1>3. /\ Initiator \in Party /\ Responder \in Party /\ Initiator # Responder
      /\ Peer(Initiator) = Responder /\ Peer(Responder) = Initiator
      /\ \A p \in Party : p = Initiator \/ p = Responder
  BY PartyAssumption DEF Party, Peer
<1>4. \A p \in Party : p \notin established /\ wire[p] = <<>>
  BY <1>1, <1>2, StoredQuiet
<1>5. /\ DOMAIN ratchet = Party /\ nextDh \in DhKey /\ nextDh \in Nat
      /\ ratchet[Responder] \in Copies(Responder) /\ pending \in [Party -> BOOLEAN]
  BY <1>3, StoredFacts
<1>6. \A r \in Copies(Responder) : r = b
  BY <1>2, <1>3, <1>4 DEF StoredHandshake
<1>7. SPK < nextDh
  <2>1. Below(b, nextDh) /\ b.dh_self = SPK
    BY <1>2, <1>3, <1>5, <1>6 DEF StoredEnds, InitResponder
  <2> QED BY <2>1 DEF Below
<1>8. /\ Agrees(a, b, <<>>, <<>>, {}, {})
      /\ InStep(a) /\ InStep(b) /\ Below(a, nextDh + 1) /\ Below(b, nextDh)
      /\ CacheRight(a, <<>>) /\ CacheRight(b, <<>>)
  BY <1>5, <1>7, StartAgrees
<1>9. nextDh + 1 \in DhKey /\ nextDh <= nextDh + 1 /\ SPK \in DhKey
  BY <1>5 DEF DhKey, SPK
<1>10. WellFormed(b)
  BY <1>9, InitWellFormed
<1> HIDE DEF a, b
<1>11. Below(b, nextDh + 1)
  BY <1>5, <1>8, <1>9, <1>10, BelowLater
<1>12. ratchet'[Initiator] = a /\ ratchet'[Responder] = ratchet[Responder]
  BY <1>1, <1>3, <1>5
<1>13. /\ \A r \in Copies(Initiator)' : r = a
       /\ \A r \in Copies(Responder)' : r = b
  <2>1. Copies(Responder)' = Copies(Responder)
    BY <1>1, <1>3, <1>12 DEF Copies
  <2>2. Copies(Initiator)' = {a}
    BY <1>1, <1>12 DEF Copies
  <2> QED BY <1>6, <2>1, <2>2
<1>14. \A p \in Party : wire'[p] = <<>> /\ HeadersDiffer(<<>>) /\ WireBelow(<<>>, nextDh')
  <2>1. 1 .. Len(<<>>) = {}
    OBVIOUS
  <2> QED BY <1>1, <1>4, <2>1 DEF HeadersDiffer, WireBelow
<1>15. StoredEnds'
  BY <1>1, <1>3, <1>8, <1>11, <1>13, <1>14 DEF StoredEnds
<1>16. StoredHandshake'
  <2>1. pending'[Initiator] = TRUE /\ pending'[Responder] = pending[Responder]
    BY <1>1, <1>3, <1>5
  <2>2. 1 .. Len(wire'[Initiator]) = {}
    BY <1>3, <1>14
  <2>3. /\ Initiator \in established' /\ Initiator \in owed'
        /\ (Responder \in established') = (Responder \in established)
        /\ Responder \notin owed' => Responder \notin owed
    BY <1>1, <1>3
  <2>4. \A p \in Party : p \notin owed' =>
          disk'[p].session = (p \in established') /\ disk'[p].pending = pending'[p]
    BY <1>1, <1>2, <1>3, <2>1, <2>3 DEF StoredHandshake
  <2> QED BY <1>3, <1>13, <2>1, <2>2, <2>3, <2>4 DEF StoredHandshake, b
<1>17. \A p \in Party : Awaited(p)' = {}
  <2>1. \A p \in Party : Peer(p) \in Party
    BY PeerFacts
  <2>2. \A p \in Party : 1 .. Len(wire'[Peer(p)]) = {}
    BY <1>14, <2>1
  <2> QED BY <2>2 DEF Awaited
<1>18. Agrees(b, a, <<>>, <<>>, {}, {})
  BY <1>8, AgreesBothWays
<1>19. StoredAgreement'
  BY <1>3, <1>8, <1>13, <1>14, <1>17, <1>18 DEF StoredAgreement
<1> QED BY <1>15, <1>16, <1>19

\* Session::encrypt.  From now on the sender owes its advance to the disk: what
\* the message is sealed with is expected by every copy of the peer.
LEMMA StoredSendAgree ==
    ASSUME StoredInv, StoredAgreeInv, NEW p \in Party, StoredSend(p)
    PROVE  StoredAgreeInv'
<1> SUFFICES ASSUME Steady'
             PROVE  StoredEnds' /\ StoredHandshake' /\ StoredAgreement'
  BY DEF StoredAgreeInv
<1> DEFINE m == [prekey |-> pending[p], header |-> EncryptHeader(ratchet[p]),
                 key |-> KeyOf(ratchet[p].chain_send), copies |-> 0, accepts |-> 0]
           q == Peer(p)
           s == ratchet[p]
           n == Len(wire[p]) + 1
<1>1. /\ duplicates' = duplicates /\ nextDh' = nextDh /\ overflowed' = overflowed
      /\ established' = established /\ pending' = pending
      /\ p \in established /\ CanEncrypt(s)
      /\ wire' = [wire EXCEPT ![p] = Append(@, m)]
      /\ ratchet' = [ratchet EXCEPT ![p] = EncryptState(s)]
      /\ owed' = owed \cup {p} /\ UNCHANGED <<host, disk, rolledBack>>
  BY DEF StoredSend, Send, Owes
<1>2. StoredEnds /\ StoredHandshake /\ StoredAgreement
  BY <1>1 DEF StoredAgreeInv, Steady
<1>3. /\ q \in Party /\ q # p /\ Peer(q) = p /\ \A x \in Party : x = p \/ x = q
      /\ wire[p] \in Seq(Envelope) /\ wire[q] \in Seq(Envelope)
      /\ Awaited(q) \in SUBSET (1 .. Len(wire[p])) /\ Awaited(p) \in SUBSET (1 .. Len(wire[q]))
      /\ DOMAIN ratchet = Party /\ DOMAIN wire = Party /\ pending[p] \in BOOLEAN
      /\ s \in Copies(p) /\ ratchet[q] \in Copies(q)
  BY StoredFacts
<1>4. /\ WellFormed(s) /\ \A r \in Copies(q) : WellFormed(r)
      /\ CanEncrypt(s) => s.chain_send.id = s.root_key
  BY <1>3, CopyFacts DEF CanEncrypt
<1>5. Initiator \in established
  BY <1>1, <1>2 DEF StoredHandshake, Party
<1>6. m \in Envelope /\ m.header = EncryptHeader(s) /\ m.key = KeyOf(s.chain_send)
  <2>1. EncryptHeader(s) \in Header /\ KeyOf(s.chain_send) \in MessageKey
    BY <1>1, <1>4, EncryptFields
  <2> QED BY <1>3, <2>1 DEF Envelope
<1>7. m.copies = 0 /\ m.accepts = 0 /\ m.prekey = pending[p]
  OBVIOUS
<1> HIDE DEF m
<1> DEFINE e == EncryptState(s)
           x == Append(wire[p], m)
<1>8. InStep(s) /\ Below(s, nextDh) /\ HeadersDiffer(wire[p]) /\ WireBelow(wire[p], nextDh)
  BY <1>2, <1>3 DEF StoredEnds
<1>9. \A r \in Copies(q) : Agrees(r, s, wire[p], wire[q], Awaited(q), Awaited(p))
  BY <1>2, <1>3, <1>5 DEF StoredAgreement
<1>10. ASSUME NEW r \in Copies(q)
       PROVE  /\ Agrees(r, e, x, wire[q], Awaited(q) \cup {n}, Awaited(p))
              /\ InStep(e)
              /\ CacheRight(r, wire[p]) => CacheRight(r, x)
  BY <1>1, <1>3, <1>4, <1>6, <1>8, <1>9, EncryptAgrees
<1>11. HeadersDiffer(x) /\ WireBelow(x, nextDh)
  <2>1. SealsSound(s, wire[p])
    BY <1>3, <1>9 DEF Agrees, Expects
  <2> QED BY <1>3, <1>4, <1>6, <1>8, <2>1, EncryptHeaders
<1>12. e.skipped = s.skipped /\ Below(e, nextDh) /\ InStep(e)
  <2>1. SameKeys(s, e) /\ e.skipped = s.skipped
    BY <1>1, <1>4, EncryptFields
  <2>2. InStep(e)
    BY <1>3, <1>10
  <2> HIDE DEF e
  <2> QED BY <1>8, <2>1, <2>2 DEF Below, SameKeys
<1>13. /\ Len(wire[p]) \in Nat /\ Len(x) = n /\ x[n] = m
       /\ \A j \in 1 .. Len(wire[p]) : x[j] = wire[p][j]
  BY <1>3
<1> HIDE DEF e
<1>14. /\ ratchet'[p] = e /\ ratchet'[q] = ratchet[q]
       /\ wire'[p] = x /\ wire'[q] = wire[q]
  BY <1>1, <1>3 DEF e
<1> HIDE DEF x
<1>15. Copies(p)' = {e} /\ Copies(q)' = Copies(q)
  BY <1>1, <1>3, <1>14 DEF Copies
<1>16. StoredEnds'
  BY <1>1, <1>2, <1>3, <1>11, <1>12, <1>14, <1>15 DEF StoredEnds
<1>17. /\ Awaited(p)' = Awaited(p)
       /\ Awaited(q)' = Awaited(q) \cup {n}
  <2>1. Awaited(p)' = Awaited(p)
    BY <1>1, <1>14 DEF Awaited
  <2> DEFINE Waits(y) == IF host = "enclave" THEN y.accepts = 0 ELSE y.copies = 0
  <2>2. Awaited(q)' = {j \in 1 .. Len(x) : Waits(x[j])}
    BY <1>1, <1>3, <1>14 DEF Awaited
  <2>3. Awaited(q) = {j \in 1 .. Len(wire[p]) : Waits(wire[p][j])}
    BY <1>3 DEF Awaited
  <2>4. Waits(m)
    BY <1>7
  <2> HIDE DEF Waits
  <2> QED BY <1>13, <2>1, <2>2, <2>3, <2>4
<1>18. StoredAgreement'
  <2>1. \A r \in Copies(q) : Agrees(r, e, x, wire[q], Awaited(q)', Awaited(p)')
    BY <1>10, <1>17
  <2>2. \A r \in Copies(q) : Agrees(e, r, wire[q], x, Awaited(p)', Awaited(q)')
    BY <2>1, AgreesBothWays
  <2>3. q \notin overflowed => \A r \in Copies(q) : CacheRight(r, x)
    BY <1>2, <1>3, <1>10 DEF StoredAgreement
  <2>4. p \notin overflowed => CacheRight(e, wire[q])
    BY <1>2, <1>3, <1>12 DEF StoredAgreement, CacheRight
  <2> QED BY <1>1, <1>3, <1>14, <1>15, <2>1, <2>2, <2>3, <2>4 DEF StoredAgreement
<1>19. StoredHandshake'
  <2>1. Initiator \in Party /\ Responder \in Party /\ Initiator # Responder
    BY PartyAssumption DEF Party
  <2>2. Responder \notin established => Copies(Responder)' = Copies(Responder)
    BY <1>1, <1>3, <1>15, <2>1
  <2>3. wire'[Responder] = <<>> => p = Initiator /\ wire[Responder] = <<>>
    <3>1. CASE p = Responder
      BY <1>13, <1>14, <3>1
    <3>2. CASE p # Responder
      BY <1>3, <1>14, <2>1, <3>2 DEF Party
    <3> QED BY <3>1, <3>2
  <2>4. ASSUME wire'[Responder] = <<>>
        PROVE  \A i \in 1 .. Len(wire'[Initiator]) : wire'[Initiator][i].prekey
    <3>1. p = Initiator /\ pending[Initiator]
      BY <1>2, <1>5, <2>3, <2>4 DEF StoredHandshake
    <3>2. \A i \in 1 .. Len(wire[Initiator]) : wire[Initiator][i].prekey
      BY <1>2, <2>3, <2>4 DEF StoredHandshake
    <3>3. \A i \in 1 .. n : i = n \/ i \in 1 .. Len(wire[p])
      BY <1>13
    <3> QED BY <1>7, <1>13, <1>14, <3>1, <3>2, <3>3
  <2>5. \A y \in Party : y \notin owed' =>
          disk'[y].session = (y \in established') /\ disk'[y].pending = pending'[y]
    BY <1>1, <1>2 DEF StoredHandshake
  <2> QED BY <1>1, <1>2, <1>5, <2>2, <2>3, <2>4, <2>5 DEF StoredHandshake
<1> QED BY <1>16, <1>18, <1>19

\* A step that leaves the parties no other states to continue from than before.
LEMMA FewerCopiesAgree ==
    ASSUME StoredEnds, StoredHandshake, StoredAgreement,
           \A p \in Party : Copies(p)' \subseteq Copies(p),
           UNCHANGED <<established, pending, nextDh, wire, overflowed, host>>,
           \A p \in Party : p \notin owed' =>
               disk'[p].session = (p \in established) /\ disk'[p].pending = pending[p]
    PROVE  StoredEnds' /\ StoredHandshake' /\ StoredAgreement'
<1>1. StoredEnds'
  BY DEF StoredEnds
<1>2. StoredHandshake'
  <2>1. Responder \in Party
    BY DEF Party
  <2> QED BY <2>1 DEF StoredHandshake
<1>3. \A p \in Party : Awaited(p)' = Awaited(p) /\ Peer(p) \in Party
  BY PeerFacts DEF Awaited
<1>4. StoredAgreement'
  BY <1>3 DEF StoredAgreement
<1> QED BY <1>1, <1>2, <1>4

\* Once the state is stored, memory and storage are the same.
LEMMA PersistAgree ==
    ASSUME StoredInv, StoredAgreeInv, NEW p \in Party, Persist(p)
    PROVE  StoredAgreeInv'
<1> SUFFICES ASSUME Steady'
             PROVE  StoredEnds' /\ StoredHandshake' /\ StoredAgreement'
  BY DEF StoredAgreeInv
<1>1. /\ p \in owed /\ disk' = [disk EXCEPT ![p] = Held(p)] /\ owed' = owed \ {p}
      /\ UNCHANGED <<established, ratchet, pending, nextDh, wire, duplicates, overflowed, host,
                     rolledBack>>
  BY DEF Persist, vars
<1>2. StoredEnds /\ StoredHandshake /\ StoredAgreement
  BY <1>1 DEF StoredAgreeInv, Steady
<1>3. DOMAIN disk = Party /\ WellFormed(ratchet[p])
  BY StoredFacts, PartyFacts
<1>4. disk'[p] = Held(p) /\ \A q \in Party : q # p => disk'[q] = disk[q]
  BY <1>1, <1>3
<1>5. /\ Held(p).ratchet = Serialize(ratchet[p]) /\ Held(p).session = (p \in established)
      /\ Held(p).pending = pending[p]
  BY DEF Held
<1>6. Deserialize(Serialize(ratchet[p])) = ratchet[p]
  BY <1>3, SerializeInverse
<1>7. \A q \in Party : Copies(q)' \subseteq Copies(q)
  <2>1. Copies(p)' = {ratchet[p]}
    BY <1>1, <1>4, <1>5, <1>6 DEF Copies
  <2>2. \A q \in Party : q # p => Copies(q)' = Copies(q)
    BY <1>1, <1>4 DEF Copies
  <2> QED BY <2>1, <2>2 DEF Copies
<1>8. \A q \in Party : q \notin owed' =>
         disk'[q].session = (q \in established) /\ disk'[q].pending = pending[q]
  BY <1>1, <1>2, <1>4, <1>5 DEF StoredHandshake
<1> QED BY <1>1, <1>2, <1>7, <1>8, FewerCopiesAgree

\* A restart that loses nothing goes on with a state the agreement is about.
LEMMA RestartAgree ==
    ASSUME StoredInv, StoredAgreeInv, NEW p \in Party, Restart(p)
    PROVE  StoredAgreeInv'
<1> SUFFICES ASSUME Steady'
             PROVE  StoredEnds' /\ StoredHandshake' /\ StoredAgreement'
  BY DEF StoredAgreeInv
<1> DEFINE r == Deserialize(disk[p].ratchet)
<1>1. /\ established' = IF disk[p].session THEN established ELSE established \ {p}
      /\ ratchet' = [ratchet EXCEPT ![p] = r]
      /\ pending' = [pending EXCEPT ![p] = disk[p].pending]
      /\ rolledBack' = rolledBack \cup (owed \cap {p})
      /\ owed' = owed \ {p}
      /\ UNCHANGED <<nextDh, wire, duplicates, overflowed, host, disk>>
  BY DEF Restart
<1>2. rolledBack = {} /\ p \notin owed /\ owed' = owed
  BY <1>1 DEF Steady
<1>3. StoredEnds /\ StoredHandshake /\ StoredAgreement
  BY <1>1, <1>2 DEF StoredAgreeInv, Steady
<1>4. DOMAIN ratchet = Party /\ pending \in [Party -> BOOLEAN]
  BY StoredFacts
<1>5. established' = established /\ pending' = pending
  BY <1>1, <1>2, <1>3, <1>4 DEF StoredHandshake
<1> HIDE DEF r
<1>6. ratchet'[p] = r /\ \A q \in Party : q # p => ratchet'[q] = ratchet[q]
  BY <1>1, <1>4
<1>7. \A q \in Party : Copies(q)' \subseteq Copies(q)
  <2>1. Copies(p)' = {r} /\ r \in Copies(p)
    BY <1>1, <1>2, <1>6 DEF Copies, r
  <2>2. \A q \in Party : q # p => Copies(q)' = Copies(q)
    BY <1>1, <1>2, <1>6 DEF Copies
  <2> QED BY <2>1, <2>2
<1>8. \A q \in Party : q \notin owed' =>
         disk'[q].session = (q \in established) /\ disk'[q].pending = pending[q]
  BY <1>1, <1>2, <1>3 DEF StoredHandshake
<1> QED BY <1>1, <1>3, <1>5, <1>7, <1>8, FewerCopiesAgree

\* p is handed message i and goes on with state z, awaiting at most `rest`: what
\* is left to show is that z agrees with every copy of the peer on the rest.
LEMMA StoredHandAgree ==
    ASSUME StoredInv, StoredEnds, StoredAgreement, Initiator \in established,
           NEW p \in Party, NEW i \in 1 .. Len(wire[Peer(p)]),
           NEW opened \in BOOLEAN, Handed(p, i, opened), host' = host,
           NEW z, Copies(p)' \subseteq Copies(p) \cup {z},
           Copies(Peer(p))' \subseteq Copies(Peer(p)),
           NEW rest \in SUBSET Awaited(p), Awaited(p)' \subseteq rest,
           nextDh' \in DhKey, nextDh <= nextDh', Below(z, nextDh'), InStep(z),
           \A s \in Copies(Peer(p)) :
              Agrees(z, s, wire[Peer(p)], wire[p], rest, Awaited(Peer(p))),
           overflowed \subseteq overflowed',
           p \notin overflowed' => CacheRight(z, wire[Peer(p)])
    PROVE  StoredEnds' /\ StoredAgreement'
<1> DEFINE q == Peer(p)
<1>1. /\ q \in Party /\ q # p /\ Peer(q) = p /\ \A x \in Party : x = p \/ x = q
      /\ TypeOK /\ wire[p] \in Seq(Envelope) /\ wire[q] \in Seq(Envelope)
      /\ Awaited(p) \in SUBSET (1 .. Len(wire[q])) /\ Awaited(q) \in SUBSET (1 .. Len(wire[p]))
      /\ nextDh \in DhKey
  BY StoredFacts
<1>2. /\ \A x \in Party : SameMessages(wire[x], wire'[x]) /\ Len(wire'[x]) = Len(wire[x])
      /\ \A j \in 1 .. Len(wire[p]) : /\ wire'[p][j].copies = wire[p][j].copies
                                      /\ wire'[p][j].accepts = wire[p][j].accepts
  BY <1>1, HandedMessages, HandedFacts
<1>3. Awaited(q)' = Awaited(q)
  <2>1. /\ Len(wire'[p]) = Len(wire[p])
        /\ \A j \in 1 .. Len(wire[p]) : /\ wire'[p][j].copies = wire[p][j].copies
                                        /\ wire'[p][j].accepts = wire[p][j].accepts
    BY <1>2
  <2> QED BY <1>1, <2>1 DEF Awaited
<1>4. ASSUME NEW r \in Copies(p)', NEW s \in Copies(q)'
      PROVE  /\ Agrees(r, s, wire'[q], wire'[p], Awaited(p)', Awaited(q)')
             /\ Agrees(s, r, wire'[p], wire'[q], Awaited(q)', Awaited(p)')
  <2>1. s \in Copies(q)
    BY <1>4
  <2>2. PICK due \in SUBSET (1 .. Len(wire[q])) :
           Awaited(p)' \in SUBSET due /\ Agrees(r, s, wire[q], wire[p], due, Awaited(q))
    <3>1. CASE r \in Copies(p)
      <4>1. Agrees(r, s, wire[q], wire[p], Awaited(p), Awaited(q))
        BY <2>1, <3>1 DEF StoredAgreement
      <4>2. Awaited(p)' \in SUBSET Awaited(p)
        OBVIOUS
      <4> QED BY <1>1, <4>1, <4>2
    <3>2. CASE r = z
      <4>1. rest \in SUBSET (1 .. Len(wire[q])) /\ Awaited(p)' \in SUBSET rest
        BY <1>1
      <4> QED BY <2>1, <3>2, <4>1
    <3> QED BY <1>4, <3>1, <3>2
  <2>3. SameMessages(wire[q], wire'[q]) /\ SameMessages(wire[p], wire'[p])
    BY <1>1, <1>2
  <2>4. Awaited(q)' \in SUBSET Awaited(q)
    BY <1>3
  <2>5. Agrees(r, s, wire'[q], wire'[p], Awaited(p)', Awaited(q)')
    BY <1>1, <2>2, <2>3, <2>4, AgreesOnFewer
  <2> QED BY <2>5, AgreesBothWays
<1>5. ASSUME NEW r \in Copies(p)', p \notin overflowed'
      PROVE  CacheRight(r, wire'[q])
  <2>1. CacheRight(r, wire[q])
    <3>1. CASE r \in Copies(p)
      BY <1>5, <3>1 DEF StoredAgreement
    <3>2. CASE r = z
      BY <1>5, <3>2
    <3> QED BY <1>5, <3>1, <3>2
  <2> QED BY <1>1, <1>2, <2>1, RecountedAgrees
<1>6. ASSUME NEW s \in Copies(q)', q \notin overflowed'
      PROVE  CacheRight(s, wire'[p])
  <2>1. CacheRight(s, wire[p])
    BY <1>1, <1>6 DEF StoredAgreement
  <2> QED BY <1>1, <1>2, <2>1, RecountedAgrees
<1>7. StoredAgreement'
  BY <1>1, <1>4, <1>5, <1>6 DEF StoredAgreement
<1>8. ASSUME NEW x \in Party
      PROVE  HeadersDiffer(wire'[x]) /\ WireBelow(wire'[x], nextDh')
  <2>1. HeadersDiffer(wire[x]) /\ WireBelow(wire[x], nextDh) /\ wire[x] \in Seq(Envelope)
    BY <1>1 DEF StoredEnds
  <2>2. WireBelow(wire[x], nextDh')
    BY <1>1, <2>1, BelowLater
  <2> QED BY <1>2, <2>1, <2>2, RecountedAgrees
<1>9. ASSUME NEW x \in Party, NEW r \in Copies(x)
      PROVE  Below(r, nextDh') /\ InStep(r)
  <2>1. Below(r, nextDh) /\ InStep(r) /\ WellFormed(r)
    BY <1>9, CopyFacts DEF StoredEnds
  <2> QED BY <1>1, <2>1, BelowLater
<1>10. \A x \in Party : \A r \in Copies(x)' : Below(r, nextDh') /\ InStep(r)
  BY <1>1, <1>9
<1>11. StoredEnds'
  BY <1>8, <1>10 DEF StoredEnds
<1> QED BY <1>7, <1>11

\* What decrypt does with an awaited message, in any state that agrees with the
\* copies of the peer.
LEMMA AwaitedAgrees ==
    ASSUME StoredInv, StoredEnds, StoredAgreement, Initiator \in established,
           NEW p \in Party, NEW i \in Awaited(p)
    PROVE  LET m == wire[Peer(p)][i]
               out == Decrypt(ratchet[p], m.header, m.key, nextDh)
               z == out.state
           IN  /\ \A s \in Copies(Peer(p)) :
                     Agrees(z, s, wire[Peer(p)], wire[p], Awaited(p) \ {i}, Awaited(Peer(p)))
               /\ Drew(z) \in DhKey /\ nextDh <= Drew(z)
               /\ Below(z, Drew(z)) /\ InStep(z)
               /\ p \notin overflowed =>
                     /\ CacheRight(z, wire[Peer(p)])
                     /\ out.ok \/ GapTooLong(ratchet[p], m.header) \/ NoRoom(ratchet[p], m.header)
<1> DEFINE q == Peer(p)
           r == ratchet[p]
           h == wire[q][i].header
           key == wire[q][i].key
           out == Decrypt(r, h, key, nextDh)
           z == out.state
<1>1. /\ q \in Party /\ Peer(q) = p /\ r \in Copies(p) /\ ratchet[q] \in Copies(q)
      /\ wire[p] \in Seq(Envelope) /\ wire[q] \in Seq(Envelope)
      /\ Awaited(p) \in SUBSET (1 .. Len(wire[q])) /\ Awaited(q) \in SUBSET (1 .. Len(wire[p]))
      /\ nextDh \in DhKey /\ nextDh \in Nat
  BY StoredFacts
<1>2. /\ WellFormed(r) /\ (p \notin overflowed => InStepRecv(r))
      /\ \A s \in Copies(q) : WellFormed(s)
  BY <1>1, CopyFacts
<1>3. /\ HeadersDiffer(wire[q]) /\ WireBelow(wire[q], nextDh) /\ WireBelow(wire[p], nextDh)
      /\ Below(r, nextDh) /\ InStep(r) /\ \A s \in Copies(q) : Below(s, nextDh)
  BY <1>1 DEF StoredEnds
<1>4. ASSUME NEW s \in Copies(q)
      PROVE  /\ Agrees(z, s, wire[q], wire[p], Awaited(p) \ {i}, Awaited(q))
             /\ CacheRight(r, wire[q]) /\ InStepRecv(r) =>
                   CacheRight(z, wire[q]) /\ (out.ok \/ GapTooLong(r, h) \/ NoRoom(r, h))
  <2>1. Agrees(r, s, wire[q], wire[p], Awaited(p), Awaited(q))
    BY <1>1 DEF StoredAgreement
  <2> QED BY <1>1, <1>2, <1>3, <2>1, DecryptAgrees
<1>5. h \in Header /\ h.dh_pub < nextDh
  BY <1>1, <1>3, EnvelopeFacts DEF WireBelow
<1>6. Below(z, After(z, nextDh)) /\ InStep(z)
  <2> HIDE DEF h, key
  <2> QED BY <1>1, <1>2, <1>3, <1>5, DecryptBelow
<1>7. p \notin overflowed => CacheRight(r, wire[q])
  BY <1>1 DEF StoredAgreement
<1> HIDE DEF z, out
<1>8. Drew(z) = After(z, nextDh) /\ Drew(z) \in DhKey /\ nextDh <= Drew(z)
  BY <1>1 DEF Drew, After, DhKey
<1> QED BY <1>1, <1>2, <1>4, <1>6, <1>7, <1>8 DEF z, out

\* Nothing of this happens before there is a session, and a responder without
\* one opens with the state it holds.
LEMMA HandedLater ==
    ASSUME StoredInv, StoredHandshake, rolledBack = {},
           NEW p \in Party, NEW i \in 1 .. Len(wire[Peer(p)]), HostActs(p, i)
    PROVE  Initiator \in established /\ Opener(p) = ratchet[p]
<1>1. Peer(p) \in Party /\ ratchet[p] \in Copies(p)
  BY StoredFacts
<1>2. Initiator \in established
  <2>1. ASSUME Initiator \notin established
        PROVE  FALSE
    <3>1. wire[Peer(p)] = <<>>
      BY <1>1, <2>1, StoredQuiet
    <3> QED BY <3>1
  <2> QED BY <2>1
<1>3. p \notin established => p = Responder
  BY DEF HostActs
<1>4. Opener(p) = ratchet[p]
  BY <1>1, <1>3 DEF Opener, StoredHandshake
<1> QED BY <1>2, <1>4

\* As long as nothing is lost, a host acts on awaited messages only: an enclave
\* refuses the others, and the app is not handed them.
LEMMA ActsOnAwaited ==
    ASSUME StoredInv, EnclaveInv, Steady', NEW p \in Party, NEW i \in 1 .. Len(wire[Peer(p)]),
           HostHanded(p, i)
    PROVE  Steady /\ (i \in Awaited(p) \/ (host = "enclave" /\ ~WillOpen(p, i)))
<1>1. HostActs(p, i) /\ HandedOver(p, i, WillOpen(p, i)) /\ TypeOK
  BY HostHandedActs, HostVerdict, StoredFacts
<1>2. /\ Arrives(p, i) /\ host' = host /\ rolledBack' = rolledBack
      /\ WillOpen(p, i) /\ p \notin rolledBack \cup overflowed => wire[Peer(p)][i].accepts = 0
  BY <1>1 DEF HostActs, HandedOver
<1>3. CASE host = "enclave"
  <2>1. Steady /\ rolledBack = {} /\ overflowed = {}
    BY <1>2, <1>3 DEF Steady, EnclaveInv
  <2>2. WillOpen(p, i) => wire[Peer(p)][i].accepts = 0
    BY <1>2, <2>1
  <2> QED BY <1>3, <2>1, <2>2 DEF Awaited
<1>4. CASE host # "enclave"
  <2>1. duplicates' = 0
    BY <1>2, <1>4 DEF Steady
  <2>2. duplicates = 0 /\ wire[Peer(p)][i].copies = 0
    BY <1>1, <1>2, <2>1 DEF Arrives, TypeOK
  <2> QED BY <1>2, <1>4, <2>2 DEF Steady, Awaited
<1> QED BY <1>3, <1>4

\* What a host that was handed a message no longer awaits.
LEMMA AwaitsLess ==
    ASSUME StoredInv, NEW p \in Party, NEW i \in 1 .. Len(wire[Peer(p)]), HostActs(p, i)
    PROVE  /\ Awaited(p)' \subseteq Awaited(p)
           /\ WillOpen(p, i) \/ host # "enclave" => Awaited(p)' \subseteq Awaited(p) \ {i}
<1> DEFINE q == Peer(p)
           ok == WillOpen(p, i)
<1>1. TypeOK /\ q \in Party
  BY StoredFacts
<1>2. ok \in BOOLEAN /\ Handed(p, i, ok) /\ host' = host
  BY DEF HostActs
<1> HIDE DEF ok
<1>3. /\ Len(wire'[q]) = Len(wire[q])
      /\ \A j \in 1 .. Len(wire[q]) :
            /\ wire[q][j].copies \in Nat
            /\ wire'[q][j].copies = IF j = i THEN wire[q][j].copies + 1 ELSE wire[q][j].copies
            /\ wire'[q][j].accepts =
                 IF j = i /\ ok THEN wire[q][j].accepts + 1 ELSE wire[q][j].accepts
  BY <1>1, <1>2, HandedMessages, HandedFacts
<1>4. \A j \in 1 .. Len(wire[q]) : wire[q][j].accepts \in Nat
  BY <1>1, WireTypes
<1>5. CASE host = "enclave"
  <2>1. /\ Awaited(p)' = {j \in 1 .. Len(wire'[q]) : wire'[q][j].accepts = 0}
        /\ Awaited(p) = {j \in 1 .. Len(wire[q]) : wire[q][j].accepts = 0}
    BY <1>2, <1>5 DEF Awaited
  <2>2. ASSUME NEW j \in Awaited(p)'
        PROVE  j \in Awaited(p) /\ (ok => j # i)
    <3>1. j \in 1 .. Len(wire[q]) /\ wire'[q][j].accepts = 0
      BY <1>3, <2>1, <2>2
    <3>2. /\ wire[q][j].accepts \in Nat
          /\ wire'[q][j].accepts =
               IF j = i /\ ok THEN wire[q][j].accepts + 1 ELSE wire[q][j].accepts
      BY <1>3, <1>4, <3>1
    <3>3. wire[q][j].accepts = 0 /\ ~(j = i /\ ok)
      BY <3>1, <3>2
    <3> QED BY <2>1, <3>1, <3>3
  <2> QED BY <1>5, <2>2 DEF ok
<1>6. CASE host # "enclave"
  <2>1. /\ Awaited(p)' = {j \in 1 .. Len(wire'[q]) : wire'[q][j].copies = 0}
        /\ Awaited(p) = {j \in 1 .. Len(wire[q]) : wire[q][j].copies = 0}
    BY <1>2, <1>6 DEF Awaited
  <2>2. ASSUME NEW j \in Awaited(p)'
        PROVE  j \in Awaited(p) \ {i}
    <3>1. j \in 1 .. Len(wire[q]) /\ wire'[q][j].copies = 0
      BY <1>3, <2>1, <2>2
    <3>2. /\ wire[q][j].copies \in Nat
          /\ wire'[q][j].copies = IF j = i THEN wire[q][j].copies + 1 ELSE wire[q][j].copies
      BY <1>3, <3>1
    <3>3. wire[q][j].copies = 0 /\ j # i
      BY <3>1, <3>2
    <3> QED BY <2>1, <3>1, <3>3
  <2> QED BY <2>2
<1> QED BY <1>5, <1>6

\* Session::decrypt and Session::respond, in both hosts.
LEMMA HostHandedAgree ==
    ASSUME StoredInv, EnclaveInv, StoredAgreeInv,
           NEW p \in Party, NEW i \in 1 .. Len(wire[Peer(p)]), HostHanded(p, i)
    PROVE  StoredAgreeInv'
<1> SUFFICES ASSUME Steady'
             PROVE  StoredEnds' /\ StoredHandshake' /\ StoredAgreement'
  BY DEF StoredAgreeInv
<1> DEFINE q == Peer(p)
           ok == WillOpen(p, i)
           m == wire[q][i]
           out == Decrypt(ratchet[p], m.header, m.key, nextDh)
<1>1. HostActs(p, i) /\ Steady /\ (i \in Awaited(p) \/ (host = "enclave" /\ ~ok))
  BY HostHandedActs, ActsOnAwaited
<1>2. StoredEnds /\ StoredHandshake /\ StoredAgreement /\ rolledBack = {}
  BY <1>1 DEF StoredAgreeInv, Steady
<1>3. Initiator \in established /\ Opener(p) = ratchet[p]
  BY <1>1, <1>2, HandedLater
<1>4. /\ q \in Party /\ q # p /\ Peer(q) = p /\ \A x \in Party : x = p \/ x = q
      /\ TypeOK /\ wire[p] \in Seq(Envelope) /\ wire[q] \in Seq(Envelope)
      /\ Awaited(p) \in SUBSET (1 .. Len(wire[q])) /\ Awaited(q) \in SUBSET (1 .. Len(wire[p]))
      /\ nextDh \in DhKey /\ nextDh \in Nat /\ ratchet[p] \in Copies(p)
  BY StoredFacts
<1>5. /\ ok \in BOOLEAN /\ Arrives(p, i) /\ Handed(p, i, ok)
      /\ UNCHANGED <<host, disk, rolledBack>>
      /\ \A x \in Party : x # p => ratchet'[x] = ratchet[x] /\ pending'[x] = pending[x]
      /\ ok => /\ ratchet'[p] = out.state /\ nextDh' = Drew(out.state)
               /\ established' = established \cup {p} /\ owed' = owed \cup {p}
      /\ ~ok => /\ UNCHANGED <<established, pending, owed>>
                /\ \/ ratchet'[p] = ratchet[p] /\ nextDh' \in {nextDh, Drew(out.state)}
                   \/ p \in established /\ ratchet'[p] = out.state /\ nextDh' = Drew(out.state)
                /\ host = "enclave" => UNCHANGED <<ratchet, nextDh>>
      /\ overflowed \subseteq overflowed'
  BY <1>1, <1>3 DEF HostActs
<1>6. /\ Awaited(p)' \subseteq Awaited(p)
      /\ ok \/ host # "enclave" => Awaited(p)' \subseteq Awaited(p) \ {i}
  BY <1>1, AwaitsLess
<1>7. /\ Copies(p)' \subseteq Copies(p) \cup {ratchet'[p]} /\ Copies(q)' = Copies(q)
      /\ ~ok /\ ratchet'[p] = ratchet[p] => Copies(p)' = Copies(p)
  <2> HIDE DEF ok, out
  <2>1. Copies(q)' = Copies(q)
    BY <1>4, <1>5 DEF Copies
  <2>2. owed' = owed \/ owed' = owed \cup {p}
    BY <1>5
  <2>3. Copies(p)' \subseteq Copies(p) \cup {ratchet'[p]}
    BY <1>5, <2>2 DEF Copies
  <2>4. ~ok /\ ratchet'[p] = ratchet[p] => Copies(p)' = Copies(p)
    BY <1>5 DEF Copies
  <2> QED BY <2>1, <2>3, <2>4
<1>8. /\ Below(ratchet[p], nextDh) /\ InStep(ratchet[p]) /\ WellFormed(ratchet[p])
      /\ p \notin overflowed => CacheRight(ratchet[p], wire[q])
      /\ \A s \in Copies(q) : Agrees(ratchet[p], s, wire[q], wire[p], Awaited(p), Awaited(q))
  BY <1>2, <1>3, <1>4, CopyFacts DEF StoredEnds, StoredAgreement
<1>9. StoredEnds' /\ StoredAgreement'
  <2>1. CASE host = "enclave" /\ ~ok
    <3>1. ratchet'[p] = ratchet[p] /\ nextDh' = nextDh /\ nextDh <= nextDh
      BY <1>4, <1>5, <2>1
    <3>2. p \notin overflowed' => CacheRight(ratchet[p], wire[q])
      BY <1>5, <1>8
    <3>3. Awaited(p) \in SUBSET Awaited(p) /\ Copies(p)' \subseteq Copies(p) \cup {ratchet[p]}
      BY <1>7, <3>1
    <3>4. Handed(p, i, ok) /\ host' = host /\ overflowed \subseteq overflowed'
      BY <1>5
    <3>5. nextDh' \in DhKey /\ nextDh <= nextDh' /\ Below(ratchet[p], nextDh')
      BY <1>4, <1>8, <3>1
    <3>6. /\ InStep(ratchet[p]) /\ Copies(q)' \subseteq Copies(q)
          /\ Awaited(p)' \subseteq Awaited(p)
          /\ \A s \in Copies(q) : Agrees(ratchet[p], s, wire[q], wire[p], Awaited(p), Awaited(q))
      BY <1>6, <1>7, <1>8
    <3>7. ok \in BOOLEAN
      BY <1>5
    <3> HIDE DEF ok, out, m
    <3> QED BY <1>2, <1>3, <3>2, <3>3, <3>4, <3>5, <3>6, <3>7, StoredHandAgree
  <2>2. CASE ok \/ host # "enclave"
    <3>1. i \in Awaited(p) /\ Awaited(p)' \subseteq Awaited(p) \ {i}
      BY <1>1, <1>6, <2>2
    <3>2. /\ \A s \in Copies(q) :
                Agrees(out.state, s, wire[q], wire[p], Awaited(p) \ {i}, Awaited(q))
          /\ Drew(out.state) \in DhKey /\ nextDh <= Drew(out.state)
          /\ Below(out.state, Drew(out.state)) /\ InStep(out.state)
          /\ p \notin overflowed => CacheRight(out.state, wire[q])
      BY <1>2, <1>3, <3>1, AwaitedAgrees
    <3> HIDE DEF ok, out, m
    <3>3. \A s \in Copies(q) :
             Agrees(ratchet[p], s, wire[q], wire[p], Awaited(p) \ {i}, Awaited(q))
      <4>1. SameMessages(wire[p], wire[p]) /\ SameMessages(wire[q], wire[q])
        BY DEF SameMessages
      <4>2. Awaited(p) \ {i} \in SUBSET Awaited(p) /\ Awaited(q) \in SUBSET Awaited(q)
        OBVIOUS
      <4> QED BY <1>4, <1>8, <4>1, <4>2, AgreesOnFewer
    <3>4. nextDh' \in {nextDh, Drew(out.state)}
      BY <1>5
    <3>5. nextDh' \in DhKey /\ nextDh <= nextDh'
      BY <1>4, <3>2, <3>4
    <3>6. \/ ratchet'[p] = ratchet[p]
          \/ ratchet'[p] = out.state /\ nextDh' = Drew(out.state)
      BY <1>5
    <3>7. Below(ratchet'[p], nextDh') /\ InStep(ratchet'[p])
      <4>1. Below(ratchet[p], nextDh')
        BY <1>4, <1>8, <3>5, BelowLater
      <4> QED BY <1>8, <3>2, <3>6, <4>1
    <3>8. /\ \A s \in Copies(q) :
                Agrees(ratchet'[p], s, wire[q], wire[p], Awaited(p) \ {i}, Awaited(q))
          /\ p \notin overflowed' => CacheRight(ratchet'[p], wire[q])
      BY <1>5, <1>8, <3>2, <3>3, <3>6
    <3>9. Awaited(p) \ {i} \in SUBSET Awaited(p)
      OBVIOUS
    <3>10. Handed(p, i, ok) /\ ok \in BOOLEAN /\ host' = host /\ overflowed \subseteq overflowed'
      BY <1>5
    <3>11. Copies(p)' \subseteq Copies(p) \cup {ratchet'[p]} /\ Copies(q)' \subseteq Copies(q)
      BY <1>7
    <3> QED BY <1>2, <1>3, <3>1, <3>5, <3>7, <3>8, <3>9, <3>10, <3>11, StoredHandAgree
  <2> QED BY <1>5, <2>1, <2>2
<1>10. StoredHandshake'
  <2> HIDE DEF ok, out, m
  <2>1. /\ Initiator \in Party /\ Responder \in Party /\ Initiator # Responder
        /\ Peer(Initiator) = Responder
    BY PartyAssumption DEF Party, Peer
  <2>2. /\ Len(wire'[Responder]) = Len(wire[Responder])
        /\ Len(wire'[Initiator]) = Len(wire[Initiator])
        /\ \A j \in 1 .. Len(wire[Initiator]) :
              wire'[Initiator][j].prekey = wire[Initiator][j].prekey
    BY <1>4, <1>5, <2>1, HandedMessages DEF SameMessages
  <2>3. wire'[Responder] = <<>> => wire[Responder] = <<>> /\ p # Initiator
    <3>1. wire[Responder] \in Seq(Envelope)
      BY <1>4, <2>1
    <3>2. ASSUME wire'[Responder] = <<>>
          PROVE  wire[Responder] = <<>>
      BY <2>2, <3>1, <3>2
    <3>3. ASSUME wire[Responder] = <<>>, p = Initiator
          PROVE  FALSE
      BY <2>1, <3>3
    <3> QED BY <3>2, <3>3
  <2>4. Initiator \in established'
    BY <1>3, <1>5
  <2>5. ASSUME Responder \notin established'
        PROVE  Copies(Responder)' = Copies(Responder) /\ Responder \notin established
    <3>1. CASE p = Responder
      <4>1. ~ok /\ p \notin established
        BY <1>5, <2>5, <3>1
      <4> QED BY <1>5, <1>7, <3>1, <4>1
    <3>2. CASE p # Responder
      BY <1>4, <1>5, <1>7, <2>1, <2>5, <3>2
    <3> QED BY <3>1, <3>2
  <2>6. ASSUME NEW y \in Party, y \notin owed'
        PROVE  disk'[y].session = (y \in established') /\ disk'[y].pending = pending'[y]
    <3>1. CASE ~ok
      BY <1>2, <1>5, <2>6, <3>1 DEF StoredHandshake
    <3>2. CASE ok
      <4>1. y # p /\ y \notin owed /\ (y \in established') = (y \in established)
        BY <1>5, <2>6, <3>2
      <4> QED BY <1>2, <1>5, <4>1 DEF StoredHandshake
    <3> QED BY <1>5, <3>1, <3>2
  <2>7. ASSUME wire'[Responder] = <<>>
        PROVE  pending'[Initiator] /\ \A j \in 1 .. Len(wire'[Initiator]) : wire'[Initiator][j].prekey
    <3>1. pending'[Initiator] = pending[Initiator]
      BY <1>5, <2>1, <2>3, <2>7
    <3> QED BY <1>2, <1>3, <2>2, <2>3, <2>7, <3>1 DEF StoredHandshake
  <2> QED BY <1>2, <2>4, <2>5, <2>6, <2>7 DEF StoredHandshake
<1> QED BY <1>9, <1>10

\* No step breaks the agreement.
LEMMA StoredNextAgree ==
    StoredInv /\ EnclaveInv /\ StoredAgreeInv /\ [StoredNext]_<<vars, storedVars>>
        => StoredAgreeInv'
<1> SUFFICES ASSUME StoredInv, EnclaveInv, StoredAgreeInv, [StoredNext]_<<vars, storedVars>>
             PROVE  StoredAgreeInv'
  OBVIOUS
<1>1. CASE StoredInitiate
  BY <1>1, StoredInitiateAgree
<1>2. ASSUME NEW p \in Party, StoredSend(p)
      PROVE  StoredAgreeInv'
  BY <1>2, StoredSendAgree
<1>3. ASSUME NEW p \in Party, NEW i \in 1 .. Len(wire[Peer(p)]), HostHanded(p, i)
      PROVE  StoredAgreeInv'
  BY <1>3, HostHandedAgree
<1>4. ASSUME NEW p \in Party, Persist(p)
      PROVE  StoredAgreeInv'
  BY <1>4, PersistAgree
<1>5. ASSUME NEW p \in Party, Restart(p)
      PROVE  StoredAgreeInv'
  BY <1>5, RestartAgree
<1>6. CASE UNCHANGED <<vars, storedVars>>
  <2>1. UNCHANGED <<established, ratchet, pending, nextDh, wire, duplicates, overflowed,
                    host, disk, owed, rolledBack>>
    BY <1>6 DEF vars, storedVars
  <2>2. \A p \in Party : Copies(p)' \subseteq Copies(p)
    BY <2>1 DEF Copies
  <2>3. Steady' = Steady
    BY <2>1 DEF Steady
  <2>4. StoredHandshake => \A p \in Party : p \notin owed' =>
           disk'[p].session = (p \in established) /\ disk'[p].pending = pending[p]
    BY <2>1 DEF StoredHandshake
  <2>5. StoredEnds /\ StoredHandshake /\ StoredAgreement =>
           StoredEnds' /\ StoredHandshake' /\ StoredAgreement'
    BY <2>1, <2>2, <2>4, FewerCopiesAgree
  <2> QED BY <2>3, <2>5 DEF StoredAgreeInv
<1> QED BY <1>1, <1>2, <1>3, <1>4, <1>5, <1>6, StoredSteps

\* Kills that lose no operation keep the agreement on the keys: whatever an end
\* continues from, what memory holds or what _persistSession wrote last, every
\* message that is still to come is within its reach - in the app as long as the
\* network duplicates nothing, in the enclave whatever it duplicates.
THEOREM CopiesAgree == StoredSpec => []StoredAgreeInv
<1>1. StoredInit => StoredAgreeInv
  BY StoredInitAgree
<1>2. StoredInv /\ EnclaveInv /\ StoredAgreeInv /\ [StoredNext]_<<vars, storedVars>>
        => StoredAgreeInv'
  BY StoredNextAgree
<1> QED BY <1>1, <1>2, StoredInvariance, EnclaveKeepsNoDamage, PTL DEF StoredSpec

-----------------------------------------------------------------------------
(* What the agreement gives.                                               *)

\* A first copy that is refused was handed to the host in that step.
LEMMA RefusedIsHanded ==
    ASSUME StoredInv, [StoredNext]_<<vars, storedVars>>,
           NEW p \in Party, NEW i \in 1 .. Len(wire[Peer(p)]), FirstCopyRefused(p, i)
    PROVE  HostHanded(p, i) /\ ~WillOpen(p, i)
<1>1. TypeOK /\ Peer(p) \in Party
  BY StoredFacts
<1>2. wire'[Peer(p)][i] # wire[Peer(p)][i]
  BY DEF FirstCopyRefused
<1>3. CASE wire' = wire
  BY <1>2, <1>3
<1>4. CASE StoredInitiate
  BY <1>3, <1>4 DEF StoredInitiate, Initiate
<1>5. ASSUME NEW q \in Party, StoredSend(q)
      PROVE  FALSE
  BY <1>1, <1>2, <1>5, SendOpens DEF StoredSend
<1>6. ASSUME NEW q \in Party, NEW j \in 1 .. Len(wire[Peer(q)]), HostHanded(q, j)
      PROVE  HostHanded(p, i) /\ ~WillOpen(p, i)
  <2>1. WillOpen(q, j) \in BOOLEAN /\ Handed(q, j, WillOpen(q, j))
    BY <1>6, HostHandedActs DEF HostActs
  <2>2. p = q /\ i = j /\ ~WillOpen(q, j)
    BY <1>1, <2>1, CountedIsHanded
  <2> QED BY <1>6, <2>2
<1>7. ASSUME NEW q \in Party, Persist(q) \/ Restart(q)
      PROVE  wire' = wire
  BY <1>7 DEF Persist, Restart, vars
<1>8. UNCHANGED <<vars, storedVars>> => wire' = wire
  BY DEF vars
<1> QED BY <1>3, <1>4, <1>5, <1>6, <1>7, <1>8, StoredSteps

\* A first copy is refused for a limit, as long as no operation is lost and the
\* one-time prekey is there.
LEMMA RefusedForALimit ==
    ASSUME StoredInv, EnclaveInv, StoredAgreeInv, Steady, [StoredNext]_<<vars, storedVars>>,
           NEW p \in Party, NEW i \in 1 .. Len(wire[Peer(p)]), FirstCopyRefused(p, i),
           p \notin overflowed, ~(p \notin established /\ withOpk /\ ~opkHeld)
    PROVE  \/ GapTooLong(ratchet[p], wire[Peer(p)][i].header)
           \/ NoRoom(ratchet[p], wire[Peer(p)][i].header)
<1> DEFINE m == wire[Peer(p)][i]
           out == Decrypt(ratchet[p], m.header, m.key, nextDh)
<1>1. HostHanded(p, i) /\ ~WillOpen(p, i)
  BY RefusedIsHanded
<1>2. HostActs(p, i)
  BY <1>1, HostHandedActs
<1>3. StoredEnds /\ StoredHandshake /\ StoredAgreement /\ rolledBack = {}
  BY DEF StoredAgreeInv, Steady
<1>4. Initiator \in established /\ Opener(p) = ratchet[p]
  BY <1>2, <1>3, HandedLater
<1>5. i \in Awaited(p)
  <2>1. TypeOK /\ Peer(p) \in Party /\ WillOpen(p, i) \in BOOLEAN /\ Handed(p, i, WillOpen(p, i))
    BY <1>2, StoredFacts DEF HostActs
  <2>2. wire'[Peer(p)][i].accepts = m.accepts
    BY <1>1, <2>1, HandedFacts
  <2>3. m.copies = 0 /\ m.accepts = 0
    BY <2>2 DEF FirstCopyRefused
  <2> QED BY <2>3 DEF Awaited
<1>6. out.ok \/ GapTooLong(ratchet[p], m.header) \/ NoRoom(ratchet[p], m.header)
  BY <1>3, <1>4, <1>5, AwaitedAgrees
<1>7. p \notin established => ~HandshakeFails(m)
  <2> SUFFICES ASSUME p \notin established
               PROVE  m.prekey
    BY DEF HandshakeFails
  <2>1. p = Responder /\ Peer(Responder) = Initiator
    BY <1>2, PartyAssumption DEF HostActs, Peer
  <2>2. wire[Responder] = <<>>
    BY <1>3, <2>1, StoredQuiet
  <2> QED BY <1>3, <2>1, <2>2 DEF StoredHandshake
<1>8. ~out.ok
  <2>1. ~out.ok \/ (p \notin established /\ HandshakeFails(m))
    BY <1>1, <1>2, <1>4 DEF HostActs
  <2> QED BY <1>7, <2>1
<1> QED BY <1>6, <1>8

\* The reasons for which a step may refuse the first copy of a message.
RefusedForStoredLimits ==
    \A p \in Party : \A i \in 1 .. Len(wire[Peer(p)]) :
        FirstCopyRefused(p, i) /\ duplicates = 0 /\ rolledBack = {} =>
            \/ GapTooLong(ratchet[p], wire[Peer(p)][i].header)
            \/ NoRoom(ratchet[p], wire[Peer(p)][i].header)
            \/ p \in overflowed
            \/ p \notin established /\ withOpk /\ ~opkHeld

\* A restart that loses no operation cannot be told from outside: whichever
\* party is killed whenever its state is stored, the first copy of a message is
\* refused only for a gap above MAX_SKIP, a cache that cannot take the keys in
\* front of it, or a one-time prekey that a refusal used up.
THEOREM RestartsUnseen == StoredSpec => RestartIsInvisible
<1>1. StoredInv /\ EnclaveInv /\ StoredAgreeInv /\ [StoredNext]_<<vars, storedVars>>
        => RefusedForStoredLimits
  <2> SUFFICES ASSUME StoredInv, EnclaveInv, StoredAgreeInv, [StoredNext]_<<vars, storedVars>>,
                      NEW p \in Party, NEW i \in 1 .. Len(wire[Peer(p)]),
                      FirstCopyRefused(p, i), duplicates = 0, rolledBack = {},
                      p \notin overflowed, ~(p \notin established /\ withOpk /\ ~opkHeld)
               PROVE  \/ GapTooLong(ratchet[p], wire[Peer(p)][i].header)
                      \/ NoRoom(ratchet[p], wire[Peer(p)][i].header)
    BY DEF RefusedForStoredLimits
  <2>1. Steady
    BY DEF Steady
  <2> QED BY <2>1, RefusedForALimit
<1> QED BY <1>1, StoredInvariance, EnclaveKeepsNoDamage, CopiesAgree, PTL
       DEF StoredSpec, RestartIsInvisible, RefusedForStoredLimits

\* A fresh responder opens every PreKey message within the limits: it turns to
\* the first chain and skips to the message's number.
LEMMA FirstMessageOpens ==
    ASSUME NEW m \in Envelope, m.prekey, OfFirstChain(m),
           m.header.n <= MAX_SKIP, m.header.n <= MAX_SKIPPED_CACHE, NEW fresh \in DhKey
    PROVE  Decrypt(InitResponder(SPK), m.header, m.key, fresh).ok
<1> DEFINE b == InitResponder(SPK)
           h == m.header
           t == DhRatchet(b, h.dh_pub, fresh)
<1>1. h \in Header /\ h.dh_pub \in DhKey /\ h.n \in Nat /\ h.pn \in Nat
  BY DEF Envelope, Header
<1>2. SPK \in DhKey
  BY DEF SPK, DhKey
<1>3. WellFormed(b)
  BY <1>2, InitWellFormed
<1>4. /\ b.dh_self = SPK /\ b.dh_remote = None /\ b.root_key = <<>> /\ b.chain_recv = None
      /\ DOMAIN b.skipped = {}
  BY DEF InitResponder, NoKeys
<1> HIDE DEF b
<1>5. SkipMessageKeys(b, h.pn).state = b /\ SkipMessageKeys(b, h.pn).ok = TRUE
  BY <1>4 DEF SkipMessageKeys, Outcome
<1>6. Decrypt(b, h, m.key, fresh) = Finish(t, h, m.key)
  <2>1. <<h.dh_pub, h.n>> \notin DOMAIN b.skipped /\ b.dh_remote # h.dh_pub
    BY <1>1, <1>4, NoneAssumption
  <2> QED BY <1>5, <2>1, DecryptWays
<1>7. /\ t.chain_recv # None /\ t.chain_recv.pos = 0 /\ t.n_recv = 0
      /\ t.chain_recv.id = <<dh(SPK, h.dh_pub)>> /\ DOMAIN t.skipped = {}
  <2> HIDE DEF h
  <2>1. /\ t.chain_recv # None /\ t.chain_recv.pos = 0 /\ t.n_recv = 0
        /\ t.chain_recv.id = Append(b.root_key, dh(b.dh_self, h.dh_pub))
        /\ t.skipped = b.skipped
    BY <1>1, <1>3, DhRatchetValues
  <2>2. Append(<<>>, dh(SPK, h.dh_pub)) = <<dh(SPK, h.dh_pub)>>
    OBVIOUS
  <2> QED BY <1>4, <2>1, <2>2
<1>8. WellFormed(t)
  BY <1>1, <1>3, DhRatchetFields
<1> HIDE DEF t
<1> DEFINE ready == SkipMessageKeys(t, h.n)
           q == ready.state
<1>9. /\ ready.ok \in BOOLEAN /\ WellFormed(q) /\ MovedOn(t, q)
      /\ ready.ok => q.n_recv = h.n /\ InStepRecv(q)
      /\ ~ready.ok => h.n - t.n_recv > MAX_SKIP
                        \/ Cardinality(DOMAIN t.skipped) + (h.n - t.n_recv) > MAX_SKIPPED_CACHE
  <2>1. InStepRecv(t) /\ t.n_recv <= h.n
    BY <1>1, <1>7 DEF InStepRecv
  <2> HIDE DEF h
  <2> QED BY <1>1, <1>7, <1>8, <2>1, SkipMoves
<1>10. ready.ok
  <2>1. Cardinality(DOMAIN t.skipped) = 0
    BY <1>7, FS_EmptySet
  <2> HIDE DEF ready
  <2> QED BY <1>1, <1>7, <1>9, <2>1, SkipAssumption
<1> HIDE DEF ready, q
<1>11. q.chain_recv # None /\ q.chain_recv.id = t.chain_recv.id /\ q.chain_recv.pos = h.n
  BY <1>7, <1>9, <1>10 DEF MovedOn, InStepRecv
<1>12. Finish(t, h, m.key) = OpenNext(q, m.key)
  BY <1>10 DEF Finish, ready, q
<1>13. OpenNext(q, m.key).ok = (KeyOf(q.chain_recv) = m.key)
  BY <1>9, <1>11, OpenNextFields
<1>14. dh(SPK, h.dh_pub) = dh(h.dh_pub, SPK)
  BY DEF dh
<1>15. KeyOf(q.chain_recv) = m.key
  BY <1>7, <1>11, <1>14 DEF KeyOf, OfFirstChain
<1> QED BY <1>6, <1>12, <1>13, <1>15 DEF b

\* What an error may be due to, in an enclave.
EnclaveRefuses ==
    host = "enclave" =>
        /\ CopyEstablishes
        /\ \A p \in Party : \A i \in 1 .. Len(wire[Peer(p)]) :
              FirstCopyRefused(p, i) /\ rolledBack = {} =>
                  \/ GapTooLong(ratchet[p], wire[Peer(p)][i].header)
                  \/ NoRoom(ratchet[p], wire[Peer(p)][i].header)

\* Enclave::decrypt and Enclave::respond undo what an error did: every PreKey
\* message within the limits establishes the session of a responder that has
\* none, and the limits are the only reason to refuse a first copy, whatever the
\* network duplicated before.
THEOREM EnclaveUndoes == StoredSpec => EnclaveErrorsUndone
<1>1. StoredInv /\ EnclaveInv /\ StoredAgreeInv /\ [StoredNext]_<<vars, storedVars>>
        => EnclaveRefuses
  <2> SUFFICES ASSUME StoredInv, EnclaveInv, StoredAgreeInv, [StoredNext]_<<vars, storedVars>>,
                      host = "enclave"
               PROVE  EnclaveRefuses
    BY DEF EnclaveRefuses
  <2>1. /\ overflowed = {} /\ (Responder \notin established => opkHeld = withOpk)
        /\ \A i \in 1 .. Len(wire[Initiator]) : OfFirstChain(wire[Initiator][i])
        /\ withOpk \in BOOLEAN /\ opkHeld \in BOOLEAN
    BY DEF EnclaveInv, StoredInv, StoredTypes, TypeOK
  <2>2. /\ Responder \in Party /\ Initiator \in Party /\ Peer(Responder) = Initiator
    BY PartyAssumption DEF Party, Peer
  <2>3. ASSUME NEW i \in 1 .. Len(wire[Initiator]), FirstCopyRefused(Responder, i),
               Responder \notin established, wire[Initiator][i].prekey,
               wire[Initiator][i].header.n <= MAX_SKIP,
               wire[Initiator][i].header.n <= MAX_SKIPPED_CACHE
        PROVE  FALSE
    <3> DEFINE m == wire[Initiator][i]
    <3>1. i \in 1 .. Len(wire[Peer(Responder)])
      BY <2>2
    <3>2. ~WillOpen(Responder, i)
      BY <2>2, <2>3, <3>1, RefusedIsHanded
    <3>3. ~HandshakeFails(m)
      BY <2>1, <2>3 DEF HandshakeFails
    <3>4. m \in Envelope /\ nextDh \in DhKey
      BY <2>2, StoredFacts, WireTypes
    <3>5. Decrypt(InitResponder(SPK), m.header, m.key, nextDh).ok
      BY <2>1, <2>3, <3>4, FirstMessageOpens
    <3> QED BY <2>2, <2>3, <3>2, <3>3, <3>5 DEF WillOpen
  <2>4. CopyEstablishes
    BY <2>3 DEF CopyEstablishes
  <2>5. ASSUME NEW p \in Party, NEW i \in 1 .. Len(wire[Peer(p)]),
               FirstCopyRefused(p, i), rolledBack = {}
        PROVE  \/ GapTooLong(ratchet[p], wire[Peer(p)][i].header)
               \/ NoRoom(ratchet[p], wire[Peer(p)][i].header)
    <3>1. Steady /\ p \notin overflowed
      BY <2>1, <2>5 DEF Steady
    <3>2. p \notin established => p = Responder
      <4>1. HostActs(p, i)
        BY <2>5, RefusedIsHanded, HostHandedActs
      <4> QED BY <4>1 DEF HostActs
    <3>3. ~(p \notin established /\ withOpk /\ ~opkHeld)
      BY <2>1, <3>2
    <3> QED BY <2>5, <3>1, <3>3, RefusedForALimit
  <2> QED BY <2>4, <2>5 DEF EnclaveRefuses
<1> QED BY <1>1, StoredInvariance, EnclaveKeepsNoDamage, CopiesAgree, PTL
       DEF StoredSpec, EnclaveErrorsUndone, EnclaveRefuses
=============================================================================
