-------------------------- MODULE InboxPollingProofs --------------------------
(***************************************************************************)
(* Theorem about InboxPolling: the window of the next poll covers every    *)
(* inbox in which the relay holds mail, for any length of an epoch, any    *)
(* size of the window, any number of overlapping polls, failures and kills *)
(* and clocks that are off by up to an epoch.                              *)
(***************************************************************************)
EXTENDS InboxPolling, TLAPS

\* The inboxes in which the relay holds mail that it would hand out.
Waiting == {mail[i].inbox : i \in {j \in At("relay") : ~Expired(mail[j])}}

\* In epoch c, an inbox that the documented limits of the window leave behind
\* for good; b is the last epoch in which a poll knew of no earlier one.
Passed(e, c, b) == e < c + 1 - MaxPollEpochs \/ e < b - 1

\* A poll that knows of u skips none of the inboxes W.
Covers(u, c, b, W) == u <= c /\ \A e \in W : e >= u - 1 \/ Passed(e, c, b)

\* Nor does one that knows of the poll p, once p is answered: what waits before
\* p's epoch is in the inboxes it still has to ask for.
WillCover(p, c, b, W) ==
    /\ p.current <= c
    /\ \A e \in W : \/ e >= p.current - 1
                    \/ Passed(e, c, b)
                    \/ \E j \in 1 .. Len(p.inboxes) : p.inboxes[j] = e

\* The clock of a sender is at most one epoch ahead.
BoundInv == \A i \in 1 .. Len(mail) : mail[i].inbox <= Current + 1

PollsInv == \A n \in 1 .. Len(polls) : WillCover(polls[n], Current, blind, Waiting)

\* Every value the next poll can start from: the one in memory, the stored one,
\* and those on their way to the storage.
KnownInv ==
    /\ lastPoll # None => Covers(lastPoll, Current, blind, Waiting)
    /\ stored # None => Covers(stored, Current, blind, Waiting)
    /\ \A j \in 1 .. Len(unwritten) : Covers(unwritten[j], Current, blind, Waiting)

PollInv ==
    /\ TypeOK
    /\ Len(mail) <= MaxMail
    /\ blind <= Current
    /\ BoundInv
    /\ PollsInv
    /\ KnownInv

MailType == [inbox : Epoch, at : Nat, where : Place]
PollType == [current : Epoch, inboxes : Seq(Epoch), got : SUBSET (1 .. MaxMail)]

-----------------------------------------------------------------------------
(* Epochs.                                                                 *)

\* The epoch is a natural number and does not go back; a clock that is off by
\* up to an epoch is in the epoch before, in this one or in the next.
LEMMA EpochFacts ==
    ASSUME NEW n \in Nat
    PROVE  /\ EpochForUnix(n) \in Nat
           /\ EpochForUnix(n) <= EpochForUnix(n + 1)
           /\ \A d \in Skews : n + d >= 0 =>
                 /\ EpochForUnix(n + d) \in Nat
                 /\ EpochForUnix(n) - 1 <= EpochForUnix(n + d)
                 /\ EpochForUnix(n + d) <= EpochForUnix(n) + 1
<1> DEFINE m == INBOX_EPOCH_SECONDS
           x == n \div m
<1>1. m \in Nat \ {0}
  BY InboxAssumption
<1>2. x \in Nat /\ m * x <= n /\ n < m * x + m
  BY <1>1
<1>3. ASSUME NEW k \in Nat, n - m <= k, k <= n + m
      PROVE  /\ k \div m \in Nat /\ x - 1 <= k \div m /\ k \div m <= x + 1
             /\ n <= k => x <= k \div m
  <2> DEFINE y == k \div m
  <2>1. y \in Nat /\ m * y <= k /\ k < m * y + m
    BY <1>1
  <2> HIDE DEF x, y, m
  <2>2. ASSUME y < x - 1
        PROVE  FALSE
    <3>1. m * (y + 2) <= m * x
      BY <1>1, <1>2, <2>1, <2>2
    <3>2. m * (y + 2) = m * y + m + m
      BY <1>1, <2>1
    <3> QED BY <1>1, <1>2, <1>3, <2>1, <3>1, <3>2
  <2>3. ASSUME x + 1 < y
        PROVE  FALSE
    <3>1. m * (x + 2) <= m * y
      BY <1>1, <1>2, <2>1, <2>3
    <3>2. m * (x + 2) = m * x + m + m
      BY <1>1, <1>2
    <3> QED BY <1>1, <1>2, <1>3, <2>1, <3>1, <3>2
  <2>4. ASSUME n <= k, y < x
        PROVE  FALSE
    <3>1. m * (y + 1) <= m * x
      BY <1>1, <1>2, <2>1, <2>4
    <3>2. m * (y + 1) = m * y + m
      BY <1>1, <2>1
    <3> QED BY <1>1, <1>2, <2>1, <2>4, <3>1, <3>2
  <2>5. x - 1 <= y /\ y <= x + 1 /\ (n <= k => x <= y)
    BY <1>2, <2>1, <2>2, <2>3, <2>4
  <2> QED BY <2>1, <2>5 DEF y
<1> HIDE DEF x
<1>4. EpochForUnix(n) = x
  BY DEF EpochForUnix, x
<1>5. x <= EpochForUnix(n + 1)
  <2>1. n + 1 \in Nat /\ n - m <= n + 1 /\ n + 1 <= n + m /\ n <= n + 1
    BY <1>1
  <2> QED BY <1>3, <2>1 DEF EpochForUnix
<1>6. ASSUME NEW d \in Skews, n + d >= 0
      PROVE  /\ EpochForUnix(n + d) \in Nat
             /\ x - 1 <= EpochForUnix(n + d) /\ EpochForUnix(n + d) <= x + 1
  <2>1. d \in (-m) .. m
    BY InboxAssumption
  <2>2. n + d \in Nat /\ n - m <= n + d /\ n + d <= n + m
    BY <1>1, <1>6, <2>1
  <2> QED BY <1>3, <2>2 DEF EpochForUnix
<1> QED BY <1>2, <1>4, <1>5, <1>6

\* The epoch of the client.
LEMMA CurrentFacts ==
    ASSUME TypeOK
    PROVE  now \in Nat /\ Current \in Nat
<1>1. now \in Nat
  BY InboxAssumption DEF TypeOK
<1> QED BY <1>1, EpochFacts DEF Current

\* The window begins at the epoch before the last poll, cut to its size.
LEMMA WindowStart ==
    ASSUME NEW current \in Nat, NEW last \in Nat \cup {None}
    PROVE  /\ FromEpoch(last, current) \in Nat
           /\ \A e \in Nat : /\ e >= (IF last = None THEN current ELSE last) - 1
                             /\ e >= current + 1 - MaxPollEpochs
                             => e >= FromEpoch(last, current)
<1> DEFINE start == (IF last = None THEN current ELSE last) - 1
           from == IF start < 0 THEN 0 ELSE start
<1>1. start \in Int /\ MaxPollEpochs \in Nat
  BY InboxAssumption
<1>2. FromEpoch(last, current)
        = IF current + 1 - from >= MaxPollEpochs THEN current + 1 - MaxPollEpochs ELSE from
  BY DEF FromEpoch
<1> HIDE DEF start
<1>3. from \in Nat
  BY <1>1
<1>4. FromEpoch(last, current) \in Nat
  BY <1>1, <1>2, <1>3
<1>5. \A e \in Nat : e >= start /\ e >= current + 1 - MaxPollEpochs =>
         e >= FromEpoch(last, current)
  BY <1>1, <1>2
<1> QED BY <1>4, <1>5 DEF start

\* inbox_window lists every epoch of its range.
LEMMA WindowFields ==
    ASSUME NEW from \in Nat, NEW to \in Nat
    PROVE  /\ InboxWindow(from, to) \in Seq(Epoch)
           /\ \A e \in from .. to :
                 \E j \in 1 .. Len(InboxWindow(from, to)) : InboxWindow(from, to)[j] = e
<1> DEFINE n == IF from > to THEN 0 ELSE to - from + 1
           w == InboxWindow(from, to)
<1>1. n \in Nat
  OBVIOUS
<1>2. w = [i \in 1 .. n |-> from + i - 1]
  BY DEF InboxWindow
<1> HIDE DEF w
<1>3. \A i \in 1 .. n : from + i - 1 \in Epoch
  BY <1>1 DEF Epoch
<1>4. w \in Seq(Epoch) /\ Len(w) = n
  <2> HIDE DEF n
  <2> QED BY <1>1, <1>2, <1>3
<1>5. ASSUME NEW e \in from .. to
      PROVE  \E j \in 1 .. Len(w) : w[j] = e
  <2>1. e - from + 1 \in 1 .. n /\ from + (e - from + 1) - 1 = e
    OBVIOUS
  <2> HIDE DEF n
  <2>2. w[e - from + 1] = e
    BY <1>2, <2>1
  <2> QED BY <1>4, <2>1, <2>2
<1> QED BY <1>4, <1>5 DEF w

-----------------------------------------------------------------------------
(* Mail.                                                                   *)

\* Mail that moves keeps its inbox and its time, and all else stays.
LEMMA MovedFields ==
    ASSUME TypeOK, NEW ids, NEW where \in Place \ {"relay"}
    PROVE  LET w == Moved(ids, where)
           IN  /\ w \in Seq(MailType) /\ Len(w) = Len(mail)
               /\ \A i \in 1 .. Len(mail) :
                     /\ w[i].inbox = mail[i].inbox /\ w[i].at = mail[i].at
                     /\ i \in ids => w[i].where # "relay"
                     /\ i \notin ids => w[i] = mail[i]
<1> DEFINE w == Moved(ids, where)
<1>1. mail \in Seq(MailType) /\ Len(mail) \in Nat
  BY DEF TypeOK, MailType
<1>2. w = [i \in 1 .. Len(mail) |->
              IF i \in ids THEN [mail[i] EXCEPT !.where = where] ELSE mail[i]]
  BY DEF Moved
<1> HIDE DEF w
<1>3. ASSUME NEW i \in 1 .. Len(mail)
      PROVE  /\ w[i] \in MailType
             /\ w[i].inbox = mail[i].inbox /\ w[i].at = mail[i].at
             /\ i \in ids => w[i].where # "relay"
             /\ i \notin ids => w[i] = mail[i]
  <2>1. mail[i] \in MailType
    BY <1>1
  <2>2. w[i] = IF i \in ids THEN [mail[i] EXCEPT !.where = where] ELSE mail[i]
    BY <1>2
  <2>3. CASE i \in ids
    <3>1. w[i] = [mail[i] EXCEPT !.where = where]
      BY <2>2, <2>3
    <3>2. /\ w[i].inbox = mail[i].inbox /\ w[i].at = mail[i].at /\ w[i].where = where
          /\ w[i] \in MailType
      BY <2>1, <3>1 DEF MailType
    <3> QED BY <2>3, <3>2
  <2>4. CASE i \notin ids
    BY <2>1, <2>2, <2>4
  <2> QED BY <2>3, <2>4
<1>4. w \in Seq(MailType) /\ Len(w) = Len(mail)
  BY <1>1, <1>2, <1>3
<1> QED BY <1>3, <1>4 DEF w

\* Inboxes that wait are epochs, up to the next one.
LEMMA WaitingFacts ==
    ASSUME PollInv
    PROVE  \A e \in Waiting : e \in Nat /\ e <= Current + 1
<1>1. mail \in Seq(MailType)
  BY DEF PollInv, TypeOK, MailType
<1>2. \A i \in 1 .. Len(mail) : mail[i] \in MailType
  BY <1>1
<1>3. \A i \in 1 .. Len(mail) : mail[i].inbox \in Nat /\ mail[i].inbox <= Current + 1
  BY <1>2 DEF MailType, Epoch, PollInv, BoundInv
<1> QED BY <1>3 DEF Waiting, At

\* What a poll covers it covers later, as inboxes are emptied.
LEMMA CoversStays ==
    ASSUME NEW c \in Nat, NEW c1 \in Nat, c <= c1, NEW b \in Nat, NEW b1 \in Nat, b <= b1,
           NEW W, NEW W1 \in SUBSET W, W \subseteq Nat, NEW u \in Nat, Covers(u, c, b, W)
    PROVE  Covers(u, c1, b1, W1)
<1>1. MaxPollEpochs \in Nat
  BY InboxAssumption
<1> QED BY <1>1 DEF Covers, Passed

\* So does one that is under way.
LEMMA WillCoverStays ==
    ASSUME NEW c \in Nat, NEW c1 \in Nat, c <= c1, NEW b \in Nat, NEW b1 \in Nat, b <= b1,
           NEW W, NEW W1 \in SUBSET W, W \subseteq Nat,
           NEW p \in PollType, WillCover(p, c, b, W)
    PROVE  WillCover(p, c1, b1, W1)
<1>1. MaxPollEpochs \in Nat /\ p.current \in Nat
  BY InboxAssumption DEF PollType, Epoch
<1>2. p.current <= c1
  BY <1>1 DEF WillCover
<1>3. \A e \in W : Passed(e, c, b) => Passed(e, c1, b1)
  BY <1>1 DEF Passed
<1> QED BY <1>2, <1>3 DEF WillCover

\* New mail is in the epoch before this one or later.
LEMMA CoversNew ==
    ASSUME NEW c \in Nat, NEW b \in Nat, NEW W, W \subseteq Nat,
           NEW e \in Nat, c - 1 <= e
    PROVE  /\ \A u \in Nat : Covers(u, c, b, W) => Covers(u, c, b, W \cup {e})
           /\ \A p \in PollType : WillCover(p, c, b, W) => WillCover(p, c, b, W \cup {e})
<1>1. ASSUME NEW u \in Nat, Covers(u, c, b, W)
      PROVE  Covers(u, c, b, W \cup {e})
  BY <1>1 DEF Covers
<1>2. ASSUME NEW p \in PollType, WillCover(p, c, b, W)
      PROVE  WillCover(p, c, b, W \cup {e})
  <2>1. p.current \in Nat /\ p.current <= c
    BY <1>2 DEF PollType, Epoch, WillCover
  <2>2. e >= p.current - 1
    BY <2>1
  <2> QED BY <1>2, <2>1, <2>2 DEF WillCover
<1> QED BY <1>1, <1>2

-----------------------------------------------------------------------------
(* The steps.                                                              *)

\* The invariant, taken apart.
LEMMA PollParts ==
    ASSUME PollInv
    PROVE  /\ TypeOK /\ now \in Nat /\ Current \in Nat /\ blind \in Nat /\ blind <= Current
           /\ Waiting \subseteq Nat /\ \A e \in Waiting : e <= Current + 1
           /\ mail \in Seq(MailType) /\ Len(mail) \in Nat /\ Len(mail) <= MaxMail
           /\ lastPoll \in Nat \cup {None} /\ stored \in Nat \cup {None}
           /\ unwritten \in Seq(Nat) /\ polls \in Seq(PollType) /\ Len(polls) <= MaxPolls
           /\ running \in BOOLEAN
<1>1. TypeOK /\ blind <= Current /\ Len(mail) <= MaxMail
  BY DEF PollInv
<1>2. now \in Nat /\ Current \in Nat
  BY <1>1, CurrentFacts
<1>3. Waiting \subseteq Nat /\ \A e \in Waiting : e <= Current + 1
  BY WaitingFacts
<1>4. /\ mail \in Seq(MailType) /\ polls \in Seq(PollType) /\ unwritten \in Seq(Nat)
      /\ blind \in Nat /\ running \in BOOLEAN /\ Len(polls) <= MaxPolls
      /\ lastPoll \in Nat \cup {None} /\ stored \in Nat \cup {None}
  BY <1>1 DEF TypeOK, MailType, PollType, Epoch
<1>5. Len(mail) \in Nat
  BY <1>4
<1> QED BY <1>1, <1>2, <1>3, <1>4, <1>5

\* Where nothing new waits, it is enough that the values come from covering
\* ones.
LEMMA NothingNew ==
    ASSUME PollInv, TypeOK', Len(mail') <= MaxMail,
           now' \in {now, now + 1}, Waiting' \subseteq Waiting, BoundInv',
           blind' \in {blind, Current},
           lastPoll' \in {lastPoll, stored, None} \/ Covers(lastPoll', Current, blind, Waiting),
           stored' = stored \/ Covers(stored', Current, blind, Waiting),
           \A j \in 1 .. Len(unwritten') : Covers(unwritten'[j], Current, blind, Waiting),
           \A n \in 1 .. Len(polls') :
               \/ WillCover(polls'[n], Current, blind, Waiting)
               \/ WillCover(polls'[n], Current', blind', Waiting')
    PROVE  PollInv'
<1>1. /\ TypeOK /\ now \in Nat /\ Current \in Nat /\ blind \in Nat /\ blind <= Current
      /\ Waiting \subseteq Nat
  BY PollParts
<1>2. /\ now' \in Nat /\ Current' \in Nat
      /\ lastPoll' \in Nat \cup {None} /\ stored' \in Nat \cup {None}
      /\ unwritten' \in Seq(Nat) /\ polls' \in Seq(PollType)
  <2>1. now' \in Nat
    BY <1>1
  <2>2. Current' \in Nat
    BY <2>1, EpochFacts DEF Current
  <2>3. /\ lastPoll' \in Nat \cup {None} /\ stored' \in Nat \cup {None}
        /\ unwritten' \in Seq(Nat) /\ polls' \in Seq(PollType)
    BY DEF TypeOK, PollType, Epoch
  <2> QED BY <2>1, <2>2, <2>3
<1>3. Current <= Current'
  <2>1. Current' = EpochForUnix(now') /\ Current = EpochForUnix(now)
    BY DEF Current
  <2>2. EpochForUnix(now) <= EpochForUnix(now + 1)
    BY <1>1, EpochFacts
  <2>3. CASE now' = now
    BY <1>1, <2>1, <2>3
  <2>4. CASE now' = now + 1
    BY <2>1, <2>2, <2>4
  <2> QED BY <2>3, <2>4
<1>4. blind' \in Nat /\ blind <= blind' /\ blind' <= Current'
  BY <1>1, <1>2, <1>3
<1>5. Waiting' \in SUBSET Waiting
  OBVIOUS
<1>6. \A u \in Nat : Covers(u, Current, blind, Waiting) => Covers(u, Current', blind', Waiting')
  BY <1>1, <1>2, <1>3, <1>4, <1>5, CoversStays
<1>7. \A p \in PollType : WillCover(p, Current, blind, Waiting)
                             => WillCover(p, Current', blind', Waiting')
  BY <1>1, <1>2, <1>3, <1>4, <1>5, WillCoverStays
<1>8. PollsInv'
  <2>1. \A n \in 1 .. Len(polls') : polls'[n] \in PollType
    BY <1>2
  <2> QED BY <1>7, <2>1 DEF PollsInv
<1>9. KnownInv'
  <2>1. lastPoll' # None => Covers(lastPoll', Current', blind', Waiting')
    <3>1. lastPoll' # None => Covers(lastPoll', Current, blind, Waiting)
      BY DEF PollInv, KnownInv
    <3> QED BY <1>2, <1>6, <3>1
  <2>2. stored' # None => Covers(stored', Current', blind', Waiting')
    <3>1. stored' # None => Covers(stored', Current, blind, Waiting)
      BY DEF PollInv, KnownInv
    <3> QED BY <1>2, <1>6, <3>1
  <2>3. \A j \in 1 .. Len(unwritten') : Covers(unwritten'[j], Current', blind', Waiting')
    <3>1. \A j \in 1 .. Len(unwritten') : unwritten'[j] \in Nat
      BY <1>2
    <3> QED BY <1>6, <3>1
  <2> QED BY <2>1, <2>2, <2>3 DEF KnownInv
<1> QED BY <1>4, <1>8, <1>9 DEF PollInv

\* Mail that moves away from the relay waits no more; nothing else changes.
LEMMA MovedMail ==
    ASSUME PollInv, now' = now, NEW ids, NEW where \in Place \ {"relay"},
           mail' = Moved(ids, where)
    PROVE  /\ mail' \in Seq(MailType) /\ Len(mail') = Len(mail) /\ BoundInv'
           /\ Waiting' \subseteq Waiting
           /\ \A e \in Waiting' : \E i \in At("relay") \ ids :
                 mail[i].inbox = e /\ ~Expired(mail[i])
<1>1. TypeOK /\ Current' = Current
  BY DEF PollInv, Current
<1>2. /\ mail' \in Seq(MailType) /\ Len(mail') = Len(mail)
      /\ \A i \in 1 .. Len(mail) :
            /\ mail'[i].inbox = mail[i].inbox /\ mail'[i].at = mail[i].at
            /\ i \in ids => mail'[i].where # "relay"
            /\ i \notin ids => mail'[i] = mail[i]
  BY <1>1, MovedFields
<1>3. BoundInv'
  BY <1>1, <1>2 DEF PollInv, BoundInv
<1>4. \A e \in Waiting' : \E i \in At("relay") \ ids : mail[i].inbox = e /\ ~Expired(mail[i])
  <2> SUFFICES ASSUME NEW e \in Waiting'
               PROVE  \E i \in At("relay") \ ids : mail[i].inbox = e /\ ~Expired(mail[i])
    OBVIOUS
  <2>1. PICK i \in 1 .. Len(mail') : /\ mail'[i].where = "relay" /\ e = mail'[i].inbox
                                     /\ ~(mail'[i].at < now' - MailTtl)
    BY DEF Waiting, At, Expired
  <2>2. i \in At("relay") \ ids /\ mail'[i] = mail[i]
    BY <1>2, <2>1 DEF At
  <2> QED BY <2>1, <2>2 DEF Expired
<1>5. Waiting' \subseteq Waiting
  BY <1>4 DEF Waiting
<1> QED BY <1>2, <1>3, <1>4, <1>5

\* Mail that stays waits at most as before, as time passes.
LEMMA SameMail ==
    ASSUME PollInv, now' \in {now, now + 1}, mail' = mail
    PROVE  Waiting' \subseteq Waiting /\ BoundInv'
<1>1. mail \in Seq(MailType) /\ now \in Nat /\ MailTtl \in Nat /\ Current \in Nat
  BY PollParts, InboxAssumption
<1>2. \A i \in 1 .. Len(mail) : mail[i] \in MailType
  BY <1>1
<1>3. \A i \in 1 .. Len(mail) : mail[i].at \in Nat /\ mail[i].inbox \in Nat
  BY <1>2 DEF MailType, Epoch
<1>4. Current <= Current' /\ Current' \in Nat
  <2>1. Current' = EpochForUnix(now') /\ Current = EpochForUnix(now)
    BY DEF Current
  <2>2. /\ EpochForUnix(now) <= EpochForUnix(now + 1)
        /\ EpochForUnix(now + 1) \in Nat
    <3>1. now + 1 \in Nat
      BY <1>1
    <3> QED BY <1>1, <3>1, EpochFacts
  <2>3. CASE now' = now
    BY <1>1, <2>1, <2>3
  <2>4. CASE now' = now + 1
    BY <2>1, <2>2, <2>4
  <2> QED BY <2>3, <2>4
<1>5. \A i \in 1 .. Len(mail) : mail[i].inbox <= Current'
                                 \/ mail[i].inbox <= Current' + 1
  BY <1>1, <1>3, <1>4 DEF PollInv, BoundInv
<1>6. BoundInv'
  BY <1>3, <1>4, <1>5 DEF BoundInv
<1>7. \A i \in 1 .. Len(mail) : mail[i].at < now - MailTtl => mail[i].at < now' - MailTtl
  BY <1>1, <1>3
<1>8. Waiting' \subseteq Waiting
  BY <1>7 DEF Waiting, At, Expired
<1> QED BY <1>6, <1>8

\* A contact sends, with a clock of its own.
LEMMA SendStep ==
    ASSUME PollInv, NEW skew \in Skews, Send(skew)
    PROVE  PollInv'
<1> DEFINE m == [inbox |-> EpochForUnix(now + skew), at |-> now, where |-> "relay"]
           e == EpochForUnix(now + skew)
<1>1. /\ TypeOK /\ now \in Nat /\ Current \in Nat /\ blind \in Nat
      /\ Waiting \subseteq Nat /\ mail \in Seq(MailType) /\ Len(mail) \in Nat
      /\ lastPoll \in Nat \cup {None} /\ stored \in Nat \cup {None}
      /\ unwritten \in Seq(Nat) /\ polls \in Seq(PollType)
  BY PollParts
<1>2. e \in Nat /\ Current - 1 <= e /\ e <= Current + 1
  BY <1>1, EpochFacts DEF Send, Current
<1>3. m \in MailType /\ m.inbox = e
  BY <1>1, <1>2 DEF MailType, Epoch, Place
<1>4. /\ mail' = Append(mail, m) /\ Len(mail) < MaxMail
      /\ now' = now /\ lastPoll' = lastPoll /\ stored' = stored /\ unwritten' = unwritten
      /\ polls' = polls /\ running' = running /\ blind' = blind
  BY DEF Send
<1> HIDE DEF m, e
<1>5. /\ mail' \in Seq(MailType) /\ Len(mail') = Len(mail) + 1 /\ mail'[Len(mail) + 1] = m
      /\ \A i \in 1 .. Len(mail) : mail'[i] = mail[i]
  BY <1>1, <1>3, <1>4
<1>6. \A i \in 1 .. Len(mail') : i \in 1 .. Len(mail) \/ i = Len(mail) + 1
  BY <1>1, <1>5
<1>7. Current' = Current
  BY <1>4 DEF Current
<1>8. Waiting' \subseteq Waiting \cup {e}
  <2> SUFFICES ASSUME NEW x \in Waiting', x # e
               PROVE  x \in Waiting
    OBVIOUS
  <2>1. PICK i \in 1 .. Len(mail') : /\ mail'[i].where = "relay" /\ x = mail'[i].inbox
                                     /\ ~(mail'[i].at < now' - MailTtl)
    BY DEF Waiting, At, Expired
  <2>2. i \in 1 .. Len(mail) /\ mail'[i] = mail[i]
    BY <1>3, <1>5, <1>6, <2>1
  <2> QED BY <1>4, <2>1, <2>2 DEF Waiting, At, Expired
<1> DEFINE W == Waiting \cup {e}
<1>9. /\ \A u \in Nat : Covers(u, Current, blind, Waiting) => Covers(u, Current, blind, W)
      /\ \A p \in PollType : WillCover(p, Current, blind, Waiting)
                              => WillCover(p, Current, blind, W)
  BY <1>1, <1>2, CoversNew
<1>10. /\ \A u : Covers(u, Current, blind, W) => Covers(u, Current, blind, Waiting')
       /\ \A p : WillCover(p, Current, blind, W) => WillCover(p, Current, blind, Waiting')
  BY <1>8 DEF Covers, WillCover
<1>11. TypeOK' /\ Len(mail') <= MaxMail
  <2>1. Len(mail') <= MaxMail
    BY <1>1, <1>4, <1>5, InboxAssumption
  <2> QED BY <1>1, <1>4, <1>5, <2>1 DEF TypeOK, MailType
<1>12. BoundInv'
  BY <1>2, <1>3, <1>5, <1>6, <1>7 DEF PollInv, BoundInv
<1>13. PollsInv'
  <2>1. \A n \in 1 .. Len(polls) : polls[n] \in PollType
    BY <1>1
  <2> QED BY <1>4, <1>7, <1>9, <1>10, <2>1 DEF PollInv, PollsInv
<1>14. KnownInv'
  <2>1. \A j \in 1 .. Len(unwritten) : unwritten[j] \in Nat
    BY <1>1
  <2> QED BY <1>1, <1>4, <1>7, <1>9, <1>10, <2>1 DEF PollInv, KnownInv
<1> QED BY <1>4, <1>7, <1>11, <1>12, <1>13, <1>14 DEF PollInv

\* The relay drops mail.
LEMMA ExpireStep ==
    ASSUME PollInv, NEW i \in 1 .. Len(mail), Expire(i)
    PROVE  PollInv'
<1>1. TypeOK /\ Len(mail) <= MaxMail
  BY DEF PollInv
<1>2. /\ mail' = Moved({i}, "expired") /\ now' = now /\ lastPoll' = lastPoll /\ stored' = stored
      /\ unwritten' = unwritten /\ polls' = polls /\ running' = running /\ blind' = blind
  BY DEF Expire
<1>3. "expired" \in Place \ {"relay"}
  BY DEF Place
<1>4. /\ mail' \in Seq(MailType) /\ Len(mail') = Len(mail) /\ BoundInv'
      /\ Waiting' \subseteq Waiting
  BY <1>2, <1>3, MovedMail
<1>5. TypeOK'
  BY <1>1, <1>2, <1>4 DEF TypeOK, MailType
<1>6. /\ \A n \in 1 .. Len(polls') : WillCover(polls'[n], Current, blind, Waiting)
      /\ \A j \in 1 .. Len(unwritten') : Covers(unwritten'[j], Current, blind, Waiting)
  BY <1>2 DEF PollInv, PollsInv, KnownInv
<1> QED BY <1>1, <1>2, <1>4, <1>5, <1>6, NothingNew

\* The timer fires: all that waits is in the new window, or was left behind.
LEMMA PollOnceStep ==
    ASSUME PollInv, PollOnce
    PROVE  PollInv'
<1> DEFINE from == FromEpoch(lastPoll, Current)
           p == [current |-> Current, inboxes |-> InboxWindow(from, Current + 1), got |-> {}]
<1>1. /\ TypeOK /\ now \in Nat /\ Current \in Nat /\ blind \in Nat
      /\ Waiting \subseteq Nat /\ \A e \in Waiting : e <= Current + 1
      /\ lastPoll \in Nat \cup {None} /\ polls \in Seq(PollType) /\ Len(mail) <= MaxMail
  BY PollParts
<1>2. /\ polls' = Append(polls, p) /\ blind' = IF lastPoll = None THEN Current ELSE blind
      /\ now' = now /\ mail' = mail /\ lastPoll' = lastPoll /\ stored' = stored
      /\ unwritten' = unwritten /\ running' = running /\ Len(polls) < MaxPolls
  BY DEF PollOnce
<1> HIDE DEF p
<1>3. from \in Nat /\ Current + 1 \in Nat
  <2>1. Current + 1 \in Nat
    BY <1>1
  <2>2. FromEpoch(lastPoll, Current) \in Nat
    BY <1>1, WindowStart
  <2> QED BY <2>1, <2>2
<1>4. p \in PollType /\ p.current = Current /\ p.inboxes = InboxWindow(from, Current + 1)
  <2> HIDE DEF from
  <2>1. InboxWindow(from, Current + 1) \in Seq(Epoch)
    BY <1>3, WindowFields
  <2> QED BY <1>1, <2>1 DEF p, PollType, Epoch
<1>5. Waiting' \subseteq Waiting /\ BoundInv'
  BY <1>2, SameMail
<1>6. Current' = Current
  BY <1>2 DEF Current
<1>7. WillCover(p, Current', blind', Waiting')
  <2>1. p.current <= Current'
    BY <1>1, <1>4, <1>6
  <2>2. p.current - 1 = Current - 1
    BY <1>4
  <2> SUFFICES ASSUME NEW e \in Waiting, ~(e >= p.current - 1), ~Passed(e, Current', blind')
               PROVE  \E j \in 1 .. Len(p.inboxes) : p.inboxes[j] = e
    <3> HIDE DEF from
    <3> QED BY <1>5, <2>1, Zenon DEF WillCover
  <2>3. ~(e >= Current - 1) /\ ~Passed(e, Current, blind')
    BY <1>6, <2>2
  <2>4. e \in Nat /\ e <= Current + 1 /\ MaxPollEpochs \in Nat
    BY <1>1, InboxAssumption
  <2>5. e >= Current + 1 - MaxPollEpochs /\ e >= blind' - 1
    BY <1>1, <1>2, <2>4, <2>3 DEF Passed
  <2>6. lastPoll # None
    BY <1>1, <1>2, <2>4, <2>5, <2>3
  <2>7. Covers(lastPoll, Current, blind, Waiting) /\ lastPoll \in Nat /\ blind' = blind
    BY <1>1, <1>2, <2>6 DEF PollInv, KnownInv
  <2>8. e >= lastPoll - 1
    BY <2>7, <2>3 DEF Covers
  <2>9. e >= from
    BY <1>1, <2>4, <2>5, <2>6, <2>8, WindowStart
  <2>10. e \in from .. (Current + 1)
    BY <1>1, <1>3, <2>4, <2>9
  <2> HIDE DEF from
  <2>11. \E j \in 1 .. Len(InboxWindow(from, Current + 1)) : InboxWindow(from, Current + 1)[j] = e
    BY <1>3, <2>10, WindowFields
  <2> QED BY <1>4, <2>11
<1>8. /\ polls' \in Seq(PollType) /\ Len(polls') = Len(polls) + 1 /\ Len(polls) \in Nat
      /\ polls'[Len(polls) + 1] = p /\ \A n \in 1 .. Len(polls) : polls'[n] = polls[n]
      /\ \A n \in 1 .. Len(polls') : n \in 1 .. Len(polls) \/ n = Len(polls) + 1
  BY <1>1, <1>2, <1>4
<1>9. TypeOK'
  <2>1. Len(polls') <= MaxPolls /\ blind' \in Nat
    BY <1>1, <1>2, <1>8, InboxAssumption
  <2> QED BY <1>1, <1>2, <1>8, <2>1 DEF TypeOK, PollType, Epoch
<1>10. \A n \in 1 .. Len(polls') : \/ WillCover(polls'[n], Current, blind, Waiting)
                                   \/ WillCover(polls'[n], Current', blind', Waiting')
  BY <1>7, <1>8 DEF PollInv, PollsInv
<1>11. /\ \A j \in 1 .. Len(unwritten') : Covers(unwritten'[j], Current, blind, Waiting)
       /\ blind' \in {blind, Current}
  BY <1>2 DEF PollInv, KnownInv
<1> QED BY <1>1, <1>2, <1>5, <1>9, <1>10, <1>11, NothingNew

\* A poll loses the head of its inboxes.
LEMMA HeadAsked ==
    ASSUME NEW p \in PollType, p.inboxes # <<>>, NEW q \in PollType, q.current = p.current,
           q.inboxes = Tail(p.inboxes), NEW c, NEW b, NEW W, NEW W1 \in SUBSET W,
           Head(p.inboxes) \notin W1, WillCover(p, c, b, W)
    PROVE  WillCover(q, c, b, W1)
<1> SUFFICES ASSUME NEW e \in W1, NEW j \in 1 .. Len(p.inboxes), p.inboxes[j] = e
             PROVE  \E k \in 1 .. Len(q.inboxes) : q.inboxes[k] = e
  BY DEF WillCover
<1>1. p.inboxes \in Seq(Nat)
  BY DEF PollType, Epoch
<1>2. /\ Len(q.inboxes) = Len(p.inboxes) - 1 /\ Len(p.inboxes) \in Nat
      /\ \A k \in 1 .. Len(q.inboxes) : q.inboxes[k] = p.inboxes[k + 1]
      /\ Head(p.inboxes) = p.inboxes[1]
  BY <1>1
<1>3. j # 1
  BY <1>2
<1>4. j - 1 \in 1 .. Len(q.inboxes) /\ (j - 1) + 1 = j
  BY <1>2, <1>3
<1> QED BY <1>2, <1>4

\* The worker empties one inbox.
LEMMA WorkerPollsStep ==
    ASSUME PollInv, WorkerPolls
    PROVE  PollInv'
<1> DEFINE p == polls[1]
           q == [[p EXCEPT !.inboxes = Tail(@)] EXCEPT !.got = @ \cup Drained]
<1>1. /\ TypeOK /\ Len(mail) <= MaxMail /\ polls \in Seq(PollType) /\ Len(mail) \in Nat
  BY PollParts
<1>2. /\ mail' = Moved(Drained, "worker") /\ now' = now /\ lastPoll' = lastPoll
      /\ stored' = stored /\ unwritten' = unwritten /\ running' = running /\ blind' = blind
      /\ polls # <<>> /\ p.inboxes # <<>>
      /\ polls' = [polls EXCEPT ![1].inboxes = Tail(@), ![1].got = @ \cup Drained]
  BY DEF WorkerPolls
<1>3. 1 \in 1 .. Len(polls) /\ p \in PollType
  BY <1>1, <1>2
<1>4. "worker" \in Place \ {"relay"}
  BY DEF Place
<1>5. /\ mail' \in Seq(MailType) /\ Len(mail') = Len(mail) /\ BoundInv'
      /\ Waiting' \subseteq Waiting
      /\ \A e \in Waiting' : \E i \in At("relay") \ Drained :
            mail[i].inbox = e /\ ~Expired(mail[i])
  BY <1>2, <1>4, MovedMail
<1>6. Head(p.inboxes) \notin Waiting'
  BY <1>5 DEF Drained
<1>7. Drained \subseteq 1 .. MaxMail
  <2>1. Drained \subseteq 1 .. Len(mail)
    BY DEF Drained, At
  <2> QED BY <1>1, <2>1, InboxAssumption
<1> HIDE DEF p
<1>8. q \in PollType /\ q.current = p.current /\ q.inboxes = Tail(p.inboxes)
  <2> DEFINE r == [p EXCEPT !.inboxes = Tail(@)]
  <2>1. Tail(p.inboxes) \in Seq(Epoch)
    BY <1>2, <1>3 DEF PollType
  <2>2. r \in PollType /\ r.current = p.current /\ r.inboxes = Tail(p.inboxes)
    BY <1>3, <2>1 DEF PollType
  <2>3. q = [r EXCEPT !.got = @ \cup Drained]
    OBVIOUS
  <2> HIDE DEF r, q
  <2>4. r.got \cup Drained \in SUBSET (1 .. MaxMail)
    BY <1>7, <2>2 DEF PollType
  <2>5. q \in PollType /\ q.current = r.current /\ q.inboxes = r.inboxes
    BY <2>2, <2>3, <2>4 DEF PollType
  <2> QED BY <2>2, <2>5
<1>9. polls' = [polls EXCEPT ![1] = q]
  BY <1>1, <1>2, <1>3 DEF p
<1> HIDE DEF q
<1>10. /\ polls' \in Seq(PollType) /\ Len(polls') = Len(polls) /\ polls'[1] = q
       /\ \A n \in 1 .. Len(polls) : n # 1 => polls'[n] = polls[n]
  BY <1>1, <1>3, <1>8, <1>9
<1>11. TypeOK'
  <2>1. Len(polls') <= MaxPolls
    BY <1>1, <1>10 DEF TypeOK
  <2> QED BY <1>1, <1>2, <1>5, <1>10, <2>1 DEF TypeOK, MailType, PollType
<1>12. \A n \in 1 .. Len(polls') : \/ WillCover(polls'[n], Current, blind, Waiting)
                                   \/ WillCover(polls'[n], Current', blind', Waiting')
  <2>1. Current' = Current /\ WillCover(p, Current, blind, Waiting)
    BY <1>2, <1>3 DEF Current, PollInv, PollsInv, p
  <2>2. WillCover(q, Current', blind', Waiting')
    BY <1>2, <1>3, <1>5, <1>6, <1>8, <2>1, HeadAsked
  <2> QED BY <1>10, <2>2 DEF PollInv, PollsInv
<1>13. \A j \in 1 .. Len(unwritten') : Covers(unwritten'[j], Current, blind, Waiting)
  BY <1>2 DEF PollInv, KnownInv
<1> QED BY <1>1, <1>2, <1>5, <1>11, <1>12, <1>13, NothingNew

\* The first poll is over; the others stay.
LEMMA FirstPollGone ==
    ASSUME PollInv, polls # <<>>, polls' = Tail(polls)
    PROVE  /\ polls[1] \in PollType /\ WillCover(polls[1], Current, blind, Waiting)
           /\ polls' \in Seq(PollType) /\ Len(polls') <= MaxPolls
           /\ \A n \in 1 .. Len(polls') : WillCover(polls'[n], Current, blind, Waiting)
<1>1. polls \in Seq(PollType) /\ Len(polls) \in Nat /\ Len(polls) <= MaxPolls
      /\ \A n \in 1 .. Len(polls) : WillCover(polls[n], Current, blind, Waiting)
  BY PollParts DEF PollInv, PollsInv
<1>2. /\ 1 \in 1 .. Len(polls)
      /\ polls' \in Seq(PollType) /\ Len(polls') = Len(polls) - 1
      /\ \A n \in 1 .. Len(polls') : polls'[n] = polls[n + 1] /\ n + 1 \in 1 .. Len(polls)
  BY <1>1
<1>3. Len(polls') <= MaxPolls
  BY <1>1, <1>2, InboxAssumption
<1> QED BY <1>1, <1>2, <1>3

\* A poll fails: what it collected is lost, and it is not remembered.
LEMMA WorkerFailsStep ==
    ASSUME PollInv, WorkerFails
    PROVE  PollInv'
<1>1. TypeOK /\ Len(mail) <= MaxMail
  BY DEF PollInv
<1>2. /\ now' = now /\ lastPoll' = lastPoll /\ stored' = stored /\ unwritten' = unwritten
      /\ running' = running /\ blind' = blind /\ polls # <<>> /\ polls' = Tail(polls)
  BY DEF WorkerFails, PollFailed
<1>3. PICK ids : mail' = Moved(ids, "lost")
  BY DEF WorkerFails
<1>4. "lost" \in Place \ {"relay"}
  BY DEF Place
<1>5. /\ mail' \in Seq(MailType) /\ Len(mail') = Len(mail) /\ BoundInv'
      /\ Waiting' \subseteq Waiting
  BY <1>2, <1>3, <1>4, MovedMail
<1>6. /\ polls' \in Seq(PollType) /\ Len(polls') <= MaxPolls
      /\ \A n \in 1 .. Len(polls') : WillCover(polls'[n], Current, blind, Waiting)
  BY <1>2, FirstPollGone
<1>7. TypeOK'
  BY <1>1, <1>2, <1>5, <1>6 DEF TypeOK, MailType, PollType
<1>8. \A j \in 1 .. Len(unwritten') : Covers(unwritten'[j], Current, blind, Waiting)
  BY <1>2 DEF PollInv, KnownInv
<1> QED BY <1>1, <1>2, <1>5, <1>6, <1>7, <1>8, NothingNew

\* A poll is answered: it has asked for all that waited before its epoch, so
\* the next one may start from there.
LEMMA PollAnsweredStep ==
    ASSUME PollInv, PollAnswered
    PROVE  PollInv'
<1> DEFINE u == polls[1].current
<1>1. TypeOK /\ Len(mail) <= MaxMail /\ unwritten \in Seq(Nat)
  BY PollParts
<1>2. /\ now' = now /\ stored' = stored /\ running' = running /\ blind' = blind
      /\ polls # <<>> /\ polls' = Tail(polls) /\ polls[1].inboxes = <<>> /\ lastPoll' = u
      /\ unwritten' = IF lastPoll = u THEN unwritten ELSE Append(unwritten, u)
      /\ mail' = Moved(polls[1].got, "handled")
  BY DEF PollAnswered
<1>3. "handled" \in Place \ {"relay"}
  BY DEF Place
<1>4. /\ mail' \in Seq(MailType) /\ Len(mail') = Len(mail) /\ BoundInv'
      /\ Waiting' \subseteq Waiting
  BY <1>2, <1>3, MovedMail
<1>5. /\ polls[1] \in PollType /\ WillCover(polls[1], Current, blind, Waiting)
      /\ polls' \in Seq(PollType) /\ Len(polls') <= MaxPolls
      /\ \A n \in 1 .. Len(polls') : WillCover(polls'[n], Current, blind, Waiting)
  BY <1>2, FirstPollGone
<1>6. Covers(u, Current, blind, Waiting)
  <2>1. Len(polls[1].inboxes) = 0
    BY <1>2
  <2> QED BY <1>5, <2>1 DEF WillCover, Covers
<1>7. u \in Nat
  BY <1>5 DEF PollType, Epoch
<1> HIDE DEF u
<1>8. /\ unwritten' \in Seq(Nat)
      /\ \A j \in 1 .. Len(unwritten') : Covers(unwritten'[j], Current, blind, Waiting)
  <2>1. \A j \in 1 .. Len(unwritten) : Covers(unwritten[j], Current, blind, Waiting)
    BY DEF PollInv, KnownInv
  <2>2. CASE lastPoll = u
    BY <1>1, <1>2, <2>1, <2>2
  <2>3. CASE lastPoll # u
    <3>1. /\ unwritten' \in Seq(Nat) /\ Len(unwritten') = Len(unwritten) + 1
          /\ \A j \in 1 .. Len(unwritten) : unwritten'[j] = unwritten[j]
          /\ unwritten'[Len(unwritten) + 1] = u
          /\ \A j \in 1 .. Len(unwritten') : j \in 1 .. Len(unwritten) \/ j = Len(unwritten) + 1
      BY <1>1, <1>2, <1>7, <2>3
    <3> QED BY <1>6, <2>1, <3>1
  <2> QED BY <2>2, <2>3
<1>9. TypeOK'
  BY <1>1, <1>2, <1>4, <1>5, <1>7, <1>8 DEF TypeOK, MailType, PollType, Epoch
<1> QED BY <1>1, <1>2, <1>4, <1>5, <1>6, <1>8, <1>9, NothingNew

\* A write of the last poll reaches the storage.
LEMMA WriteLandsStep ==
    ASSUME PollInv, WriteLands
    PROVE  PollInv'
<1>1. TypeOK /\ Len(mail) <= MaxMail /\ unwritten \in Seq(Nat)
  BY PollParts
<1>2. /\ now' = now /\ mail' = mail /\ lastPoll' = lastPoll /\ polls' = polls
      /\ running' = running /\ blind' = blind
      /\ unwritten # <<>> /\ stored' = Head(unwritten) /\ unwritten' = Tail(unwritten)
  BY DEF WriteLands
<1>3. Waiting' \subseteq Waiting /\ BoundInv'
  BY <1>2, SameMail
<1>4. /\ unwritten' \in Seq(Nat) /\ 1 \in 1 .. Len(unwritten) /\ stored' = unwritten[1]
      /\ \A j \in 1 .. Len(unwritten') : /\ unwritten'[j] = unwritten[j + 1]
                                         /\ j + 1 \in 1 .. Len(unwritten)
  BY <1>1, <1>2
<1>5. /\ Covers(stored', Current, blind, Waiting) /\ stored' \in Nat
      /\ \A j \in 1 .. Len(unwritten') : Covers(unwritten'[j], Current, blind, Waiting)
  <2>1. \A j \in 1 .. Len(unwritten) : Covers(unwritten[j], Current, blind, Waiting)
    BY DEF PollInv, KnownInv
  <2> QED BY <1>1, <1>4, <2>1
<1>6. TypeOK'
  BY <1>1, <1>2, <1>4, <1>5 DEF TypeOK, Epoch
<1>7. \A n \in 1 .. Len(polls') : WillCover(polls'[n], Current, blind, Waiting)
  BY <1>2 DEF PollInv, PollsInv
<1> QED BY <1>1, <1>2, <1>3, <1>5, <1>6, <1>7, NothingNew

\* The app is killed: the next poll starts from what is stored.
LEMMA KillStep ==
    ASSUME PollInv, Kill
    PROVE  PollInv'
<1>1. TypeOK /\ Len(mail) <= MaxMail
  BY DEF PollInv
<1>2. /\ now' = now /\ stored' = stored /\ blind' = blind /\ running' \in BOOLEAN
      /\ lastPoll' = None /\ unwritten' = <<>> /\ polls' = <<>>
      /\ mail' = Moved(At("worker"), "lost")
  BY DEF Kill
<1>3. "lost" \in Place \ {"relay"}
  BY DEF Place
<1>4. /\ mail' \in Seq(MailType) /\ Len(mail') = Len(mail) /\ BoundInv'
      /\ Waiting' \subseteq Waiting
  BY <1>2, <1>3, MovedMail
<1>5. Len(polls') = 0 /\ Len(unwritten') = 0
  BY <1>2
<1>6. TypeOK'
  BY <1>1, <1>2, <1>4, <1>5, InboxAssumption DEF TypeOK, MailType
<1> QED BY <1>1, <1>2, <1>4, <1>5, <1>6, NothingNew

\* A restart, a tick of the clock, and nothing at all.
LEMMA IdleSteps ==
    ASSUME PollInv, Restart \/ Tick \/ UNCHANGED vars
    PROVE  PollInv'
<1>1. TypeOK /\ Len(mail) <= MaxMail /\ now \in Nat
  BY PollParts
<1>2. /\ now' \in {now, now + 1} /\ stored' = stored /\ blind' = blind /\ running' \in BOOLEAN
      /\ lastPoll' \in {lastPoll, stored} /\ unwritten' = unwritten /\ polls' = polls
      /\ mail' = mail /\ now' \in StartTime .. MaxTime
  <2>1. CASE Restart
    BY <1>1, <2>1 DEF Restart, TypeOK
  <2>2. CASE Tick
    BY <1>1, <2>2, InboxAssumption DEF Tick, TypeOK
  <2>3. CASE UNCHANGED vars
    BY <1>1, <2>3 DEF vars, TypeOK
  <2> QED BY <2>1, <2>2, <2>3
<1>3. Waiting' \subseteq Waiting /\ BoundInv'
  BY <1>2, SameMail
<1>4. TypeOK'
  BY <1>1, <1>2 DEF TypeOK
<1>5. /\ \A n \in 1 .. Len(polls') : WillCover(polls'[n], Current, blind, Waiting)
      /\ \A j \in 1 .. Len(unwritten') : Covers(unwritten'[j], Current, blind, Waiting)
  BY <1>2 DEF PollInv, PollsInv, KnownInv
<1> QED BY <1>1, <1>2, <1>3, <1>4, <1>5, NothingNew

\* Initially there is neither mail nor a poll.
LEMMA InitPoll == Init => PollInv
<1> SUFFICES ASSUME Init
             PROVE  PollInv
  OBVIOUS
<1>1. /\ now = StartTime /\ mail = <<>> /\ lastPoll = None /\ stored = None
      /\ unwritten = <<>> /\ polls = <<>> /\ running \in BOOLEAN /\ blind = 0
  BY DEF Init
<1>2. Len(mail) = 0 /\ Len(polls) = 0 /\ Len(unwritten) = 0
  BY <1>1
<1>3. TypeOK
  BY <1>1, <1>2, InboxAssumption DEF TypeOK, Epoch
<1>4. Current \in Nat
  BY <1>3, CurrentFacts
<1>5. blind <= Current
  BY <1>1, <1>4
<1>6. BoundInv /\ PollsInv /\ KnownInv
  BY <1>1, <1>2 DEF BoundInv, PollsInv, KnownInv
<1>7. Len(mail) <= MaxMail
  BY <1>2, InboxAssumption
<1> QED BY <1>3, <1>5, <1>6, <1>7 DEF PollInv

\* What the next window leaves out is what LeftBehind says.
LEMMA WindowCovers ==
    ASSUME PollInv
    PROVE  NeverStranded
<1> SUFFICES ASSUME NEW i \in At("relay"), ~Expired(mail[i]), ~LeftBehind(mail[i])
             PROVE  Reachable(mail[i])
  BY DEF NeverStranded
<1> DEFINE e == mail[i].inbox
<1>1. /\ Current \in Nat /\ blind \in Nat /\ Waiting \subseteq Nat
      /\ \A x \in Waiting : x <= Current + 1
      /\ lastPoll \in Nat \cup {None} /\ stored \in Nat \cup {None}
  BY PollParts
<1>2. e \in Waiting
  BY DEF Waiting
<1>3. e \in Nat /\ e <= Current + 1 /\ MaxPollEpochs \in Nat
  BY <1>1, <1>2, InboxAssumption
<1>4. /\ ~(e < Current + 1 - MaxPollEpochs)
      /\ ~(LastKnown = None /\ e < Current - 1)
      /\ ~(e < blind - 1)
  BY DEF LeftBehind
<1> HIDE DEF e
<1>5. LastKnown \in Nat \cup {None}
  BY <1>1 DEF LastKnown
<1>6. LastKnown # None => e >= LastKnown - 1
  <2> SUFFICES ASSUME LastKnown # None
               PROVE  e >= LastKnown - 1
    OBVIOUS
  <2>1. Covers(LastKnown, Current, blind, Waiting)
    BY DEF LastKnown, PollInv, KnownInv
  <2>2. e >= LastKnown - 1 \/ Passed(e, Current, blind)
    BY <1>2, <2>1 DEF Covers
  <2> QED BY <1>4, <2>2 DEF Passed
<1>7. e >= (IF LastKnown = None THEN Current ELSE LastKnown) - 1
  BY <1>1, <1>3, <1>4, <1>6
<1>8. e >= Current + 1 - MaxPollEpochs
  BY <1>1, <1>3, <1>4
<1>9. e >= FromEpoch(LastKnown, Current) /\ FromEpoch(LastKnown, Current) \in Nat
  BY <1>1, <1>3, <1>5, <1>7, <1>8, WindowStart
<1>10. e \in FromEpoch(LastKnown, Current) .. (Current + 1)
  BY <1>1, <1>3, <1>9
<1> QED BY <1>10 DEF Reachable, e

\* Whatever polls overlap, fail or are cut off, every inbox in which the relay
\* holds mail is skipped neither by the polls under way nor by the next one.
THEOREM PollInvariance == Spec => []PollInv
<1>1. ASSUME PollInv, [Next]_vars
      PROVE  PollInv'
  BY <1>1, SendStep, ExpireStep, PollOnceStep, WorkerPollsStep, WorkerFailsStep,
     PollAnsweredStep, WriteLandsStep, KillStep, IdleSteps DEF Next
<1> QED BY <1>1, InitPoll, PTL DEF Spec

\* app_state.dart's window strands no mail but what its documented limits
\* leave behind.
THEOREM MailNeverStranded == Spec => []NeverStranded
<1>1. PollInv => NeverStranded
  BY WindowCovers
<1> QED BY <1>1, PollInvariance, PTL
=============================================================================
