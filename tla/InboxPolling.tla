----------------------------- MODULE InboxPolling -----------------------------
(***************************************************************************)
(* Rotating inboxes (core/src/inbox.rs) and the client that empties them:  *)
(* the poll timer of app_state.dart, the pollMany command of its worker    *)
(* isolate, RelayTransport (net/src/lib.rs) behind the FFI, and senders    *)
(* whose clocks are a little off.                                          *)
(*                                                                         *)
(* An inbox is the epoch it was derived from (all mail here is for one     *)
(* identity).  A mail knows its inbox, when the relay got it, and where it *)
(* is: at the relay, in a batch of the worker, handled by the app, lost on *)
(* the way, or expired.                                                    *)
(***************************************************************************)
EXTENDS Integers, Sequences, FiniteSets

CONSTANTS
    INBOX_EPOCH_SECONDS,   \* length of an epoch (86400 in the code)
    MailTtl,               \* mail_ttl_secs of the relay (30 days in the code)
    MaxPollEpochs,         \* _maxPollEpochs (30 in the code)
    Skews,                 \* how far the clocks of senders are off
    None,                  \* Dart's null
    StartTime, MaxTime,    \* bounds of the clock
    MaxMail,               \* bound: mails that are sent
    MaxPolls,              \* bound: polls under way at the same time
    MaxFailures,           \* bound: polls of an inbox that fail
    MaxKills               \* bound: kills of the app

ASSUME InboxAssumption ==
    /\ INBOX_EPOCH_SECONDS \in Nat \ {0}
    /\ MailTtl \in Nat
    /\ MaxPollEpochs \in Nat \ {0, 1}
    /\ StartTime \in Nat /\ MaxTime \in Nat /\ StartTime <= MaxTime
    /\ MaxMail \in Nat /\ MaxPolls \in Nat
    /\ \A d \in Skews : d \in -INBOX_EPOCH_SECONDS .. INBOX_EPOCH_SECONDS

VARIABLES
    now,          \* the time
    mail,         \* all mail, in the order it was sent
    lastPoll,     \* _lastPollEpoch in memory
    stored,       \* what the secure storage has of it
    unwritten,    \* values of it on their way to the storage
    polls,        \* the pollMany commands under way, oldest first
    running,      \* the app runs
    failures, kills,
    blind         \* history: the last epoch in which a poll began without knowing
                  \* of an earlier one

vars == <<now, mail, lastPoll, stored, unwritten, polls, running, failures, kills,
          blind>>

Epoch == Nat
Place == {"relay", "worker", "handled", "lost", "expired"}

\* The shape of the state.
TypeOK ==
    /\ now \in StartTime .. MaxTime
    /\ mail \in Seq([inbox : Epoch, at : Nat, where : Place])
    /\ {lastPoll, stored} \subseteq Epoch \cup {None}
    /\ blind \in Epoch
    /\ unwritten \in Seq(Epoch)
    /\ polls \in Seq([current : Epoch, inboxes : Seq(Epoch), got : SUBSET (1 .. MaxMail)])
    /\ Len(polls) <= MaxPolls
    /\ running \in BOOLEAN

\* inbox.rs: epoch_for_unix
EpochForUnix(seconds) == seconds \div INBOX_EPOCH_SECONDS

\* Mutant: the last epoch of the range is left out.
InboxWindowExclusive(from, to) ==
    [i \in 1 .. (IF from > to THEN 0 ELSE to - from) |-> from + i - 1]

\* inbox.rs: inbox_window; an inverted range is empty.
InboxWindow(from, to) ==
    [i \in 1 .. (IF from > to THEN 0 ELSE to - from + 1) |-> from + i - 1]

\* _pollOnce: the first epoch of the window.
FromEpoch(last, current) ==
    LET start == (IF last = None THEN current ELSE last) - 1
        from == IF start < 0 THEN 0 ELSE start
    IN  IF current + 1 - from >= MaxPollEpochs THEN current + 1 - MaxPollEpochs ELSE from

Init ==
    /\ now = StartTime
    /\ mail = <<>>
    /\ lastPoll = None
    /\ stored = None
    /\ unwritten = <<>>
    /\ polls = <<>>
    /\ running = TRUE
    /\ failures = 0
    /\ kills = 0
    /\ blind = 0

Current == EpochForUnix(now)

\* store.rs: mail from before now - mail_ttl_secs is never handed out.
Expired(m) == m.at < now - MailTtl

Moved(ids, where) ==
    [i \in 1 .. Len(mail) |->
        IF i \in ids THEN [mail[i] EXCEPT !.where = where] ELSE mail[i]]

At(where) == {i \in 1 .. Len(mail) : mail[i].where = where}

-----------------------------------------------------------------------------
\* _transportSend of a contact whose clock is off by `skew`, and
\* RelayTransport::send: the inbox is the one of the contact's own epoch.
Send(skew) ==
    /\ Len(mail) < MaxMail
    /\ now + skew >= 0
    /\ mail' = Append(mail, [inbox |-> EpochForUnix(now + skew), at |-> now,
                             where |-> "relay"])
    /\ UNCHANGED <<now, lastPoll, stored, unwritten, polls, running, failures, kills,
                   blind>>

\* The relay drops mail that is too old.
Expire(i) ==
    /\ mail[i].where = "relay"
    /\ Expired(mail[i])
    /\ mail' = Moved({i}, "expired")
    /\ UNCHANGED <<now, lastPoll, stored, unwritten, polls, running, failures, kills,
                   blind>>

\* _pollOnce up to its await: the timer does not ask whether a poll is under way.
PollOnce ==
    /\ running
    /\ Len(polls) < MaxPolls
    /\ polls' = Append(polls, [current |-> Current,
                               inboxes |-> InboxWindow(FromEpoch(lastPoll, Current), Current + 1),
                               got     |-> {}])
    /\ blind' = IF lastPoll = None THEN Current ELSE blind
    /\ UNCHANGED <<now, mail, lastPoll, stored, unwritten, running, failures, kills>>

\* RelayTransport::poll of the inbox that is next: the relay hands out its mail
\* and forgets it.
Drained == {i \in At("relay") :
               mail[i].inbox = Head(polls[1].inboxes) /\ ~Expired(mail[i])}

WorkerPolls ==
    /\ polls # <<>>
    /\ polls[1].inboxes # <<>>
    /\ mail' = Moved(Drained, "worker")
    /\ polls' = [polls EXCEPT ![1].inboxes = Tail(@), ![1].got = @ \cup Drained]
    /\ UNCHANGED <<now, lastPoll, stored, unwritten, running, failures, kills, blind>>

\* Mutant: a failed poll counts as one that was answered.
PollFailedNoticed(current) == lastPoll' = current

\* _pollOnce after an exception: nothing is remembered.
PollFailed(current) == UNCHANGED lastPoll

\* clarity_relay_poll returns a null buffer - the request failed, or the answer
\* did, after the relay had emptied the inbox - and pollMany throws: with it
\* goes what it has collected from other inboxes.
WorkerFails ==
    /\ polls # <<>>
    /\ polls[1].inboxes # <<>>
    /\ failures < MaxFailures
    /\ failures' = failures + 1
    /\ \E drained \in {{}, Drained} : mail' = Moved(polls[1].got \cup drained, "lost")
    /\ polls' = Tail(polls)
    /\ PollFailed(polls[1].current)
    /\ UNCHANGED <<now, stored, unwritten, running, kills, blind>>

\* The rest of _pollOnce: the epoch it began in is remembered, the write is not
\* awaited, and every envelope is handled.
PollAnswered ==
    /\ polls # <<>>
    /\ polls[1].inboxes = <<>>
    /\ polls' = Tail(polls)
    /\ lastPoll' = polls[1].current
    /\ unwritten' = IF lastPoll = polls[1].current THEN unwritten
                    ELSE Append(unwritten, polls[1].current)
    /\ mail' = Moved(polls[1].got, "handled")
    /\ UNCHANGED <<now, stored, running, failures, kills, blind>>

WriteLands ==
    /\ unwritten # <<>>
    /\ stored' = Head(unwritten)
    /\ unwritten' = Tail(unwritten)
    /\ UNCHANGED <<now, mail, lastPoll, polls, running, failures, kills, blind>>

\* The app is killed, or the phone is off for a while.
Kill ==
    /\ running
    /\ kills < MaxKills
    /\ kills' = kills + 1
    /\ running' = FALSE
    /\ lastPoll' = None
    /\ unwritten' = <<>>
    /\ polls' = <<>>
    /\ mail' = Moved(At("worker"), "lost")
    /\ UNCHANGED <<now, stored, failures, blind>>

\* _restoreContactsAndSessions, as far as the last poll goes.
Restart ==
    /\ ~running
    /\ running' = TRUE
    /\ lastPoll' = stored
    /\ UNCHANGED <<now, mail, stored, unwritten, polls, failures, kills, blind>>

Tick ==
    /\ now < MaxTime
    /\ now' = now + 1
    /\ UNCHANGED <<mail, lastPoll, stored, unwritten, polls, running, failures, kills,
                   blind>>

Next ==
    \/ \E skew \in Skews : Send(skew)
    \/ \E i \in 1 .. Len(mail) : Expire(i)
    \/ PollOnce
    \/ WorkerPolls
    \/ WorkerFails
    \/ PollAnswered
    \/ WriteLands
    \/ Kill
    \/ Restart
    \/ Tick

Spec == Init /\ [][Next]_vars

\* The timer fires as long as the app runs, the user starts the app again, and
\* the worker gets on.
FairSpec ==
    /\ Spec
    /\ WF_vars(PollOnce)
    /\ WF_vars(WorkerPolls)
    /\ WF_vars(PollAnswered)
    /\ WF_vars(Restart)

-----------------------------------------------------------------------------
\* The value the next poll starts from.
LastKnown == IF running THEN lastPoll ELSE stored

Reachable(m) == m.inbox \in FromEpoch(LastKnown, Current) .. (Current + 1)

\* What app_state.dart leaves behind: mail "parked under inboxes older than the
\* window", and mail older than yesterday's for a poll that knows of no earlier
\* one - the first, or one that begins before the first is answered or recorded.
LeftBehind(m) ==
    \/ m.inbox < Current + 1 - MaxPollEpochs
    \/ LastKnown = None /\ m.inbox < Current - 1
    \/ m.inbox < blind - 1

\* app_state.dart: the window is such that "an epoch rollover or a skewed sender
\* clock never strands mail": whatever was polled when, with however many polls
\* under way, failed, or cut off by a kill, the next window covers every inbox
\* in which the relay holds mail for us.
NeverStranded ==
    \A i \in At("relay") :
        ~Expired(mail[i]) => Reachable(mail[i]) \/ LeftBehind(mail[i])

Waits(i) == i \in At("relay") /\ ~LeftBehind(mail[i]) /\ ~Expired(mail[i])

\* Mail does not stay at the relay for ever: the app gets it, or loses it in a
\* poll that fails, or it expires or is left behind.
MailLeavesRelay ==
    \A i \in 1 .. MaxMail : Waits(i) ~> ~Waits(i)
=============================================================================
