------------------------------ MODULE RelayStore ------------------------------
(***************************************************************************)
(* The relay's store (relay/src/store.rs) used by any number of threads:   *)
(* the prekey directory, the mailboxes, and their snapshot on disk.        *)
(*                                                                         *)
(* The store has two mutexes.  A section under the `inner` mutex takes no  *)
(* other lock and is one step here.  Every mutator leaves that section     *)
(* BEFORE it calls mark_dirty, which takes the `persistence` mutex, and    *)
(* maybe_flush holds `persistence` from its first test to the rename: what *)
(* other threads do between those steps is what this module is about.      *)
(*                                                                         *)
(* A message is its number in the order of arrival, its size and its time; *)
(* a one-time prekey is its id; base bundles carry no state and are left   *)
(* out.  `now` is the clock, in seconds.                                   *)
(***************************************************************************)
EXTENDS Integers, Sequences, FiniteSets

CONSTANTS
    Thread,               \* the threads that call the store
    FileBacked,           \* the kinds of store: with a file, without, or both
    Identity, Mailbox,    \* keys of the directory and of the queues
    MailTtlSecs,          \* StoreLimits.mail_ttl_secs
    MaxMessageBytes,      \* StoreLimits.max_message_bytes
    MaxMailboxMessages,   \* StoreLimits.max_mailbox_messages
    MaxMailboxBytes,      \* StoreLimits.max_mailbox_bytes
    MessageSizes,         \* the sizes of the messages that arrive
    MaxOpk, MaxPool,      \* bounds: prekey ids, and prekeys per publication
    MaxMutations,         \* bound: calls that may change the store
    MaxTime, MaxCrashes,  \* bounds: the clock, and the number of hard kills
    None, Torn            \* no value; a file that was written in part

\* Minimum interval between snapshot writes.
FlushIntervalSecs == 1

ASSUME LimitsAssumption ==
    /\ MailTtlSecs \in Nat
    /\ MaxMailboxMessages \in Nat
    /\ MaxMailboxBytes \in Nat

ASSUME StoreAssumption ==
    /\ None \notin Thread
    /\ MessageSizes \subseteq Nat
    /\ FileBacked \subseteq BOOLEAN
    /\ MaxOpk \in Nat /\ MaxPool \in Nat

VARIABLES
    keys,        \* Inner.keys: [Identity -> sequence of prekey ids, or None]
    queues,      \* Inner.queues: [Mailbox -> sequence of messages]
    entries,     \* the mailboxes that have an entry in Inner.queues, even empty
    persistent,  \* the store has a file (RelayStore::open)
    dirty,       \* Persistence.dirty
    lastFlush,   \* Persistence.last_flush
    holder,      \* the thread that holds the persistence mutex, or None
    disk,        \* what open reads from the file at Persistence.path
    tmp,         \* the temporary file next to it
    image,       \* the bytes a flush has serialized
    now,         \* the clock
    pc,          \* [Thread -> where the thread is in its call]
    arg,         \* [Thread -> what its call has read so far]
    version,     \* history: how many changes the state in memory is made of
    promised,    \* history: the last version a flush() reported as written
    arrived,     \* history: how many messages were queued, ever
    taken,       \* history: [Mailbox -> messages polled since the start]
    crashes      \* how often the process was killed

memory == <<keys, queues, entries>>
file == <<persistent, disk, tmp>>
flushing == <<dirty, lastFlush, holder, image>>
history == <<promised, arrived, taken>>
vars == <<memory, file, flushing, now, pc, arg, version, history, crashes>>

Message == [id : Nat, size : Nat, at : Nat]
Image == [keys : [Identity -> Seq(Nat) \cup {None}],
          queues : [Mailbox -> Seq(Message)],
          entries : SUBSET Mailbox, version : Nat]
PC == {"idle", "push", "drain", "sweep", "mark", "forced",
       "serialize", "write", "rename"}
Arg == [box : Mailbox \cup {None}, size : Nat, time : Nat,
        batch : SUBSET Nat, want : Nat]

\* What a thread knows between two calls.
NoArg == [box |-> None, size |-> 0, time |-> 0, batch |-> {}, want |-> 0]

\* The prekeys a client publishes: a run of consecutive ids.
Pools == {[i \in 1 .. n |-> first + i - 1] : first \in 1 .. MaxOpk, n \in 0 .. MaxPool}

TypeOK ==
    /\ keys \in [Identity -> Seq(Nat) \cup {None}]
    /\ queues \in [Mailbox -> Seq(Message)]
    /\ entries \in SUBSET Mailbox
    /\ persistent \in BOOLEAN
    /\ dirty \in BOOLEAN
    /\ lastFlush \in Int
    /\ holder \in Thread \cup {None}
    /\ disk \in Image
    /\ tmp \in Image \cup {None, Torn}
    /\ image \in Image \cup {None}
    /\ now \in Nat
    /\ pc \in [Thread -> PC]
    /\ arg \in [Thread -> Arg]
    /\ version \in Nat
    /\ promised \in Nat
    /\ arrived \in Nat
    /\ taken \in [Mailbox -> SUBSET Nat]
    /\ crashes \in Nat

\* Inner::default(), which is also what open makes of a missing file.
Empty == [keys |-> [k \in Identity |-> None], queues |-> [b \in Mailbox |-> <<>>],
          entries |-> {}, version |-> 0]

\* RelayStore::with_limits, or RelayStore::open where there is no file yet.
Init ==
    /\ keys = Empty.keys
    /\ queues = Empty.queues
    /\ entries = Empty.entries
    /\ persistent \in FileBacked
    /\ dirty = FALSE
    /\ lastFlush = 0
    /\ holder = None
    /\ disk = Empty
    /\ tmp = None
    /\ image = None
    /\ now = 0
    /\ pc = [t \in Thread |-> "idle"]
    /\ arg = [t \in Thread |-> NoArg]
    /\ version = 0
    /\ promised = 0
    /\ arrived = 0
    /\ taken = [b \in Mailbox |-> {}]
    /\ crashes = 0

-----------------------------------------------------------------------------
(* Queues.                                                                 *)

TotalBytes(q) ==
    LET sum[i \in 0 .. Len(q)] == IF i = 0 THEN 0 ELSE sum[i - 1] + q[i].size
    IN  sum[Len(q)]

Without(q, k) == SubSeq(q, k + 1, Len(q))

\* Mutant: >= in the loop that enforces the count.
CapCountEager(q) ==
    Without(q, IF Len(q) >= MaxMailboxMessages THEN Len(q) - MaxMailboxMessages + 1 ELSE 0)

\* The first loop of enqueue_at drops the oldest down to the message count.
CapCount(q) ==
    Without(q, IF Len(q) > MaxMailboxMessages THEN Len(q) - MaxMailboxMessages ELSE 0)

\* Mutant: the byte cap tests the message that arrived, not the total.
CapBytesLast(q) == IF q # <<>> /\ q[Len(q)].size > MaxMailboxBytes THEN <<>> ELSE q

\* The second pops the oldest for as long as the total is over the byte cap:
\* once for every number of messages whose loss is still too little.
CapBytes(q) ==
    Without(q, Cardinality({k \in 0 .. (Len(q) - 1) :
                               TotalBytes(Without(q, k)) > MaxMailboxBytes}))

\* now.saturating_sub(mail_ttl_secs)
Cutoff(time) == IF time < MailTtlSecs THEN 0 ELSE time - MailTtlSecs

\* What is left of a queue without the messages older than the cutoff.
Unexpired(q, time) ==
    LET kept[i \in 0 .. Len(q)] ==
            IF i = 0 THEN <<>>
            ELSE IF q[i].at >= Cutoff(time) THEN Append(kept[i - 1], q[i])
            ELSE kept[i - 1]
    IN  kept[Len(q)]

Ids(q) == {q[i].id : i \in 1 .. Len(q)}

-----------------------------------------------------------------------------
(* The directory.                                                          *)

Idle(t) == pc[t] = "idle"

Goto(t, l) == pc' = [pc EXCEPT ![t] = l]

\* publish, up to the end of its section: replaces the whole pool.
Publish(t, k, pool) ==
    /\ Idle(t)
    /\ version < MaxMutations
    /\ keys' = [keys EXCEPT ![k] = pool]
    /\ version' = version + 1
    /\ Goto(t, "mark")
    /\ UNCHANGED <<queues, entries, file, flushing, now, arg, promised, arrived,
                   taken, crashes>>

\* fetch_bundle of an identity whose pool is not empty: pop_front.  (For an unknown
\* identity and for an empty pool it changes nothing and marks nothing.)
FetchBundle(t, k) ==
    /\ Idle(t)
    /\ version < MaxMutations
    /\ keys[k] \notin {None, <<>>}
    /\ keys' = [keys EXCEPT ![k] = Tail(@)]
    /\ version' = version + 1
    /\ Goto(t, "mark")
    /\ UNCHANGED <<queues, entries, file, flushing, now, arg, promised, arrived,
                   taken, crashes>>

-----------------------------------------------------------------------------
(* The mailboxes.  enqueue and poll read the clock before they lock.       *)

\* enqueue: the clock and the size check; a larger message is refused here.
Enqueue(t, b, size) ==
    /\ Idle(t)
    /\ version < MaxMutations
    /\ size <= MaxMessageBytes
    /\ arg' = [arg EXCEPT ![t] = [NoArg EXCEPT !.box = b, !.size = size, !.time = now]]
    /\ Goto(t, "push")
    /\ UNCHANGED <<memory, file, flushing, now, version, history, crashes>>

\* enqueue_at's section: push, then both caps.
EnqueueAt(t) ==
    LET b == arg[t].box
        m == [id |-> arrived + 1, size |-> arg[t].size, at |-> arg[t].time]
    IN  /\ pc[t] = "push"
        /\ queues' = [queues EXCEPT ![b] = CapBytes(CapCount(Append(@, m)))]
        /\ entries' = entries \cup {b}
        /\ arrived' = arrived + 1
        /\ version' = version + 1
        /\ arg' = [arg EXCEPT ![t] = NoArg]
        /\ Goto(t, "mark")
        /\ UNCHANGED <<keys, file, flushing, now, promised, taken, crashes>>

Poll(t, b) ==
    /\ Idle(t)
    /\ version < MaxMutations
    /\ arg' = [arg EXCEPT ![t] = [NoArg EXCEPT !.box = b, !.time = now]]
    /\ Goto(t, "drain")
    /\ UNCHANGED <<memory, file, flushing, now, version, history, crashes>>

\* Mutant: the queue is read with get, not taken with remove.
DrainedKeeps(b) == queues

Drained(b) == [queues EXCEPT ![b] = <<>>]

\* poll_at's section.  What has expired is left out of the batch; the batch is
\* the caller's once mark_dirty has returned.
PollAt(t) ==
    LET b == arg[t].box
        got == Ids(Unexpired(queues[b], arg[t].time))
    IN  /\ pc[t] = "drain"
        /\ IF b \in entries
             THEN /\ queues' = Drained(b)
                  /\ entries' = entries \ {b}
                  /\ taken' = [taken EXCEPT ![b] = @ \cup got]
                  /\ version' = version + 1
                  /\ arg' = [arg EXCEPT ![t] = [NoArg EXCEPT !.batch = got]]
                  /\ Goto(t, "mark")
             ELSE /\ arg' = [arg EXCEPT ![t] = NoArg]
                  /\ Goto(t, "idle")
                  /\ UNCHANGED <<queues, entries, taken, version>>
        /\ UNCHANGED <<keys, file, flushing, now, promised, arrived, crashes>>

SweepExpired(t) ==
    /\ Idle(t)
    /\ arg' = [arg EXCEPT ![t] = [NoArg EXCEPT !.time = now]]
    /\ Goto(t, "sweep")
    /\ UNCHANGED <<memory, file, flushing, now, version, history, crashes>>

\* sweep_expired_at's section, over all mailboxes.  Empty mailboxes lose their
\* entries even when no message was removed, which marks nothing.
SweepExpiredAt(t) ==
    LET swept == [b \in Mailbox |-> Unexpired(queues[b], arg[t].time)]
    IN  /\ pc[t] = "sweep"
        /\ queues' = swept
        /\ entries' = {b \in entries : swept[b] # <<>>}
        /\ arg' = [arg EXCEPT ![t] = NoArg]
        /\ IF swept = queues THEN UNCHANGED version ELSE version' = version + 1
        /\ Goto(t, IF swept = queues THEN "idle" ELSE "mark")
        /\ UNCHANGED <<keys, file, flushing, now, history, crashes>>

\* Mutant: dirty is an atomic flag outside the mutex.
PersistenceFreeAlways == TRUE

PersistenceFree == holder = None

\* mark_dirty, the end of every mutator; a poll returns its batch after it.
MarkDirty(t) ==
    /\ pc[t] = "mark"
    /\ PersistenceFree
    /\ dirty' = (dirty \/ persistent)
    /\ arg' = [arg EXCEPT ![t] = NoArg]
    /\ Goto(t, "idle")
    /\ UNCHANGED <<memory, file, lastFlush, holder, image, now, version, promised,
                   arrived, taken, crashes>>

-----------------------------------------------------------------------------
(* The snapshot.                                                           *)

FlushDue == dirty /\ now - lastFlush >= FlushIntervalSecs

\* maybe_flush takes the persistence mutex and finds work to do.
FlushBegin(t) ==
    /\ pc[t] \in {"idle", "forced"}
    /\ persistent
    /\ PersistenceFree
    /\ FlushDue
    /\ holder' = t
    /\ Goto(t, "serialize")
    /\ UNCHANGED <<memory, file, dirty, lastFlush, image, now, arg, version,
                   history, crashes>>

\* Mutant: flush leaves the throttle alone.
DueNowThrottled == UNCHANGED lastFlush

DueNow == lastFlush' = now - (FlushIntervalSecs + 1)

\* The part of flush before its maybe_flush: due, whatever the clock says.
Flush(t) ==
    /\ Idle(t)
    /\ persistent
    /\ PersistenceFree
    /\ dirty' = TRUE
    /\ DueNow
    /\ arg' = [arg EXCEPT ![t] = [NoArg EXCEPT !.want = version]]
    /\ Goto(t, "forced")
    /\ UNCHANGED <<memory, file, holder, image, now, version, history, crashes>>

\* t's call returns Ok: of a flush it says that what it saw is on disk.
Returned(t) ==
    /\ promised' = IF arg[t].want > promised THEN arg[t].want ELSE promised
    /\ arg' = [arg EXCEPT ![t] = NoArg]
    /\ Goto(t, "idle")

\* flush's maybe_flush finds that another thread has just written.
FlushNotDue(t) ==
    /\ pc[t] = "forced"
    /\ PersistenceFree
    /\ ~FlushDue
    /\ Returned(t)
    /\ UNCHANGED <<memory, file, flushing, now, version, arrived, taken, crashes>>

\* The image is serialized under the inner mutex.
FlushSerialize(t) ==
    /\ pc[t] = "serialize"
    /\ image' = [keys |-> keys, queues |-> queues, entries |-> entries,
                 version |-> version]
    /\ Goto(t, "write")
    /\ UNCHANGED <<memory, file, dirty, lastFlush, holder, now, arg, version,
                   history, crashes>>

FlushWritten(t) ==
    /\ pc[t] = "write"
    /\ tmp' = image
    /\ Goto(t, "rename")
    /\ UNCHANGED <<memory, persistent, disk, flushing, now, arg, version, history,
                   crashes>>

\* Mutant: the result of the write is dropped.
FlushFailsUnnoticed(t) == Goto(t, "rename") /\ UNCHANGED <<flushing, arg>>

\* Mutant: the error path clears dirty, too.
FlushFailsClean(t) ==
    /\ holder' = None
    /\ image' = None
    /\ dirty' = FALSE
    /\ arg' = [arg EXCEPT ![t] = NoArg]
    /\ Goto(t, "idle")
    /\ UNCHANGED lastFlush

\* An i/o error returns through `?`: the guard is dropped, dirty stays set.
FlushFails(t) ==
    /\ holder' = None
    /\ image' = None
    /\ arg' = [arg EXCEPT ![t] = NoArg]
    /\ Goto(t, "idle")
    /\ UNCHANGED <<dirty, lastFlush>>

FlushWriteFails(t) ==
    /\ pc[t] = "write"
    /\ tmp' = Torn
    /\ FlushFails(t)
    /\ UNCHANGED <<memory, persistent, disk, now, version, history, crashes>>

FlushRenamed(t) ==
    /\ pc[t] = "rename"
    /\ disk' = tmp
    /\ tmp' = None
    /\ dirty' = FALSE
    /\ lastFlush' = now
    /\ holder' = None
    /\ image' = None
    /\ Returned(t)
    /\ UNCHANGED <<memory, persistent, now, version, arrived, taken, crashes>>

FlushRenameFails(t) ==
    /\ pc[t] = "rename"
    /\ FlushFails(t)
    /\ UNCHANGED <<memory, file, now, version, history, crashes>>

-----------------------------------------------------------------------------
\* The process is killed between any two steps, and started again with the
\* same --state (a memory-only relay starts empty).
Crash ==
    /\ crashes < MaxCrashes
    /\ crashes' = crashes + 1
    /\ keys' = disk.keys
    /\ queues' = disk.queues
    /\ entries' = disk.entries
    /\ version' = disk.version
    /\ dirty' = FALSE
    /\ lastFlush' = now
    /\ holder' = None
    /\ image' = None
    /\ pc' = [t \in Thread |-> "idle"]
    /\ arg' = [t \in Thread |-> NoArg]
    /\ taken' = [b \in Mailbox |-> {}]
    /\ UNCHANGED <<file, now, promised, arrived>>

Tick ==
    /\ now < MaxTime
    /\ now' = now + 1
    /\ UNCHANGED <<memory, file, flushing, pc, arg, version, history, crashes>>

\* The calls, and the steps of a call that is under way.
Calls(t) ==
    \/ \E k \in Identity : \E pool \in Pools : Publish(t, k, pool)
    \/ \E k \in Identity : FetchBundle(t, k)
    \/ \E b \in Mailbox : \E size \in MessageSizes : Enqueue(t, b, size)
    \/ \E b \in Mailbox : Poll(t, b)
    \/ SweepExpired(t)
    \/ Flush(t)

Steps(t) ==
    \/ EnqueueAt(t)
    \/ PollAt(t)
    \/ SweepExpiredAt(t)
    \/ MarkDirty(t)
    \/ FlushBegin(t)
    \/ FlushNotDue(t)
    \/ FlushSerialize(t)
    \/ FlushWritten(t)
    \/ FlushWriteFails(t)
    \/ FlushRenamed(t)
    \/ FlushRenameFails(t)

Next ==
    \/ \E t \in Thread : Calls(t) \/ Steps(t)
    \/ Crash
    \/ Tick

Spec == Init /\ [][Next]_vars

-----------------------------------------------------------------------------
\* flush reports Ok only once everything it saw is in the file, however its
\* two critical sections interleave with the flushes of other threads, and no
\* hard kill or failed write between any two steps takes it out again.
FlushIsDurable == promised <= disk.version

\* Marking the store dirty outside the inner mutex loses no change: a store
\* that is clean, with no thread on its way to mark_dirty, has exactly its
\* prekeys and its mail in the file.  (A flush that overlaps a mutator must not
\* clear the mark of a change it did not serialize.)
CleanMeansSaved ==
    persistent /\ ~dirty /\ (\A t \in Thread : pc[t] # "mark") =>
        disk.keys = keys /\ disk.queues = queues

\* Both caps hold in every mailbox at every moment another thread can look.
CapsRespected ==
    \A b \in Mailbox : /\ Len(queues[b]) <= MaxMailboxMessages
                       /\ TotalBytes(queues[b]) <= MaxMailboxBytes

\* Mail is taken in order of arrival and once: in every mailbox what is queued
\* arrived after all that was polled, in the order of the queue, although
\* concurrent callers read the clock before they lock.
PolledInOrderOnce ==
    \A b \in Mailbox : \A i \in 1 .. Len(queues[b]) :
        /\ \A j \in taken[b] : j < queues[b][i].id
        /\ \A j \in 1 .. (i - 1) : queues[b][j].id < queues[b][i].id

\* A queued message leaves its mailbox only into the batch of a poll, because
\* its time is over, or because newer mail filled the mailbox to a cap.  A hard
\* kill aside, nothing else removes mail.
MailLeavesForAReason ==
    [][crashes' = crashes =>
        \A b \in Mailbox : \A i \in 1 .. Len(queues[b]) :
            LET m == queues[b][i]
            IN  \/ m.id \in Ids(queues'[b])
                \/ m.id \in taken'[b]
                \/ m.at + MailTtlSecs < now
                \/ /\ arrived' = arrived + 1
                   /\ \/ Len(queues[b]) >= MaxMailboxMessages
                      \/ \E t \in Thread : /\ pc[t] = "push"
                                           /\ TotalBytes(queues[b]) + arg[t].size
                                                > MaxMailboxBytes]_vars
=============================================================================
