----------------------------- MODULE RelayProofs -----------------------------
(***************************************************************************)
(* Theorems about RelayStore: marking the store dirty outside the inner    *)
(* mutex loses no change, flush keeps its promise, and mail is kept within *)
(* the limits, in order and handed out once, for any number of threads,    *)
(* calls, failed writes and hard kills.                                    *)
(*                                                                         *)
(* And about RelayServer: the request loop is one of the callers that      *)
(* RelayStore allows, so what is proved of the store holds of the relay,   *)
(* and the limiter serves every client exactly its budget, for any number  *)
(* of clients, any limit and any length of a minute.                       *)
(***************************************************************************)
EXTENDS RelayServer, TLAPS, SequenceTheorems, FiniteSetTheorems, WellFoundedInduction

\* A thread is past its critical section and has not marked the store yet.
Marked == \E t \in Thread : pc[t] = "mark"

\* The steps during which a thread holds the persistence mutex.
InFlush(t) == pc[t] \in {"serialize", "write", "rename"}

\* The types the argument needs.
ControlType ==
    /\ pc \in [Thread -> PC]
    /\ arg = [t \in Thread |-> arg[t]]
    /\ \A t \in Thread : arg[t].want \in Nat
    /\ version \in Nat
    /\ promised \in Nat
    /\ disk.version \in Nat
    /\ now \in Int
    /\ lastFlush \in Int
    /\ dirty \in BOOLEAN
    /\ persistent \in BOOLEAN

\* What is written is never ahead of memory nor behind a promise.
VersionInv ==
    /\ promised <= disk.version
    /\ disk.version <= version
    /\ \A t \in Thread : arg[t].want <= version

\* One thread flushes at a time, of a store that stays dirty until the rename.
MutexInv ==
    \A t \in Thread : InFlush(t) => holder = t /\ dirty /\ persistent

\* The serialized image is between file and memory, has all that the callers
\* of flush wait for, and lacks only changes whose threads are still to mark.
ImageInv ==
    \A t \in Thread : pc[t] \in {"write", "rename"} =>
        /\ image.version \in Nat
        /\ disk.version <= image.version /\ image.version <= version
        /\ arg[t].want <= image.version
        /\ \A u \in Thread : pc[u] = "forced" => arg[u].want <= image.version
        /\ Marked \/ (image.keys = keys /\ image.queues = queues)
        /\ pc[t] = "rename" => tmp = image

\* A flush that another thread got ahead of finds its work due or done.
ForcedInv ==
    \A t \in Thread : pc[t] = "forced" =>
        \/ arg[t].want <= disk.version
        \/ dirty /\ now - lastFlush >= FlushIntervalSecs

StoreInv ==
    /\ ControlType
    /\ VersionInv
    /\ MutexInv
    /\ ImageInv
    /\ ForcedInv
    /\ CleanMeansSaved

-----------------------------------------------------------------------------
\* Initially memory and file are both empty.
LEMMA InitStoreInv == Init => StoreInv
<1> SUFFICES ASSUME Init
             PROVE  StoreInv
  OBVIOUS
<1>1. /\ Empty.version = 0
      /\ \A t \in Thread : pc[t] = "idle" /\ arg[t] = NoArg
      /\ disk = Empty /\ keys = Empty.keys /\ queues = Empty.queues
      /\ NoArg.want = 0
  BY DEF Init, Empty, NoArg
<1>2. ControlType
  <2>1. pc \in [Thread -> PC]
    BY DEF Init, PC
  <2>2. arg = [t \in Thread |-> arg[t]]
    BY DEF Init
  <2>3. persistent \in BOOLEAN
    BY StoreAssumption DEF Init
  <2>4. \A t \in Thread : arg[t].want \in Nat
    BY <1>1
  <2>5. disk.version \in Nat /\ version \in Nat /\ promised \in Nat
    BY <1>1 DEF Init
  <2>6. now \in Int /\ lastFlush \in Int
    BY DEF Init
  <2>7. dirty \in BOOLEAN
    BY DEF Init
  <2> QED BY <2>1, <2>2, <2>3, <2>4, <2>5, <2>6, <2>7 DEF ControlType
<1>3. VersionInv
  BY <1>1 DEF Init, VersionInv
<1>4. MutexInv /\ ImageInv /\ ForcedInv
  BY <1>1 DEF MutexInv, ImageInv, ForcedInv, InFlush
<1>5. CleanMeansSaved
  BY <1>1 DEF CleanMeansSaved
<1> QED BY <1>2, <1>3, <1>4, <1>5 DEF StoreInv

\* No other thread's arguments change, and t waits for nothing new.
SameWants(t) ==
    /\ arg' = [u \in Thread |-> arg'[u]]
    /\ arg'[t].want \in {0, arg[t].want}
    /\ \A u \in Thread : u # t => arg'[u] = arg[u]

\* A step that neither touches memory nor the snapshot.
Quiet(t) ==
    /\ pc[t] \in {"idle", "push", "drain", "sweep"}
    /\ \E l \in {"idle", "push", "drain", "sweep"} : pc' = [pc EXCEPT ![t] = l]
    /\ SameWants(t)
    /\ keys' = keys /\ queues' = queues /\ version' = version

\* A step that changes memory and goes on to mark_dirty.
Change(t) ==
    /\ pc[t] \in {"idle", "push", "drain", "sweep"}
    /\ pc' = [pc EXCEPT ![t] = "mark"]
    /\ SameWants(t)
    /\ version' = version + 1

\* Everything the persistence mutex protects, and the clock, stays.
Aside ==
    /\ persistent' = persistent /\ disk' = disk /\ tmp' = tmp
    /\ dirty' = dirty /\ lastFlush' = lastFlush /\ holder' = holder /\ image' = image
    /\ now' = now /\ promised' = promised

\* A quiet step preserves the invariant.
LEMMA QuietStep ==
    ASSUME StoreInv, NEW t \in Thread, Quiet(t), Aside
    PROVE  StoreInv'
<1>1. PICK l \in {"idle", "push", "drain", "sweep"} : pc' = [pc EXCEPT ![t] = l]
  BY DEF Quiet
<1>3. pc \in [Thread -> PC] /\ arg = [u \in Thread |-> arg[u]]
  BY DEF StoreInv, ControlType
<1>4. /\ pc' \in [Thread -> PC] /\ pc'[t] = l
      /\ \A u \in Thread : u # t => pc'[u] = pc[u]
  BY <1>1, <1>3 DEF PC
<1>5. /\ arg' = [u \in Thread |-> arg'[u]] /\ arg'[t].want \in {0, arg[t].want}
      /\ \A u \in Thread : u # t => arg'[u] = arg[u]
  BY DEF Quiet, SameWants
<1>6. ControlType'
  BY <1>4, <1>5 DEF StoreInv, ControlType, Quiet, Aside
<1>7. VersionInv'
  BY <1>5 DEF StoreInv, ControlType, VersionInv, Quiet, Aside
<1>8. MutexInv'
  BY <1>4 DEF StoreInv, MutexInv, InFlush, Aside
<1>9. Marked => Marked'
  BY <1>4 DEF Marked, Quiet
<1>10. ImageInv'
  <2> SUFFICES ASSUME NEW u \in Thread, pc'[u] \in {"write", "rename"}
               PROVE  /\ image.version \in Nat
                      /\ disk.version <= image.version /\ image.version <= version
                      /\ arg'[u].want <= image.version
                      /\ \A v \in Thread : pc'[v] = "forced" => arg'[v].want <= image.version
                      /\ Marked' \/ (image.keys = keys /\ image.queues = queues)
                      /\ pc'[u] = "rename" => tmp = image
    BY DEF ImageInv, Aside, Quiet
  <2>1. u # t /\ pc[u] \in {"write", "rename"} /\ arg'[u] = arg[u] /\ pc'[u] = pc[u]
    BY <1>4, <1>5
  <2>2. \A v \in Thread : pc'[v] = "forced" => pc[v] = "forced" /\ arg'[v] = arg[v]
    BY <1>4, <1>5
  <2> QED BY <1>9, <2>1, <2>2 DEF StoreInv, ImageInv
<1>11. ForcedInv'
  BY <1>4, <1>5 DEF StoreInv, ForcedInv, Aside
<1>12. CleanMeansSaved'
  BY <1>4 DEF StoreInv, CleanMeansSaved, Aside, Quiet
<1> QED BY <1>6, <1>7, <1>8, <1>10, <1>11, <1>12 DEF StoreInv

\* So does a change: until its thread marks the store it is a marked one.
LEMMA ChangeStep ==
    ASSUME StoreInv, NEW t \in Thread, Change(t), Aside
    PROVE  StoreInv'
<1>3. pc \in [Thread -> PC] /\ arg = [u \in Thread |-> arg[u]]
  BY DEF StoreInv, ControlType
<1>4. /\ pc' \in [Thread -> PC] /\ pc'[t] = "mark"
      /\ \A u \in Thread : u # t => pc'[u] = pc[u]
  BY <1>3 DEF PC, Change
<1>5. /\ arg' = [u \in Thread |-> arg'[u]] /\ arg'[t].want \in {0, arg[t].want}
      /\ \A u \in Thread : u # t => arg'[u] = arg[u]
  BY DEF Change, SameWants
<1>6. ControlType'
  BY <1>4, <1>5 DEF StoreInv, ControlType, Change, Aside
<1>7. VersionInv'
  BY <1>5 DEF StoreInv, ControlType, VersionInv, Change, Aside
<1>8. MutexInv'
  BY <1>4 DEF StoreInv, MutexInv, InFlush, Aside
<1>9. Marked'
  BY <1>4 DEF Marked
<1>10. ImageInv'
  <2> SUFFICES ASSUME NEW u \in Thread, pc'[u] \in {"write", "rename"}
               PROVE  /\ image.version \in Nat
                      /\ disk.version <= image.version /\ image.version <= version'
                      /\ arg'[u].want <= image.version
                      /\ \A v \in Thread : pc'[v] = "forced" => arg'[v].want <= image.version
                      /\ pc'[u] = "rename" => tmp = image
    BY <1>9 DEF ImageInv, Aside
  <2>1. u # t /\ pc[u] \in {"write", "rename"} /\ arg'[u] = arg[u] /\ pc'[u] = pc[u]
    BY <1>4, <1>5
  <2>2. \A v \in Thread : pc'[v] = "forced" => pc[v] = "forced" /\ arg'[v] = arg[v]
    BY <1>4, <1>5
  <2>3. image.version \in Nat /\ image.version <= version /\ version \in Nat
    BY <2>1 DEF StoreInv, ImageInv, ControlType
  <2>4. image.version <= version'
    BY <2>3 DEF Change
  <2> QED BY <2>1, <2>2, <2>4 DEF StoreInv, ImageInv
<1>11. ForcedInv'
  BY <1>4, <1>5 DEF StoreInv, ForcedInv, Aside
<1>12. CleanMeansSaved'
  BY <1>4 DEF CleanMeansSaved
<1> QED BY <1>6, <1>7, <1>8, <1>10, <1>11, <1>12 DEF StoreInv

-----------------------------------------------------------------------------
\* An assignment to one thread's arguments that waits for nothing.
LEMMA ArgAssigned ==
    ASSUME StoreInv, NEW t \in Thread, NEW a, a.want = 0,
           arg' = [arg EXCEPT ![t] = a]
    PROVE  SameWants(t)
<1>1. arg = [u \in Thread |-> arg[u]]
  BY DEF StoreInv, ControlType
<1> QED BY <1>1 DEF SameWants

\* Arguments that stay.
LEMMA ArgKept ==
    ASSUME StoreInv, NEW t \in Thread, arg' = arg
    PROVE  SameWants(t)
BY DEF StoreInv, ControlType, SameWants

\* publish, fetch_bundle and the first halves of enqueue, poll and sweep_expired.
LEMMA CallSteps ==
    ASSUME StoreInv, NEW t \in Thread, Calls(t), ~Flush(t)
    PROVE  StoreInv'
<1> USE DEF file, flushing, history, memory, Idle, Goto
<1>1. ASSUME NEW k \in Identity, NEW pool \in Pools, Publish(t, k, pool)
      PROVE  StoreInv'
  BY <1>1, ArgKept, ChangeStep DEF Publish, Change, Aside
<1>2. ASSUME NEW k \in Identity, FetchBundle(t, k)
      PROVE  StoreInv'
  BY <1>2, ArgKept, ChangeStep DEF FetchBundle, Change, Aside
<1>3. ASSUME NEW b \in Mailbox, NEW size \in MessageSizes, Enqueue(t, b, size)
      PROVE  StoreInv'
  <2> DEFINE a == [NoArg EXCEPT !.box = b, !.size = size, !.time = now]
  <2>1. a.want = 0
    BY DEF NoArg
  <2>2. arg' = [arg EXCEPT ![t] = a]
    BY <1>3 DEF Enqueue
  <2> HIDE DEF a
  <2> QED BY <1>3, <2>1, <2>2, ArgAssigned, QuietStep DEF Enqueue, Quiet, Aside
<1>4. ASSUME NEW b \in Mailbox, Poll(t, b)
      PROVE  StoreInv'
  <2> DEFINE a == [NoArg EXCEPT !.box = b, !.time = now]
  <2>1. a.want = 0
    BY DEF NoArg
  <2>2. arg' = [arg EXCEPT ![t] = a]
    BY <1>4 DEF Poll
  <2> HIDE DEF a
  <2> QED BY <1>4, <2>1, <2>2, ArgAssigned, QuietStep DEF Poll, Quiet, Aside
<1>5. CASE SweepExpired(t)
  <2> DEFINE a == [NoArg EXCEPT !.time = now]
  <2>1. a.want = 0
    BY DEF NoArg
  <2>2. arg' = [arg EXCEPT ![t] = a]
    BY <1>5 DEF SweepExpired
  <2> HIDE DEF a
  <2> QED BY <1>5, <2>1, <2>2, ArgAssigned, QuietStep DEF SweepExpired, Quiet, Aside
<1> QED BY <1>1, <1>2, <1>3, <1>4, <1>5 DEF Calls

\* The critical sections of enqueue, poll and sweep_expired.
LEMMA SectionSteps ==
    ASSUME StoreInv, NEW t \in Thread,
           EnqueueAt(t) \/ PollAt(t) \/ SweepExpiredAt(t)
    PROVE  StoreInv'
<1> USE DEF file, flushing, history, memory, Goto
<1>1. NoArg.want = 0
  BY DEF NoArg
<1>2. CASE EnqueueAt(t)
  <2>1. arg' = [arg EXCEPT ![t] = NoArg]
    BY <1>2 DEF EnqueueAt
  <2> QED BY <1>1, <1>2, <2>1, ArgAssigned, ChangeStep DEF EnqueueAt, Change, Aside
<1>3. CASE PollAt(t) /\ arg[t].box \in entries
  <2> DEFINE got == Ids(Unexpired(queues[arg[t].box], arg[t].time))
             a == [NoArg EXCEPT !.batch = got]
  <2>1. a.want = 0
    BY DEF NoArg
  <2>2. arg' = [arg EXCEPT ![t] = a]
    BY <1>3 DEF PollAt
  <2> HIDE DEF a
  <2> QED BY <1>3, <2>1, <2>2, ArgAssigned, ChangeStep DEF PollAt, Change, Aside
<1>4. CASE PollAt(t) /\ arg[t].box \notin entries
  <2>1. arg' = [arg EXCEPT ![t] = NoArg]
    BY <1>4 DEF PollAt
  <2> QED BY <1>1, <1>4, <2>1, ArgAssigned, QuietStep DEF PollAt, Quiet, Aside
<1>5. CASE SweepExpiredAt(t)
  <2> DEFINE swept == [b \in Mailbox |-> Unexpired(queues[b], arg[t].time)]
  <2>1. arg' = [arg EXCEPT ![t] = NoArg] /\ queues' = swept
    BY <1>5 DEF SweepExpiredAt
  <2>2. CASE swept = queues
    BY <1>1, <1>5, <2>1, <2>2, ArgAssigned, QuietStep DEF SweepExpiredAt, Quiet, Aside
  <2>3. CASE swept # queues
    BY <1>1, <1>5, <2>1, <2>3, ArgAssigned, ChangeStep DEF SweepExpiredAt, Change, Aside
  <2> QED BY <2>2, <2>3
<1> QED BY <1>2, <1>3, <1>4, <1>5

-----------------------------------------------------------------------------
\* What an assignment to the position and the arguments of one thread does.
LEMMA Moved ==
    ASSUME StoreInv, NEW t \in Thread, NEW l \in PC, NEW a,
           pc' = [pc EXCEPT ![t] = l], arg' = [arg EXCEPT ![t] = a]
    PROVE  /\ pc' \in [Thread -> PC] /\ pc'[t] = l
           /\ \A u \in Thread : u # t => pc'[u] = pc[u]
           /\ arg' = [u \in Thread |-> arg'[u]] /\ arg'[t] = a
           /\ \A u \in Thread : u # t => arg'[u] = arg[u]
BY DEF StoreInv, ControlType

\* The same where the arguments stay.
LEMMA MovedOnly ==
    ASSUME StoreInv, NEW t \in Thread, NEW l \in PC,
           pc' = [pc EXCEPT ![t] = l], arg' = arg
    PROVE  /\ pc' \in [Thread -> PC] /\ pc'[t] = l
           /\ \A u \in Thread : u # t => pc'[u] = pc[u]
           /\ arg' = [u \in Thread |-> arg'[u]]
BY DEF StoreInv, ControlType

\* Nobody flushes while the persistence mutex is free.
LEMMA FreeMeansNoFlush ==
    ASSUME StoreInv, PersistenceFree
    PROVE  \A u \in Thread : ~InFlush(u)
BY StoreAssumption DEF StoreInv, MutexInv, PersistenceFree

\* Nobody else flushes while one thread does.
LEMMA FlushAlone ==
    ASSUME StoreInv, NEW t \in Thread, InFlush(t)
    PROVE  /\ \A u \in Thread : u # t => ~InFlush(u)
           /\ dirty /\ persistent
BY DEF StoreInv, MutexInv

\* mark_dirty sets the mark that stands for the thread's change from now on.
LEMMA MarkDirtyStep ==
    ASSUME StoreInv, NEW t \in Thread, MarkDirty(t)
    PROVE  StoreInv'
<1> USE DEF file, memory, Goto
<1>1. NoArg.want = 0 /\ "idle" \in PC
  BY DEF NoArg, PC
<1>2. /\ pc' \in [Thread -> PC] /\ pc'[t] = "idle"
      /\ \A u \in Thread : u # t => pc'[u] = pc[u]
      /\ arg' = [u \in Thread |-> arg'[u]] /\ arg'[t] = NoArg
      /\ \A u \in Thread : u # t => arg'[u] = arg[u]
  BY <1>1, Moved DEF MarkDirty
<1>3. \A u \in Thread : ~InFlush(u)
  BY FreeMeansNoFlush DEF MarkDirty
<1>4. \A u \in Thread : pc'[u] \notin {"serialize", "write", "rename"}
  BY <1>2, <1>3 DEF InFlush
<1>5. dirty' \in BOOLEAN
  BY DEF MarkDirty
<1>6. ControlType'
  BY <1>1, <1>2, <1>5 DEF StoreInv, ControlType, MarkDirty
<1>7. VersionInv'
  BY <1>1, <1>2 DEF StoreInv, ControlType, VersionInv, MarkDirty
<1>8. MutexInv' /\ ImageInv'
  BY <1>4 DEF MutexInv, ImageInv, InFlush
<1>9. ForcedInv'
  BY <1>2 DEF StoreInv, ForcedInv, MarkDirty
<1>10. CleanMeansSaved'
  BY DEF CleanMeansSaved, MarkDirty
<1> QED BY <1>6, <1>7, <1>8, <1>9, <1>10 DEF StoreInv

\* flush makes the work of every flush that is under way due again.
LEMMA FlushStep ==
    ASSUME StoreInv, NEW t \in Thread, Flush(t)
    PROVE  StoreInv'
<1> USE DEF file, memory, history, Goto
<1> DEFINE a == [NoArg EXCEPT !.want = version]
<1>1. a.want = version /\ "forced" \in PC
  BY DEF NoArg, PC
<1>2. arg' = [arg EXCEPT ![t] = a]
  BY DEF Flush
<1> HIDE DEF a
<1>3. /\ pc' \in [Thread -> PC] /\ pc'[t] = "forced"
      /\ \A u \in Thread : u # t => pc'[u] = pc[u]
      /\ arg' = [u \in Thread |-> arg'[u]] /\ arg'[t] = a
      /\ \A u \in Thread : u # t => arg'[u] = arg[u]
  BY <1>1, <1>2, Moved DEF Flush
<1>4. \A u \in Thread : ~InFlush(u)
  BY FreeMeansNoFlush DEF Flush
<1>5. \A u \in Thread : pc'[u] \notin {"serialize", "write", "rename"}
  BY <1>3, <1>4 DEF InFlush
<1>6. version \in Nat /\ now \in Int
  BY DEF StoreInv, ControlType
<1>7. lastFlush' \in Int /\ now' - lastFlush' >= FlushIntervalSecs
  BY <1>6 DEF Flush, DueNow, FlushIntervalSecs
<1>8. ControlType'
  BY <1>1, <1>3, <1>6, <1>7 DEF StoreInv, ControlType, Flush
<1>9. VersionInv'
  BY <1>1, <1>3, <1>6 DEF StoreInv, VersionInv, Flush
<1>10. MutexInv' /\ ImageInv'
  BY <1>5 DEF MutexInv, ImageInv, InFlush
<1>11. ForcedInv'
  BY <1>7 DEF ForcedInv, Flush
<1>12. CleanMeansSaved'
  BY DEF CleanMeansSaved, Flush
<1> QED BY <1>8, <1>9, <1>10, <1>11, <1>12 DEF StoreInv

\* maybe_flush begins only on a dirty store.
LEMMA FlushBeginStep ==
    ASSUME StoreInv, NEW t \in Thread, FlushBegin(t)
    PROVE  StoreInv'
<1> USE DEF file, memory, history, Goto
<1>1. /\ pc' \in [Thread -> PC] /\ pc'[t] = "serialize"
      /\ \A u \in Thread : u # t => pc'[u] = pc[u]
      /\ arg' = [u \in Thread |-> arg'[u]]
  <2>1. "serialize" \in PC
    BY DEF PC
  <2> QED BY <2>1, MovedOnly DEF FlushBegin
<1>2. \A u \in Thread : ~InFlush(u)
  BY FreeMeansNoFlush DEF FlushBegin
<1>3. \A u \in Thread : /\ pc'[u] \notin {"write", "rename"}
                        /\ u # t => ~(InFlush(u))'
  BY <1>1, <1>2 DEF InFlush
<1>4. ControlType'
  BY <1>1 DEF StoreInv, ControlType, FlushBegin
<1>5. VersionInv'
  BY DEF StoreInv, VersionInv, FlushBegin
<1>6. MutexInv'
  BY <1>3 DEF MutexInv, FlushBegin, FlushDue
<1>7. ImageInv'
  BY <1>3 DEF ImageInv
<1>8. ForcedInv'
  BY <1>1 DEF StoreInv, ForcedInv, FlushBegin
<1>9. CleanMeansSaved'
  BY DEF CleanMeansSaved, FlushBegin, FlushDue
<1> QED BY <1>4, <1>5, <1>6, <1>7, <1>8, <1>9 DEF StoreInv

\* A flush that finds nothing due returns Ok, and rightly so.
LEMMA FlushNotDueStep ==
    ASSUME StoreInv, NEW t \in Thread, FlushNotDue(t)
    PROVE  StoreInv'
<1> USE DEF file, memory, flushing, Goto, Returned
<1>1. NoArg.want = 0 /\ "idle" \in PC
  BY DEF NoArg, PC
<1>2. /\ pc' \in [Thread -> PC] /\ pc'[t] = "idle"
      /\ \A u \in Thread : u # t => pc'[u] = pc[u]
      /\ arg' = [u \in Thread |-> arg'[u]] /\ arg'[t] = NoArg
      /\ \A u \in Thread : u # t => arg'[u] = arg[u]
  BY <1>1, Moved DEF FlushNotDue
<1>3. \A u \in Thread : ~InFlush(u)
  BY FreeMeansNoFlush DEF FlushNotDue
<1>4. \A u \in Thread : pc'[u] \notin {"serialize", "write", "rename"}
  BY <1>2, <1>3 DEF InFlush
<1>5. arg[t].want <= disk.version
  BY DEF FlushNotDue, FlushDue, StoreInv, ForcedInv
<1>6. promised' \in Nat /\ promised' <= disk.version
  BY <1>5 DEF FlushNotDue, StoreInv, ControlType, VersionInv
<1>7. ControlType'
  BY <1>1, <1>2, <1>6 DEF StoreInv, ControlType, FlushNotDue
<1>8. VersionInv'
  BY <1>1, <1>2, <1>6 DEF StoreInv, ControlType, VersionInv, FlushNotDue
<1>9. MutexInv' /\ ImageInv'
  BY <1>4 DEF MutexInv, ImageInv, InFlush
<1>10. ForcedInv'
  BY <1>2 DEF StoreInv, ForcedInv, FlushNotDue
<1>11. CleanMeansSaved'
  BY <1>2 DEF StoreInv, CleanMeansSaved, FlushNotDue
<1> QED BY <1>7, <1>8, <1>9, <1>10, <1>11 DEF StoreInv

\* The serialized image has everything that is in memory at that moment.
LEMMA FlushSerializeStep ==
    ASSUME StoreInv, NEW t \in Thread, FlushSerialize(t)
    PROVE  StoreInv'
<1> USE DEF file, memory, history, Goto
<1>1. /\ pc' \in [Thread -> PC] /\ pc'[t] = "write"
      /\ \A u \in Thread : u # t => pc'[u] = pc[u]
      /\ arg' = [u \in Thread |-> arg'[u]]
  <2>1. "write" \in PC
    BY DEF PC
  <2> QED BY <2>1, MovedOnly DEF FlushSerialize
<1>2. InFlush(t)
  BY DEF InFlush, FlushSerialize
<1>3. /\ \A u \in Thread : u # t => ~InFlush(u)
      /\ dirty /\ persistent
  BY <1>2, FlushAlone
<1>4. \A u \in Thread : pc'[u] \in {"write", "rename"} => u = t
  BY <1>1, <1>3 DEF InFlush
<1>5. image'.version = version /\ image'.keys = keys /\ image'.queues = queues
  BY DEF FlushSerialize
<1>6. ControlType'
  BY <1>1 DEF StoreInv, ControlType, FlushSerialize
<1>7. VersionInv'
  BY DEF StoreInv, VersionInv, FlushSerialize
<1>8. MutexInv'
  BY <1>1, <1>2, <1>3 DEF StoreInv, MutexInv, InFlush, FlushSerialize
<1>9. ImageInv'
  <2>1. /\ image'.version \in Nat
        /\ disk'.version <= image'.version /\ image'.version <= version'
        /\ \A u \in Thread : arg'[u].want <= image'.version
        /\ image'.keys = keys' /\ image'.queues = queues'
    BY <1>5 DEF StoreInv, ControlType, VersionInv, FlushSerialize
  <2> QED BY <1>1, <1>4, <2>1 DEF ImageInv
<1>10. ForcedInv'
  BY <1>1 DEF StoreInv, ForcedInv, FlushSerialize
<1>11. CleanMeansSaved'
  BY <1>3 DEF CleanMeansSaved, FlushSerialize
<1> QED BY <1>6, <1>7, <1>8, <1>9, <1>10, <1>11 DEF StoreInv

\* The temporary file gets the image.
LEMMA FlushWrittenStep ==
    ASSUME StoreInv, NEW t \in Thread, FlushWritten(t)
    PROVE  StoreInv'
<1> USE DEF memory, flushing, history, Goto
<1>1. /\ pc' \in [Thread -> PC] /\ pc'[t] = "rename"
      /\ \A u \in Thread : u # t => pc'[u] = pc[u]
      /\ arg' = [u \in Thread |-> arg'[u]]
  <2>1. "rename" \in PC
    BY DEF PC
  <2> QED BY <2>1, MovedOnly DEF FlushWritten
<1>2. InFlush(t)
  BY DEF InFlush, FlushWritten
<1>3. /\ \A u \in Thread : u # t => ~InFlush(u)
      /\ dirty /\ persistent
  BY <1>2, FlushAlone
<1>4. \A u \in Thread : pc'[u] \in {"write", "rename"} => u = t
  BY <1>1, <1>3 DEF InFlush
<1>5. \A u \in Thread : (pc'[u] = "mark" <=> pc[u] = "mark") /\ (pc'[u] = "forced" <=> pc[u] = "forced")
  BY <1>1 DEF FlushWritten
<1>6. ControlType'
  BY <1>1 DEF StoreInv, ControlType, FlushWritten
<1>7. VersionInv'
  BY DEF StoreInv, VersionInv, FlushWritten
<1>8. MutexInv'
  BY <1>1, <1>2, <1>3 DEF StoreInv, MutexInv, InFlush, FlushWritten
<1>9. ImageInv'
  <2>1. pc[t] = "write"
    BY DEF FlushWritten
  <2>2. Marked <=> Marked'
    BY <1>5 DEF Marked
  <2> QED BY <1>4, <1>5, <2>1, <2>2 DEF StoreInv, ImageInv, FlushWritten
<1>10. ForcedInv'
  BY <1>1 DEF StoreInv, ForcedInv, FlushWritten
<1>11. CleanMeansSaved'
  BY <1>3 DEF CleanMeansSaved, FlushWritten
<1> QED BY <1>6, <1>7, <1>8, <1>9, <1>10, <1>11 DEF StoreInv

\* A failed write or rename leaves the store dirty and the file as it was.
LEMMA FlushFailsStep ==
    ASSUME StoreInv, NEW t \in Thread, FlushWriteFails(t) \/ FlushRenameFails(t)
    PROVE  StoreInv'
<1>1. /\ UNCHANGED <<keys, queues, version, persistent, disk, dirty, lastFlush, now, promised>>
      /\ FlushFails(t)
      /\ pc[t] \in {"write", "rename"}
  BY DEF FlushWriteFails, FlushRenameFails, FlushFails, memory, file, history
<1>2. NoArg.want = 0 /\ "idle" \in PC
  BY DEF NoArg, PC
<1>3. /\ pc' \in [Thread -> PC] /\ pc'[t] = "idle"
      /\ \A u \in Thread : u # t => pc'[u] = pc[u]
      /\ arg' = [u \in Thread |-> arg'[u]] /\ arg'[t] = NoArg
      /\ \A u \in Thread : u # t => arg'[u] = arg[u]
  BY <1>1, <1>2, Moved DEF FlushFails, Goto
<1>4. /\ \A u \in Thread : u # t => ~InFlush(u)
      /\ dirty /\ persistent
  BY <1>1, FlushAlone DEF InFlush
<1>5. \A u \in Thread : pc'[u] \notin {"serialize", "write", "rename"}
  BY <1>3, <1>4 DEF InFlush
<1>6. ControlType'
  BY <1>1, <1>2, <1>3 DEF StoreInv, ControlType
<1>7. VersionInv'
  BY <1>1, <1>2, <1>3 DEF StoreInv, ControlType, VersionInv
<1>8. MutexInv' /\ ImageInv'
  BY <1>5 DEF MutexInv, ImageInv, InFlush
<1>9. ForcedInv'
  BY <1>1, <1>3 DEF StoreInv, ForcedInv
<1>10. CleanMeansSaved'
  BY <1>1, <1>4 DEF CleanMeansSaved
<1> QED BY <1>6, <1>7, <1>8, <1>9, <1>10 DEF StoreInv

\* The rename puts the image in place: what it lacks is still to be marked.
LEMMA FlushRenamedStep ==
    ASSUME StoreInv, NEW t \in Thread, FlushRenamed(t)
    PROVE  StoreInv'
<1> USE DEF memory, Goto, Returned
<1>1. NoArg.want = 0 /\ "idle" \in PC
  BY DEF NoArg, PC
<1>2. /\ pc' \in [Thread -> PC] /\ pc'[t] = "idle"
      /\ \A u \in Thread : u # t => pc'[u] = pc[u]
      /\ arg' = [u \in Thread |-> arg'[u]] /\ arg'[t] = NoArg
      /\ \A u \in Thread : u # t => arg'[u] = arg[u]
  BY <1>1, Moved DEF FlushRenamed
<1>3. pc[t] = "rename" /\ InFlush(t)
  BY DEF FlushRenamed, InFlush
<1>4. /\ \A u \in Thread : u # t => ~InFlush(u)
      /\ dirty /\ persistent
  BY <1>3, FlushAlone
<1>5. \A u \in Thread : pc'[u] \notin {"serialize", "write", "rename"}
  BY <1>2, <1>4 DEF InFlush
<1>6. /\ disk' = image
      /\ image.version \in Nat
      /\ disk.version <= image.version /\ image.version <= version
      /\ arg[t].want <= image.version
      /\ \A u \in Thread : pc[u] = "forced" => arg[u].want <= image.version
      /\ Marked \/ (image.keys = keys /\ image.queues = queues)
  BY <1>3 DEF FlushRenamed, StoreInv, ImageInv
<1>7. /\ promised' \in Nat /\ promised' <= disk'.version
      /\ version' = version /\ now' \in Int /\ lastFlush' \in Int
  BY <1>6 DEF FlushRenamed, StoreInv, ControlType, VersionInv
<1>8. dirty' \in BOOLEAN /\ persistent' \in BOOLEAN
  BY DEF FlushRenamed, StoreInv, ControlType
<1>9. ControlType'
  <2>1. \A u \in Thread : arg'[u].want \in Nat
    BY <1>1, <1>2 DEF StoreInv, ControlType
  <2>2. version' \in Nat /\ disk'.version \in Nat
    BY <1>6, <1>7 DEF StoreInv, ControlType
  <2> QED BY <1>2, <1>7, <1>8, <2>1, <2>2 DEF ControlType
<1>10. VersionInv'
  BY <1>1, <1>2, <1>6, <1>7 DEF StoreInv, ControlType, VersionInv
<1>11. MutexInv' /\ ImageInv'
  BY <1>5 DEF MutexInv, ImageInv, InFlush
<1>12. ForcedInv'
  BY <1>2, <1>6 DEF ForcedInv
<1>13. Marked => Marked'
  BY <1>2, <1>3 DEF Marked
<1>14. CleanMeansSaved'
  BY <1>6, <1>13 DEF CleanMeansSaved, Marked, FlushRenamed
<1> QED BY <1>9, <1>10, <1>11, <1>12, <1>14 DEF StoreInv

-----------------------------------------------------------------------------
\* A restart reads the file, which no promise is ahead of.
LEMMA CrashStep ==
    ASSUME StoreInv, Crash
    PROVE  StoreInv'
<1> USE DEF file
<1>1. NoArg.want = 0 /\ "idle" \in PC
  BY DEF NoArg, PC
<1>2. /\ pc' \in [Thread -> PC]
      /\ arg' = [u \in Thread |-> arg'[u]]
      /\ \A u \in Thread : pc'[u] = "idle" /\ arg'[u] = NoArg
  BY <1>1 DEF Crash
<1>3. ControlType'
  <2>1. \A u \in Thread : arg'[u].want \in Nat
    BY <1>1, <1>2
  <2>2. /\ version' \in Nat /\ promised' \in Nat /\ disk'.version \in Nat
        /\ now' \in Int /\ lastFlush' \in Int
    BY DEF StoreInv, ControlType, Crash
  <2>3. dirty' \in BOOLEAN /\ persistent' \in BOOLEAN
    BY DEF StoreInv, ControlType, Crash
  <2> QED BY <1>2, <2>1, <2>2, <2>3 DEF ControlType
<1>4. VersionInv'
  BY <1>1, <1>2 DEF StoreInv, ControlType, VersionInv, Crash
<1>5. MutexInv' /\ ImageInv' /\ ForcedInv'
  BY <1>2 DEF MutexInv, ImageInv, ForcedInv, InFlush
<1>6. CleanMeansSaved'
  BY DEF CleanMeansSaved, Crash
<1> QED BY <1>3, <1>4, <1>5, <1>6 DEF StoreInv

\* Time makes work due and never undue.
LEMMA TickStep ==
    ASSUME StoreInv, Tick
    PROVE  StoreInv'
<1> USE DEF memory, file, flushing, history
<1>1. now \in Int /\ lastFlush \in Int /\ now' = now + 1
  BY DEF Tick, StoreInv, ControlType
<1>2. ControlType'
  BY <1>1 DEF StoreInv, ControlType, Tick
<1>3. VersionInv'
  BY DEF StoreInv, VersionInv, Tick
<1>4. MutexInv'
  BY DEF StoreInv, MutexInv, InFlush, Tick
<1>5. ImageInv'
  BY DEF StoreInv, ImageInv, Marked, Tick
<1>6. ForcedInv'
  BY <1>1 DEF StoreInv, ForcedInv, Tick, FlushIntervalSecs
<1>7. CleanMeansSaved'
  BY DEF StoreInv, CleanMeansSaved, Tick
<1> QED BY <1>2, <1>3, <1>4, <1>5, <1>6, <1>7 DEF StoreInv

\* A stuttering step.
LEMMA StutterStep ==
    ASSUME StoreInv, UNCHANGED vars
    PROVE  StoreInv'
<1> USE DEF vars, memory, file, flushing, history
<1>1. ControlType'
  BY DEF StoreInv, ControlType
<1>2. VersionInv'
  BY DEF StoreInv, VersionInv
<1>3. MutexInv'
  BY DEF StoreInv, MutexInv, InFlush
<1>4. ImageInv'
  BY DEF StoreInv, ImageInv, Marked
<1>5. ForcedInv'
  BY DEF StoreInv, ForcedInv
<1>6. CleanMeansSaved'
  BY DEF StoreInv, CleanMeansSaved
<1> QED BY <1>1, <1>2, <1>3, <1>4, <1>5, <1>6 DEF StoreInv

-----------------------------------------------------------------------------
\* The invariant of the persistence protocol is inductive, whatever the number
\* of threads and however mutators, flushes, failures and kills interleave.
THEOREM StoreInvariance == Spec => []StoreInv
<1>1. ASSUME StoreInv, [Next]_vars
      PROVE  StoreInv'
  <2>1. ASSUME NEW t \in Thread, Calls(t)
        PROVE  StoreInv'
    BY <1>1, <2>1, CallSteps, FlushStep
  <2>2. ASSUME NEW t \in Thread, Steps(t)
        PROVE  StoreInv'
    BY <1>1, <2>2, SectionSteps, MarkDirtyStep, FlushBeginStep, FlushNotDueStep,
       FlushSerializeStep, FlushWrittenStep, FlushFailsStep, FlushRenamedStep
       DEF Steps
  <2>3. CASE Crash
    BY <1>1, <2>3, CrashStep
  <2>4. CASE Tick
    BY <1>1, <2>4, TickStep
  <2>5. CASE UNCHANGED vars
    BY <1>1, <2>5, StutterStep
  <2> QED BY <1>1, <2>1, <2>2, <2>3, <2>4, <2>5 DEF Next
<1> QED BY <1>1, InitStoreInv, PTL DEF Spec

\* mark_dirty, called after the inner mutex was released, loses no change: a
\* clean store with no thread on its way to mark_dirty is the store on disk.
THEOREM CleanIsSaved == Spec => []CleanMeansSaved
<1>1. StoreInv => CleanMeansSaved
  BY DEF StoreInv
<1> QED BY <1>1, StoreInvariance, PTL

\* flush keeps its word: what it reported as written stays in the file, across
\* the flushes of other threads, failed writes and hard kills.
THEOREM FlushKeepsItsWord == Spec => []FlushIsDurable
<1>1. StoreInv => FlushIsDurable
  BY DEF StoreInv, VersionInv, FlushIsDurable
<1> QED BY <1>1, StoreInvariance, PTL

-----------------------------------------------------------------------------
(* Queues: what the caps and the expiry leave of them.                     *)

\* A non-empty set of natural numbers has a smallest element: the induction
\* the proofs below use.
LEMMA SmallestNumber ==
    ASSUME NEW S \in SUBSET Nat, S # {}
    PROVE  \E m \in S : \A k \in S : m <= k
<1>1. IsWellFoundedOn(OpToRel(<, Nat), Nat)
  BY NatLessThanWellFounded
<1>2. PICK m \in S : \A y \in S : ~(<<y, m>> \in OpToRel(<, Nat))
  BY <1>1, WFMin
<1>3. \A k \in S : ~(k < m)
  BY <1>2 DEF OpToRel
<1> QED BY <1>3

\* f holds the bytes of the first messages of q, up to k of them.
IsSums(f, q, k) == f = [i \in 0 .. k |-> IF i = 0 THEN 0 ELSE f[i - 1] + q[i].size]

\* There are such sums.
LEMMA SumsExist ==
    ASSUME NEW q, NEW k \in Nat
    PROVE  \E f : IsSums(f, q, k)
<1> DEFINE Bad == {j \in Nat : ~\E f : IsSums(f, q, j)}
<1>1. ASSUME Bad # {}
      PROVE  FALSE
  <2>1. PICK j \in Bad : \A i \in Bad : j <= i
    BY <1>1, SmallestNumber
  <2>2. j # 0
    <3> DEFINE f == [i \in 0 .. 0 |-> 0]
    <3>1. IsSums(f, q, 0)
      BY DEF IsSums
    <3> QED BY <2>1, <3>1
  <2>3. PICK f : IsSums(f, q, j - 1)
    BY <2>1, <2>2
  <2> DEFINE g == [i \in 0 .. j |-> IF i = j THEN f[j - 1] + q[j].size ELSE f[i]]
  <2>4. \A i \in 0 .. (j - 1) : f[i] = IF i = 0 THEN 0 ELSE f[i - 1] + q[i].size
    BY <2>1, <2>2, <2>3 DEF IsSums
  <2>5. \A i \in 0 .. j : g[i] = IF i = 0 THEN 0 ELSE g[i - 1] + q[i].size
    <3> SUFFICES ASSUME NEW i \in 0 .. j
                 PROVE  g[i] = IF i = 0 THEN 0 ELSE g[i - 1] + q[i].size
      OBVIOUS
    <3>1. CASE i = j
      <4>1. g[j] = f[j - 1] + q[j].size /\ g[j - 1] = f[j - 1]
        BY <2>1, <2>2
      <4> QED BY <2>2, <3>1, <4>1
    <3>2. CASE i # j
      <4>1. i \in 0 .. (j - 1) /\ g[i] = f[i] /\ (i # 0 => g[i - 1] = f[i - 1])
        BY <2>1, <3>2
      <4> QED BY <2>4, <4>1
    <3> QED BY <3>1, <3>2
  <2>6. g = [i \in 0 .. j |-> g[i]]
    OBVIOUS
  <2> HIDE DEF g
  <2>7. IsSums(g, q, j)
    BY <2>5, <2>6 DEF IsSums
  <2> QED BY <2>1, <2>7
<1> QED BY <1>1

\* Sums of the sizes in a queue: numbers, each the one before it and a size.
SumsOf(f, q) ==
    /\ f[0] = 0
    /\ \A i \in 0 .. Len(q) : f[i] \in Nat
    /\ \A i \in 1 .. Len(q) : f[i] = f[i - 1] + q[i].size

\* TotalBytes is the last of them.
LEMMA TotalIsLast ==
    ASSUME NEW q \in Seq(Message)
    PROVE  \E f : SumsOf(f, q) /\ TotalBytes(q) = f[Len(q)]
<1> DEFINE n == Len(q)
           sum == CHOOSE f : IsSums(f, q, n)
<1>1. n \in Nat
  OBVIOUS
<1>2. IsSums(sum, q, n)
  BY <1>1, SumsExist
<1>3. TotalBytes(q) = sum[n]
  BY DEF TotalBytes, IsSums
<1> HIDE DEF sum
<1>4. /\ sum[0] = 0
      /\ \A i \in 1 .. n : sum[i] = sum[i - 1] + q[i].size
  BY <1>1, <1>2 DEF IsSums
<1>5. \A i \in 1 .. n : q[i].size \in Nat
  <2>1. \A i \in 1 .. n : q[i] \in Message
    OBVIOUS
  <2>2. \A m \in Message : m.size \in Nat
    BY DEF Message
  <2> QED BY <2>1, <2>2
<1> HIDE DEF n
<1>6. \A i \in 0 .. n : sum[i] \in Nat
  <2> DEFINE Bad == {i \in 0 .. n : sum[i] \notin Nat}
  <2>1. ASSUME Bad # {}
        PROVE  FALSE
    <3>1. Bad \in SUBSET Nat
      OBVIOUS
    <3>2. PICK i \in Bad : \A j \in Bad : i <= j
      BY <2>1, <3>1, SmallestNumber
    <3>3. i # 0 /\ i \in 1 .. n
      BY <1>1, <1>4, <3>2
    <3>4. sum[i - 1] \in Nat
      BY <1>1, <3>2, <3>3
    <3> QED BY <1>4, <1>5, <3>2, <3>3, <3>4
  <2> QED BY <2>1
<1> QED BY <1>3, <1>4, <1>6 DEF n, SumsOf

\* The sizes of queued messages are numbers.
LEMMA SizesAreNumbers ==
    ASSUME NEW q \in Seq(Message)
    PROVE  \A i \in 1 .. Len(q) : q[i].size \in Nat
<1>1. \A i \in 1 .. Len(q) : q[i] \in Message
  OBVIOUS
<1>2. \A m \in Message : m.size \in Nat
  BY DEF Message
<1> QED BY <1>1, <1>2

\* Two queues that agree on a stretch have the same bytes there.
LEMMA SameStretch ==
    ASSUME NEW p \in Seq(Message), NEW q \in Seq(Message), NEW k \in Nat,
           k + Len(q) <= Len(p), \A i \in 1 .. Len(q) : q[i] = p[k + i],
           NEW f, SumsOf(f, p), NEW g, SumsOf(g, q)
    PROVE  \A i \in 0 .. Len(q) : g[i] = f[k + i] - f[k]
<1> DEFINE n == Len(q)
           Bad == {i \in 0 .. n : g[i] # f[k + i] - f[k]}
<1>1. ASSUME Bad # {}
      PROVE  FALSE
  <2>1. Bad \in SUBSET Nat /\ n \in Nat /\ Len(p) \in Nat
    OBVIOUS
  <2>2. PICK i \in Bad : \A j \in Bad : i <= j
    BY <1>1, <2>1, SmallestNumber
  <2>3. k \in 0 .. Len(p) /\ f[k] \in Nat
    BY <2>1 DEF SumsOf
  <2>4. i # 0
    BY <2>2, <2>3 DEF SumsOf
  <2>5. /\ i \in 1 .. n /\ i - 1 \in 0 .. n /\ i \in 0 .. n /\ k + i \in 1 .. Len(p)
        /\ k + (i - 1) = (k + i) - 1 /\ (k + i) - 1 \in 0 .. Len(p)
    BY <2>1, <2>2, <2>4
  <2>6. g[i - 1] = f[(k + i) - 1] - f[k]
    BY <2>2, <2>5
  <2>7. g[i] = g[i - 1] + q[i].size /\ f[k + i] = f[(k + i) - 1] + q[i].size
    BY <2>5 DEF SumsOf
  <2>8. g[i - 1] \in Nat /\ f[(k + i) - 1] \in Nat
    BY <2>5 DEF SumsOf
  <2>9. q[i].size \in Nat
    BY <2>5, SizesAreNumbers
  <2>10. g[i] = f[k + i] - f[k]
    <3> DEFINE x == g[i - 1]
               y == f[(k + i) - 1]
               w == f[k]
               z == q[i].size
    <3>1. x \in Nat /\ y \in Nat /\ w \in Nat /\ z \in Nat /\ x = y - w
      BY <2>3, <2>6, <2>8, <2>9
    <3>2. g[i] = x + z /\ f[k + i] = y + z BY <2>7
    <3> HIDE DEF x, y, w, z
    <3>3. x + z = (y + z) - w BY <3>1
    <3> QED BY <3>2, <3>3 DEF w
  <2> QED BY <2>2, <2>10
<1> QED BY <1>1

\* A queue without its first k messages.
LEMMA WithoutFields ==
    ASSUME NEW q \in Seq(Message), NEW k \in 0 .. Len(q)
    PROVE  /\ Without(q, k) \in Seq(Message)
           /\ Len(Without(q, k)) = Len(q) - k
           /\ \A i \in 1 .. (Len(q) - k) : Without(q, k)[i] = q[k + i]
<1>1. Len(q) \in Nat /\ k \in Nat
  OBVIOUS
<1>2. /\ SubSeq(q, k + 1, Len(q)) \in Seq(Message)
      /\ Len(SubSeq(q, k + 1, Len(q))) = Len(q) - k
  BY <1>1
<1>3. \A i \in 1 .. (Len(q) - k) : SubSeq(q, k + 1, Len(q))[i] = q[k + i]
  BY <1>1, <1>2
<1> QED BY <1>2, <1>3 DEF Without

\* Dropping the oldest messages drops their bytes, one message at a time.
LEMMA TotalWithout ==
    ASSUME NEW q \in Seq(Message)
    PROVE  /\ TotalBytes(q) \in Nat
           /\ TotalBytes(Without(q, 0)) = TotalBytes(q)
           /\ \A k \in 0 .. Len(q) : /\ TotalBytes(Without(q, k)) \in Nat
                                     /\ TotalBytes(Without(q, k)) <= TotalBytes(q)
           /\ \A k \in 0 .. (Len(q) - 1) :
                 TotalBytes(Without(q, k + 1)) <= TotalBytes(Without(q, k))
           /\ TotalBytes(Without(q, Len(q))) = 0
<1> DEFINE n == Len(q)
<1>8. PICK f : SumsOf(f, q) /\ TotalBytes(q) = f[n]
  BY TotalIsLast
<1>1. /\ TotalBytes(q) = f[n] /\ f[0] = 0
      /\ \A i \in 0 .. n : f[i] \in Nat
      /\ \A i \in 1 .. n : f[i] = f[i - 1] + q[i].size
  BY <1>8 DEF SumsOf
<1>2. n \in Nat /\ \A i \in 1 .. n : q[i].size \in Nat
  BY SizesAreNumbers
<1>3. ASSUME NEW k \in 0 .. n
      PROVE  TotalBytes(Without(q, k)) = f[n] - f[k]
  <2> DEFINE w == Without(q, k)
             m == n - k
  <2>1. w \in Seq(Message) /\ Len(w) = m /\ \A i \in 1 .. m : w[i] = q[k + i]
    BY WithoutFields
  <2> HIDE DEF w
  <2>2. PICK g : SumsOf(g, w) /\ TotalBytes(w) = g[Len(w)]
    BY <2>1, TotalIsLast
  <2>3. m \in Nat /\ k \in Nat /\ k + m = n
    BY <1>2
  <2>4. k + Len(w) <= Len(q) /\ \A i \in 1 .. Len(w) : w[i] = q[k + i]
    BY <2>1, <2>3
  <2>5. \A i \in 0 .. Len(w) : g[i] = f[k + i] - f[k]
    <3>1. w \in Seq(Message) /\ SumsOf(g, w) /\ SumsOf(f, q) /\ k \in Nat
      BY <1>8, <2>1, <2>2, <2>3
    <3> QED BY <2>4, <3>1, SameStretch
  <2> HIDE DEF m, n
  <2>6. g[Len(w)] = f[n] - f[k]
    BY <2>1, <2>3, <2>5
  <2> QED BY <2>2, <2>6 DEF w
<1> HIDE DEF n
<1>4. ASSUME NEW k \in 0 .. n
      PROVE  f[k] <= f[n]
  <2> DEFINE Bad == {d \in 0 .. (n - k) : ~(f[k] <= f[k + d])}
  <2>1. ASSUME Bad # {}
        PROVE  FALSE
    <3>1. Bad \in SUBSET Nat
      BY <1>2
    <3>2. PICK d \in Bad : \A e \in Bad : d <= e
      BY <2>1, <3>1, SmallestNumber
    <3>3. d # 0
      BY <1>1, <1>2, <3>2
    <3>4. d - 1 \in 0 .. (n - k) /\ k + d \in 1 .. n /\ k + (d - 1) = (k + d) - 1
          /\ (k + d) - 1 \in 0 .. n
      BY <1>2, <3>2, <3>3
    <3>5. f[k] <= f[(k + d) - 1]
      BY <3>2, <3>3, <3>4
    <3>6. f[k + d] = f[(k + d) - 1] + q[k + d].size /\ q[k + d].size \in Nat
      BY <1>1, <1>2, <3>4
    <3>7. f[k] \in Nat /\ f[(k + d) - 1] \in Nat
      BY <1>1, <3>4
    <3> QED BY <3>2, <3>5, <3>6, <3>7
  <2>2. n - k \in 0 .. (n - k) /\ k + (n - k) = n
    BY <1>2
  <2> QED BY <2>1, <2>2
<1>5. TotalBytes(Without(q, 0)) = f[n] /\ TotalBytes(Without(q, n)) = 0 /\ f[n] \in Nat
  <2>1. 0 \in 0 .. n /\ n \in 0 .. n
    BY <1>2
  <2> QED BY <1>1, <1>3, <2>1
<1>6. \A k \in 0 .. n : /\ TotalBytes(Without(q, k)) \in Nat
                        /\ TotalBytes(Without(q, k)) <= f[n]
  <2> SUFFICES ASSUME NEW k \in 0 .. n
               PROVE  /\ TotalBytes(Without(q, k)) \in Nat
                      /\ TotalBytes(Without(q, k)) <= f[n]
    OBVIOUS
  <2>1. f[k] \in Nat /\ f[k] <= f[n] /\ TotalBytes(Without(q, k)) = f[n] - f[k]
    BY <1>1, <1>3, <1>4
  <2> QED BY <1>5, <2>1
<1>7. \A k \in 0 .. (n - 1) : TotalBytes(Without(q, k + 1)) <= TotalBytes(Without(q, k))
  <2> SUFFICES ASSUME NEW k \in 0 .. (n - 1)
               PROVE  TotalBytes(Without(q, k + 1)) <= TotalBytes(Without(q, k))
    OBVIOUS
  <2>1. k \in 0 .. n /\ k + 1 \in 0 .. n /\ k + 1 \in 1 .. n /\ (k + 1) - 1 = k
    BY <1>2
  <2>2. f[k + 1] = f[k] + q[k + 1].size /\ q[k + 1].size \in Nat /\ f[k] \in Nat
    BY <1>1, <1>2, <2>1
  <2>3. TotalBytes(Without(q, k + 1)) = f[n] - f[k + 1]
        /\ TotalBytes(Without(q, k)) = f[n] - f[k]
    BY <1>3, <2>1
  <2> QED BY <1>5, <2>2, <2>3
<1> QED BY <1>1, <1>5, <1>6, <1>7 DEF n

\* A message adds its bytes.
LEMMA TotalAppend ==
    ASSUME NEW q \in Seq(Message), NEW m \in Message
    PROVE  TotalBytes(Append(q, m)) = TotalBytes(q) + m.size
<1> DEFINE n == Len(q)
           p == Append(q, m)
<1>1. PICK g : SumsOf(g, q) /\ TotalBytes(q) = g[Len(q)]
  BY TotalIsLast
<1>2. p \in Seq(Message) /\ Len(p) = n + 1 /\ n \in Nat /\ p[n + 1] = m
      /\ \A i \in 1 .. n : p[i] = q[i]
  OBVIOUS
<1> HIDE DEF p
<1>3. PICK f : SumsOf(f, p) /\ TotalBytes(p) = f[Len(p)]
  BY <1>2, TotalIsLast
<1>4. \A i \in 0 .. n : g[i] = f[0 + i] - f[0]
  <2>1. 0 + Len(q) <= Len(p) /\ 0 \in Nat /\ \A i \in 1 .. Len(q) : q[i] = p[0 + i]
    BY <1>2
  <2> QED BY <1>1, <1>2, <1>3, <2>1, SameStretch
<1>5. g[n] = f[n]
  <2>1. f[0] = 0 /\ f[n] \in Nat /\ 0 + n = n /\ n \in 0 .. n
    BY <1>2, <1>3 DEF SumsOf
  <2> HIDE DEF n
  <2>2. g[n] = f[0 + n] - f[0]
    BY <1>4, <2>1
  <2> QED BY <2>1, <2>2
<1>6. f[n + 1] = f[n] + m.size
  <2>1. n + 1 \in 1 .. Len(p) /\ (n + 1) - 1 = n
    BY <1>2
  <2> QED BY <1>2, <1>3, <2>1 DEF SumsOf
<1> QED BY <1>1, <1>2, <1>3, <1>5, <1>6 DEF p

\* The count cap drops the oldest messages, and only from a queue above it.
LEMMA CapCountFits ==
    ASSUME NEW q \in Seq(Message)
    PROVE  \E k \in 0 .. Len(q) : /\ CapCount(q) = Without(q, k)
                                  /\ Len(Without(q, k)) <= MaxMailboxMessages
                                  /\ k > 0 => Len(q) > MaxMailboxMessages
<1> DEFINE k == IF Len(q) > MaxMailboxMessages THEN Len(q) - MaxMailboxMessages ELSE 0
<1>1. Len(q) \in Nat /\ MaxMailboxMessages \in Nat
  BY LimitsAssumption
<1>2. k \in 0 .. Len(q) /\ Len(q) - k <= MaxMailboxMessages
      /\ (k > 0 => Len(q) > MaxMailboxMessages)
  BY <1>1
<1>3. CapCount(q) = Without(q, k)
  BY DEF CapCount
<1> HIDE DEF k
<1>4. Len(Without(q, k)) = Len(q) - k
  BY <1>2, WithoutFields
<1> QED BY <1>2, <1>3, <1>4

\* So does the byte cap: the number of messages whose loss is too little is the
\* number of messages to lose.
LEMMA CapBytesFits ==
    ASSUME NEW q \in Seq(Message)
    PROVE  \E k \in 0 .. Len(q) : /\ CapBytes(q) = Without(q, k)
                                  /\ TotalBytes(Without(q, k)) <= MaxMailboxBytes
                                  /\ k > 0 => TotalBytes(q) > MaxMailboxBytes
<1> DEFINE n == Len(q)
           left(k) == TotalBytes(Without(q, k))
           over == {k \in 0 .. (n - 1) : left(k) > MaxMailboxBytes}
           Fits == {k \in 0 .. n : left(k) <= MaxMailboxBytes}
<1>1. n \in Nat /\ MaxMailboxBytes \in Nat
  BY LimitsAssumption
<1>2. /\ \A k \in 0 .. n : left(k) \in Nat
      /\ left(0) = TotalBytes(q) /\ left(n) = 0
      /\ \A k \in 0 .. (n - 1) : left(k + 1) <= left(k)
  BY TotalWithout
<1>3. CapBytes(q) = Without(q, Cardinality(over))
  BY DEF CapBytes
<1> HIDE DEF n, left
<1>4. PICK c \in Fits : \A k \in Fits : c <= k
  <2>1. n \in Fits
    BY <1>1, <1>2
  <2>2. Fits \in SUBSET Nat
    BY <1>1
  <2> QED BY <2>1, <2>2, SmallestNumber
<1>5. c \in 0 .. n /\ left(c) <= MaxMailboxBytes
  OBVIOUS
<1>6. over = 0 .. (c - 1)
  <2>1. ASSUME NEW k \in 0 .. (c - 1)
        PROVE  k \in over
    <3>1. k \in 0 .. (n - 1) /\ k \in 0 .. n /\ ~(c <= k)
      BY <1>1, <1>5
    <3>2. k \notin Fits
      BY <1>4, <3>1
    <3>3. left(k) \in Nat
      BY <1>2, <3>1
    <3> QED BY <1>1, <3>1, <3>2, <3>3
  <2>2. ASSUME NEW k \in over
        PROVE  k \in 0 .. (c - 1)
    <3> DEFINE Bad == {j \in 0 .. (n - 1) : c <= j /\ left(j) > MaxMailboxBytes}
    <3>1. ASSUME Bad # {}
          PROVE  FALSE
      <4>1. Bad \in SUBSET Nat
        BY <1>1
      <4>2. PICK j \in Bad : \A i \in Bad : j <= i
        BY <3>1, <4>1, SmallestNumber
      <4>3. left(c) \in Nat /\ j # c
        BY <1>1, <1>2, <1>5, <4>2
      <4>4. j - 1 \in 0 .. (n - 1) /\ c <= j - 1 /\ (j - 1) + 1 = j /\ j \in 0 .. n /\ j - 1 \in 0 .. n
        BY <1>1, <1>5, <4>2, <4>3
      <4>5. ~(left(j - 1) > MaxMailboxBytes)
        BY <4>2, <4>4
      <4>6. left(j) <= left(j - 1)
        BY <1>2, <4>4
      <4>7. left(j) \in Nat /\ left(j - 1) \in Nat
        BY <1>2, <4>4
      <4> QED BY <1>1, <4>2, <4>5, <4>6, <4>7
    <3> QED BY <1>1, <1>5, <2>2, <3>1
  <2> QED BY <2>1, <2>2
<1>7. Cardinality(over) = c
  <2>1. 0 \in Int /\ c - 1 \in Int /\ c \in Nat
    BY <1>1, <1>5
  <2>2. Cardinality(0 .. (c - 1)) = IF 0 > c - 1 THEN 0 ELSE (c - 1) - 0 + 1
    BY <2>1, FS_Interval
  <2>3. Cardinality(0 .. (c - 1)) = c
    BY <2>1, <2>2
  <2> HIDE DEF over
  <2> QED BY <1>6, <2>3
<1>8. c > 0 => TotalBytes(q) > MaxMailboxBytes
  <2> SUFFICES ASSUME c > 0
               PROVE  TotalBytes(q) > MaxMailboxBytes
    OBVIOUS
  <2>1. 0 \notin Fits /\ 0 \in 0 .. n
    BY <1>1, <1>4, <1>5
  <2>2. left(0) \in Nat
    BY <1>2, <2>1
  <2> QED BY <1>1, <1>2, <2>1, <2>2
<1> QED BY <1>3, <1>5, <1>7, <1>8 DEF left, n

\* The caps of enqueue_at together: the newest messages of the queue, within
\* both, and all of them if they fit.
LEMMA CapsFit ==
    ASSUME NEW q \in Seq(Message)
    PROVE  LET p == CapBytes(CapCount(q))
           IN  \E k \in 0 .. Len(q) :
                  /\ p \in Seq(Message) /\ Len(p) = Len(q) - k
                  /\ \A i \in 1 .. Len(p) : p[i] = q[k + i]
                  /\ Len(p) <= MaxMailboxMessages /\ TotalBytes(p) <= MaxMailboxBytes
                  /\ k > 0 => \/ Len(q) > MaxMailboxMessages
                              \/ TotalBytes(q) > MaxMailboxBytes
<1> DEFINE r == CapCount(q)
           p == CapBytes(r)
<1>1. PICK k \in 0 .. Len(q) : /\ r = Without(q, k)
                               /\ Len(Without(q, k)) <= MaxMailboxMessages
                               /\ k > 0 => Len(q) > MaxMailboxMessages
  BY CapCountFits
<1>2. /\ r \in Seq(Message) /\ Len(r) = Len(q) - k
      /\ \A i \in 1 .. (Len(q) - k) : r[i] = q[k + i]
  BY <1>1, WithoutFields
<1>3. TotalBytes(r) <= TotalBytes(q) /\ TotalBytes(r) \in Nat /\ TotalBytes(q) \in Nat
  BY <1>1, TotalWithout
<1> HIDE DEF r
<1>4. PICK l \in 0 .. Len(r) : /\ p = Without(r, l)
                               /\ TotalBytes(Without(r, l)) <= MaxMailboxBytes
                               /\ l > 0 => TotalBytes(r) > MaxMailboxBytes
  BY <1>2, CapBytesFits
<1> HIDE DEF p
<1>5. /\ p \in Seq(Message) /\ Len(p) = Len(r) - l
      /\ \A i \in 1 .. (Len(r) - l) : p[i] = r[l + i]
  <2> DEFINE w == Without(r, l)
  <2>1. /\ w \in Seq(Message) /\ Len(w) = Len(r) - l
        /\ \A i \in 1 .. (Len(r) - l) : w[i] = r[l + i]
    BY <1>2, WithoutFields
  <2>2. p = w BY <1>4
  <2> HIDE DEF w
  <2> QED BY <2>1, <2>2
<1>6. /\ Len(q) \in Nat /\ k \in Nat /\ l \in Nat /\ k <= Len(q) /\ l <= Len(q) - k
      /\ MaxMailboxMessages \in Nat /\ MaxMailboxBytes \in Nat
  BY <1>2, LimitsAssumption
<1>7. k + l \in 0 .. Len(q) /\ Len(p) = Len(q) - (k + l) /\ Len(p) <= MaxMailboxMessages
  BY <1>1, <1>2, <1>5, <1>6
<1>8. \A i \in 1 .. Len(p) : p[i] = q[(k + l) + i]
  <2> SUFFICES ASSUME NEW i \in 1 .. Len(p)
               PROVE  p[i] = q[(k + l) + i]
    OBVIOUS
  <2>1. i \in 1 .. (Len(r) - l) /\ l + i \in 1 .. (Len(q) - k) /\ k + (l + i) = (k + l) + i
    BY <1>2, <1>5, <1>6
  <2>2. p[i] = r[l + i]
    BY <1>5, <2>1
  <2>3. r[l + i] = q[k + (l + i)]
    BY <1>2, <2>1
  <2> QED BY <2>1, <2>2, <2>3
<1>9. k + l > 0 => Len(q) > MaxMailboxMessages \/ TotalBytes(q) > MaxMailboxBytes
  BY <1>1, <1>3, <1>4, <1>6
<1> QED BY <1>4, <1>5, <1>7, <1>8, <1>9 DEF p, r

\* f holds what is left of the first messages of q, up to k of them.
IsKept(f, q, time, k) ==
    f = [i \in 0 .. k |-> IF i = 0 THEN <<>>
                          ELSE IF q[i].at >= Cutoff(time) THEN Append(f[i - 1], q[i])
                          ELSE f[i - 1]]

\* There are such queues.
LEMMA KeptExist ==
    ASSUME NEW q, NEW time, NEW k \in Nat
    PROVE  \E f : IsKept(f, q, time, k)
<1> DEFINE Bad == {j \in Nat : ~\E f : IsKept(f, q, time, j)}
           add(s, i) == IF q[i].at >= Cutoff(time) THEN Append(s, q[i]) ELSE s
<1>1. ASSUME Bad # {}
      PROVE  FALSE
  <2>1. PICK j \in Bad : \A i \in Bad : j <= i
    BY <1>1, SmallestNumber
  <2>2. j # 0
    <3> DEFINE f == [i \in 0 .. 0 |-> <<>>]
    <3>1. IsKept(f, q, time, 0)
      BY DEF IsKept
    <3> QED BY <2>1, <3>1
  <2>3. PICK f : IsKept(f, q, time, j - 1)
    BY <2>1, <2>2
  <2> DEFINE g == [i \in 0 .. j |-> IF i = j THEN add(f[j - 1], j) ELSE f[i]]
  <2>4. \A i \in 0 .. (j - 1) : f[i] = IF i = 0 THEN <<>> ELSE add(f[i - 1], i)
    BY <2>1, <2>2, <2>3 DEF IsKept
  <2> HIDE DEF add
  <2>5. \A i \in 0 .. j : g[i] = IF i = 0 THEN <<>> ELSE add(g[i - 1], i)
    <3> SUFFICES ASSUME NEW i \in 0 .. j
                 PROVE  g[i] = IF i = 0 THEN <<>> ELSE add(g[i - 1], i)
      OBVIOUS
    <3>1. CASE i = j
      <4>1. g[j] = add(f[j - 1], j) /\ g[j - 1] = f[j - 1]
        BY <2>1, <2>2
      <4> QED BY <2>2, <3>1, <4>1
    <3>2. CASE i # j
      <4>1. i \in 0 .. (j - 1) /\ g[i] = f[i] /\ (i # 0 => g[i - 1] = f[i - 1])
        BY <2>1, <3>2
      <4> QED BY <2>4, <4>1
    <3> QED BY <3>1, <3>2
  <2>6. g = [i \in 0 .. j |-> g[i]]
    OBVIOUS
  <2> HIDE DEF g
  <2>7. g = [i \in 0 .. j |-> IF i = 0 THEN <<>> ELSE add(g[i - 1], i)]
    BY <2>5, <2>6
  <2>8. IsKept(g, q, time, j)
    BY <2>7 DEF IsKept, add
  <2> QED BY <2>1, <2>8
<1> QED BY <1>1

\* The messages of a queue are numbered in order of arrival.
Sorted(q) == \A i \in 1 .. Len(q) : \A j \in 1 .. (i - 1) : q[j].id < q[i].id

\* p is what is left of the first k messages of q, which have s bytes.
Left(p, q, time, k, s) ==
    /\ p \in Seq(Message) /\ Len(p) <= k /\ TotalBytes(p) <= s
    /\ \A l \in 1 .. Len(p) : \E j \in 1 .. k : p[l] = q[j]
    /\ \A j \in 1 .. k : q[j].at >= Cutoff(time) => \E l \in 1 .. Len(p) : p[l] = q[j]
    /\ Sorted(q) => Sorted(p)

\* One message more is left out, or joins the end.
LEMMA LeftStep ==
    ASSUME NEW q \in Seq(Message), NEW time, NEW k \in 1 .. Len(q), NEW s \in Nat,
           NEW p, Left(p, q, time, k - 1, s)
    PROVE  Left(IF q[k].at >= Cutoff(time) THEN Append(p, q[k]) ELSE p,
                q, time, k, s + q[k].size)
<1> DEFINE m == q[k]
<1>1. /\ p \in Seq(Message) /\ Len(p) <= k - 1 /\ TotalBytes(p) <= s
      /\ \A l \in 1 .. Len(p) : \E j \in 1 .. (k - 1) : p[l] = q[j]
      /\ \A j \in 1 .. (k - 1) : q[j].at >= Cutoff(time) => \E l \in 1 .. Len(p) : p[l] = q[j]
      /\ Sorted(q) => Sorted(p)
  BY DEF Left
<1>2. /\ k \in Nat /\ k - 1 \in Nat /\ Len(p) \in Nat /\ m \in Message
      /\ \A j \in 1 .. k : j \in 1 .. (k - 1) \/ j = k
      /\ \A j \in 1 .. (k - 1) : j \in 1 .. k
      /\ m.size \in Nat /\ TotalBytes(p) \in Nat
  <2>1. m \in Message /\ m.size \in Nat
    BY SizesAreNumbers
  <2>2. TotalBytes(p) \in Nat
    BY <1>1, TotalWithout
  <2> QED BY <1>1, <2>1, <2>2
<1>3. CASE ~(m.at >= Cutoff(time))
  <2>1. Len(p) <= k /\ TotalBytes(p) <= s + m.size
    BY <1>1, <1>2
  <2>2. \A l \in 1 .. Len(p) : \E j \in 1 .. k : p[l] = q[j]
    BY <1>1, <1>2
  <2>3. \A j \in 1 .. k : q[j].at >= Cutoff(time) => \E l \in 1 .. Len(p) : p[l] = q[j]
    BY <1>1, <1>2, <1>3
  <2> QED BY <1>1, <1>3, <2>1, <2>2, <2>3 DEF Left
<1>4. CASE m.at >= Cutoff(time)
  <2> DEFINE r == Append(p, m)
             n == Len(p)
  <2>1. /\ r \in Seq(Message) /\ Len(r) = n + 1 /\ r[n + 1] = m
        /\ \A l \in 1 .. n : r[l] = p[l]
    BY <1>1, <1>2
  <2>2. TotalBytes(r) = TotalBytes(p) + m.size
    BY <1>1, <1>2, TotalAppend
  <2> HIDE DEF r, m
  <2>3. Len(r) <= k /\ TotalBytes(r) <= s + m.size
    BY <1>1, <1>2, <2>1, <2>2
  <2>4. \A l \in 1 .. Len(r) : l \in 1 .. n \/ l = n + 1
    BY <1>2, <2>1
  <2>5. k \in 1 .. k /\ n + 1 \in 1 .. Len(r) /\ \A l \in 1 .. n : l \in 1 .. Len(r)
    BY <1>2, <2>1
  <2>6. \A l \in 1 .. Len(r) : \E j \in 1 .. k : r[l] = q[j]
    <3> SUFFICES ASSUME NEW l \in 1 .. Len(r) PROVE \E j \in 1 .. k : r[l] = q[j]
      OBVIOUS
    <3>1. CASE l \in 1 .. n
      <4>1. PICK j \in 1 .. (k - 1) : p[l] = q[j] BY <1>1, <3>1
      <4> QED BY <1>2, <2>1, <3>1, <4>1
    <3>2. CASE l = n + 1 BY <2>1, <2>5, <3>2 DEF m
    <3> QED BY <2>4, <3>1, <3>2
  <2>7. \A j \in 1 .. k : q[j].at >= Cutoff(time) => \E l \in 1 .. Len(r) : r[l] = q[j]
    BY <1>1, <1>2, <2>1, <2>5 DEF m
  <2>8. Sorted(q) => Sorted(r)
    <3> SUFFICES ASSUME Sorted(q), NEW i \in 1 .. Len(r), NEW j \in 1 .. (i - 1)
                 PROVE  r[j].id < r[i].id
      BY DEF Sorted
    <3>1. CASE i \in 1 .. n
      <4>1. j \in 1 .. n
        BY <1>2, <3>1
      <4> QED BY <1>1, <2>1, <3>1, <4>1 DEF Sorted
    <3>2. CASE i = n + 1
      <4>1. j \in 1 .. n
        BY <1>2, <3>2
      <4>2. PICK h \in 1 .. (k - 1) : p[j] = q[h]
        BY <1>1, <4>1
      <4>3. q[h].id < q[k].id
        BY DEF Sorted
      <4> QED BY <2>1, <3>2, <4>1, <4>2, <4>3 DEF m
    <3> QED BY <2>4, <3>1, <3>2
  <2> QED BY <1>4, <2>1, <2>3, <2>6, <2>7, <2>8 DEF Left, r, m
<1> QED BY <1>3, <1>4

\* What Unexpired leaves of a queue: nothing but messages of it, every one
\* that is not too old, in their order.
LEMMA UnexpiredLeaves ==
    ASSUME NEW q \in Seq(Message), NEW time
    PROVE  Left(Unexpired(q, time), q, time, Len(q), TotalBytes(q))
<1> DEFINE n == Len(q)
           kept == CHOOSE f : IsKept(f, q, time, n)
<1>1. n \in Nat
  OBVIOUS
<1>2. IsKept(kept, q, time, n)
  BY <1>1, KeptExist
<1>3. Unexpired(q, time) = kept[n]
  BY DEF Unexpired, IsKept
<1> HIDE DEF kept
<1>4. kept[0] = <<>>
      /\ \A i \in 1 .. n : kept[i] = IF q[i].at >= Cutoff(time) THEN Append(kept[i - 1], q[i])
                                                               ELSE kept[i - 1]
  <2>1. kept[0] = <<>>
    BY <1>1, <1>2 DEF IsKept
  <2>2. \A i \in 1 .. n : i \in 0 .. n /\ i # 0
    BY <1>1
  <2> QED BY <1>2, <2>1, <2>2 DEF IsKept
<1>5. PICK sum : SumsOf(sum, q) /\ TotalBytes(q) = sum[n]
  BY TotalIsLast
<1> DEFINE Good(i) == Left(kept[i], q, time, i, sum[i])
           Bad == {i \in 0 .. n : ~Good(i)}
<1>6. Good(0)
  <2>1. <<>> \in Seq(Message) /\ Len(<<>>) = 0
    OBVIOUS
  <2>2. TotalBytes(<<>>) = 0
    <3>1. PICK f : SumsOf(f, <<>>) /\ TotalBytes(<<>>) = f[Len(<<>>)]
      BY <2>1, TotalIsLast
    <3> QED BY <2>1, <3>1 DEF SumsOf
  <2>3. sum[0] = 0
    BY <1>5 DEF SumsOf
  <2> QED BY <1>4, <2>1, <2>2, <2>3 DEF Left, Sorted
<1> HIDE DEF n
<1>7. ASSUME Bad # {}
      PROVE  FALSE
  <2>1. Bad \in SUBSET Nat
    BY <1>1
  <2> HIDE DEF Good
  <2>2. PICK i \in Bad : \A j \in Bad : i <= j
    BY <1>7, <2>1, SmallestNumber
  <2>3. i \in 1 .. n /\ i - 1 \in 0 .. n /\ ~(i <= i - 1)
    BY <1>1, <1>6, <2>2
  <2>4. Good(i - 1)
    BY <2>2, <2>3
  <2>5. sum[i - 1] \in Nat /\ sum[i] = sum[i - 1] + q[i].size
    BY <1>5, <2>3 DEF SumsOf, n
  <2>6. Left(kept[i - 1], q, time, i - 1, sum[i - 1])
    BY <2>4 DEF Good
  <2>7. Left(IF q[i].at >= Cutoff(time) THEN Append(kept[i - 1], q[i]) ELSE kept[i - 1],
             q, time, i, sum[i - 1] + q[i].size)
    BY <2>3, <2>5, <2>6, LeftStep DEF n
  <2>8. Left(kept[i], q, time, i, sum[i])
    BY <1>4, <2>3, <2>5, <2>7
  <2> QED BY <2>2, <2>8 DEF Good
<1>8. n \in 0 .. n
  BY <1>1
<1>9. Good(n)
  BY <1>7, <1>8
<1> QED BY <1>3, <1>5, <1>9 DEF n

-----------------------------------------------------------------------------
(* The invariant of the mail.                                              *)

\* A queue in order of arrival, with none but the first n messages, within
\* both caps.
GoodQueue(q, n) ==
    /\ q \in Seq(Message)
    /\ Sorted(q)
    /\ \A i \in 1 .. Len(q) : q[i].id <= n
    /\ Len(q) <= MaxMailboxMessages
    /\ TotalBytes(q) <= MaxMailboxBytes

GoodMail(qs, n) == \A b \in Mailbox : GoodQueue(qs[b], n)

\* What may become the file is as good as what is in memory.
GoodImage ==
    \A t \in Thread : pc[t] \in {"write", "rename"} =>
        image \in Image /\ GoodMail(image.queues, arrived)

\* What was polled arrived before all that is queued.
TakenInv ==
    \A b \in Mailbox : \A j \in taken[b] :
        /\ j <= arrived
        /\ \A i \in 1 .. Len(queues[b]) : j < queues[b][i].id

\* A call read the clock in the past, and knows its mailbox.
ArgInv ==
    \A t \in Thread :
        /\ arg[t].time <= now
        /\ pc[t] \in {"push", "drain"} => arg[t].box \in Mailbox

MailInv ==
    /\ TypeOK
    /\ GoodMail(queues, arrived)
    /\ GoodMail(disk.queues, arrived)
    /\ GoodImage
    /\ TakenInv
    /\ ArgInv

\* An empty queue has no bytes.
LEMMA EmptyQueue ==
    ASSUME NEW n
    PROVE  GoodQueue(<<>>, n)
<1>1. <<>> \in Seq(Message) /\ Len(<<>>) = 0
  OBVIOUS
<1>2. PICK f : SumsOf(f, <<>>) /\ TotalBytes(<<>>) = f[Len(<<>>)]
  BY <1>1, TotalIsLast
<1>3. TotalBytes(<<>>) = 0
  BY <1>1, <1>2 DEF SumsOf
<1> QED BY <1>1, <1>3, LimitsAssumption DEF GoodQueue, Sorted

\* A store that is good stays good as more mail arrives elsewhere.
LEMMA StaysGood ==
    ASSUME NEW qs, NEW n \in Nat, NEW m \in Nat, n <= m, GoodMail(qs, n)
    PROVE  GoodMail(qs, m)
<1> SUFFICES ASSUME NEW b \in Mailbox, NEW i \in 1 .. Len(qs[b])
             PROVE  qs[b][i].id <= m
  BY DEF GoodMail, GoodQueue
<1>1. qs[b] \in Seq(Message) /\ qs[b][i].id <= n
  BY DEF GoodMail, GoodQueue
<1>2. qs[b][i] \in Message
  BY <1>1
<1>3. qs[b][i].id \in Nat
  BY <1>2 DEF Message
<1> QED BY <1>1, <1>3

\* enqueue_at leaves a good queue.
LEMMA EnqueuedGood ==
    ASSUME NEW q, NEW n \in Nat, GoodQueue(q, n), NEW m \in Message, m.id = n + 1
    PROVE  GoodQueue(CapBytes(CapCount(Append(q, m))), n + 1)
<1> DEFINE r == Append(q, m)
           p == CapBytes(CapCount(r))
<1>1. q \in Seq(Message) /\ Sorted(q) /\ \A i \in 1 .. Len(q) : q[i].id <= n
  BY DEF GoodQueue
<1>2. /\ r \in Seq(Message) /\ Len(r) = Len(q) + 1 /\ Len(q) \in Nat
      /\ \A i \in 1 .. Len(q) : r[i] = q[i]
      /\ r[Len(q) + 1] = m
  BY <1>1
<1>3. \A i \in 1 .. Len(q) : q[i].id \in Nat
  <2>1. \A i \in 1 .. Len(q) : q[i] \in Message
    BY <1>1
  <2> QED BY <2>1 DEF Message
<1> HIDE DEF r
<1>4. PICK k \in 0 .. Len(r) :
          /\ p \in Seq(Message) /\ Len(p) = Len(r) - k
          /\ \A i \in 1 .. Len(p) : p[i] = r[k + i]
          /\ Len(p) <= MaxMailboxMessages /\ TotalBytes(p) <= MaxMailboxBytes
  BY <1>2, CapsFit
<1> HIDE DEF p
<1>5. \A i \in 1 .. Len(r) : r[i].id <= n + 1 /\ \A j \in 1 .. (i - 1) : r[j].id < r[i].id
  <2> SUFFICES ASSUME NEW i \in 1 .. Len(r)
               PROVE  r[i].id <= n + 1 /\ \A j \in 1 .. (i - 1) : r[j].id < r[i].id
    OBVIOUS
  <2>1. CASE i \in 1 .. Len(q)
    <3>1. r[i].id <= n + 1
      BY <1>1, <1>2, <1>3, <2>1
    <3>2. \A j \in 1 .. (i - 1) : j \in 1 .. Len(q)
      BY <1>2, <2>1
    <3> QED BY <1>1, <1>2, <2>1, <3>1, <3>2 DEF Sorted
  <2>2. CASE i = Len(q) + 1
    <3>1. \A j \in 1 .. (i - 1) : j \in 1 .. Len(q)
      BY <1>2, <2>2
    <3>2. r[i] = m /\ m.id = n + 1 /\ \A j \in 1 .. Len(q) : r[j] = q[j] /\ q[j].id <= n
      BY <1>1, <1>2, <2>2
    <3>3. r[i].id = n + 1 /\ n \in Nat /\ \A j \in 1 .. Len(q) : r[j].id \in Nat /\ r[j].id <= n
      BY <1>1, <1>3, <3>2
    <3> QED BY <3>1, <3>3
  <2> QED BY <1>2, <2>1, <2>2
<1>6. \A i \in 1 .. Len(p) : k + i \in 1 .. Len(r)
  BY <1>2, <1>4
<1>7. \A i \in 1 .. Len(p) : p[i].id <= n + 1
  BY <1>4, <1>5, <1>6
<1>8. Sorted(p)
  <2> SUFFICES ASSUME NEW i \in 1 .. Len(p), NEW j \in 1 .. (i - 1)
               PROVE  p[j].id < p[i].id
    BY DEF Sorted
  <2>1. j \in 1 .. Len(p) /\ k + j \in 1 .. ((k + i) - 1)
    BY <1>2, <1>4
  <2> QED BY <1>4, <1>5, <1>6, <2>1
<1> QED BY <1>4, <1>7, <1>8 DEF GoodQueue, p, r

\* So does the expiry.
LEMMA UnexpiredGood ==
    ASSUME NEW q, NEW n \in Nat, GoodQueue(q, n), NEW time
    PROVE  /\ GoodQueue(Unexpired(q, time), n)
           /\ Ids(Unexpired(q, time)) \subseteq Ids(q)
<1> DEFINE p == Unexpired(q, time)
<1>1. q \in Seq(Message) /\ Sorted(q) /\ Len(q) <= MaxMailboxMessages
      /\ TotalBytes(q) <= MaxMailboxBytes /\ \A i \in 1 .. Len(q) : q[i].id <= n
  BY DEF GoodQueue
<1>2. Left(p, q, time, Len(q), TotalBytes(q))
  BY <1>1, UnexpiredLeaves
<1> HIDE DEF p
<1>3. /\ p \in Seq(Message) /\ Len(p) <= Len(q) /\ TotalBytes(p) <= TotalBytes(q)
      /\ \A l \in 1 .. Len(p) : \E j \in 1 .. Len(q) : p[l] = q[j]
      /\ Sorted(p)
  BY <1>1, <1>2 DEF Left
<1>4. /\ TotalBytes(p) \in Nat /\ TotalBytes(q) \in Nat /\ Len(p) \in Nat /\ Len(q) \in Nat
      /\ MaxMailboxBytes \in Nat /\ MaxMailboxMessages \in Nat
  BY <1>1, <1>3, TotalWithout, LimitsAssumption
<1>5. Len(p) <= MaxMailboxMessages /\ TotalBytes(p) <= MaxMailboxBytes
  BY <1>1, <1>3, <1>4
<1>6. \A l \in 1 .. Len(p) : p[l].id <= n
  BY <1>1, <1>3
<1>7. Ids(p) \subseteq Ids(q)
  BY <1>3 DEF Ids
<1> QED BY <1>3, <1>5, <1>6, <1>7 DEF GoodQueue, p

\* A published pool is a sequence of ids.
LEMMA PublishedPool ==
    ASSUME NEW pool \in Pools
    PROVE  pool \in Seq(Nat)
<1>1. PICK first \in 1 .. MaxOpk, n \in 0 .. MaxPool : pool = [i \in 1 .. n |-> first + i - 1]
  BY DEF Pools
<1>2. first \in Nat /\ n \in Nat
  BY StoreAssumption
<1>3. \A i \in 1 .. n : first + i - 1 \in Nat
  BY <1>2
<1> QED BY <1>1, <1>2, <1>3

-----------------------------------------------------------------------------
\* The empty argument is one.
LEMMA NoArgType == NoArg \in Arg /\ NoArg.time = 0
BY DEF NoArg, Arg

\* One thread moves on, with arguments it may have there.
Moves(t, l, a) ==
    /\ pc' = [pc EXCEPT ![t] = l]
    /\ arg' = [arg EXCEPT ![t] = a]

\* Such a step keeps the types of both, and what is known of the arguments.
LEMMA MovesKeep ==
    ASSUME TypeOK, ArgInv, now' = now,
           NEW t \in Thread, NEW l \in PC, NEW a \in Arg, Moves(t, l, a),
           a.time <= now, l \in {"push", "drain"} => a.box \in Mailbox
    PROVE  /\ pc' \in [Thread -> PC] /\ arg' \in [Thread -> Arg]
           /\ ArgInv'
           /\ pc'[t] = l /\ \A u \in Thread : u # t => pc'[u] = pc[u]
<1>1. pc \in [Thread -> PC] /\ arg \in [Thread -> Arg]
  BY DEF TypeOK
<1>2. /\ pc' \in [Thread -> PC] /\ arg' \in [Thread -> Arg]
      /\ pc'[t] = l /\ arg'[t] = a
      /\ \A u \in Thread : u # t => pc'[u] = pc[u] /\ arg'[u] = arg[u]
  BY <1>1 DEF Moves
<1>3. ArgInv'
  <2> SUFFICES ASSUME NEW u \in Thread
               PROVE  /\ arg'[u].time <= now
                      /\ pc'[u] \in {"push", "drain"} => arg'[u].box \in Mailbox
    BY DEF ArgInv
  <2>1. CASE u = t
    BY <1>2, <2>1
  <2>2. CASE u # t
    BY <1>2, <2>2 DEF ArgInv
  <2> QED BY <2>1, <2>2
<1> QED BY <1>2, <1>3

\* A step of t that leaves the file and the image alone and is not about to
\* write keeps them good.
LEMMA SnapshotKept ==
    ASSUME MailInv, arrived' \in Nat, arrived <= arrived', disk' = disk, image' = image,
           NEW t \in Thread, pc'[t] \notin {"write", "rename"},
           \A u \in Thread : u # t => pc'[u] = pc[u]
    PROVE  GoodMail(disk'.queues, arrived') /\ GoodImage'
<1>1. arrived \in Nat
  BY DEF MailInv, TypeOK
<1>2. GoodMail(disk'.queues, arrived')
  BY <1>1, StaysGood DEF MailInv
<1>3. GoodImage'
  <2> SUFFICES ASSUME NEW u \in Thread, pc'[u] \in {"write", "rename"}
               PROVE  image \in Image /\ GoodMail(image.queues, arrived')
    BY DEF GoodImage
  <2>1. pc[u] \in {"write", "rename"}
    OBVIOUS
  <2>2. image \in Image /\ GoodMail(image.queues, arrived)
    BY <2>1 DEF MailInv, GoodImage
  <2> QED BY <1>1, <2>2, StaysGood
<1> QED BY <1>2, <1>3

\* The variables of the mail and the prekeys stay.
Untouched ==
    /\ keys' = keys /\ queues' = queues /\ entries' = entries
    /\ arrived' = arrived /\ taken' = taken

\* They stay good, then.
LEMMA UntouchedKept ==
    ASSUME MailInv, Untouched
    PROVE  GoodMail(queues', arrived') /\ TakenInv'
BY DEF MailInv, Untouched, TakenInv

\* The file, the flush and the clock stay.
FileKept ==
    /\ persistent' = persistent /\ disk' = disk /\ tmp' = tmp
    /\ dirty' = dirty /\ lastFlush' = lastFlush /\ holder' = holder /\ image' = image
    /\ now' = now /\ promised' = promised /\ crashes' = crashes

\* The types of a step that changes memory.
LEMMA MemoryTypes ==
    ASSUME TypeOK, FileKept,
           pc' \in [Thread -> PC], arg' \in [Thread -> Arg],
           keys' \in [Identity -> Seq(Nat) \cup {None}],
           queues' \in [Mailbox -> Seq(Message)], entries' \in SUBSET Mailbox,
           version' \in {version, version + 1}, arrived' \in {arrived, arrived + 1},
           taken' \in [Mailbox -> SUBSET Nat]
    PROVE  TypeOK'
<1>1. version' \in Nat /\ arrived' \in Nat
  BY DEF TypeOK
<1> QED BY <1>1 DEF TypeOK, FileKept

\* publish.
LEMMA PublishMail ==
    ASSUME MailInv, NEW t \in Thread, NEW k \in Identity, NEW pool \in Pools,
           Publish(t, k, pool)
    PROVE  MailInv'
<1>1. TypeOK /\ arg \in [Thread -> Arg] /\ pc \in [Thread -> PC]
      /\ keys \in [Identity -> Seq(Nat) \cup {None}] /\ arrived \in Nat
  BY DEF MailInv, TypeOK
<1>2. pool \in Seq(Nat)
  BY PublishedPool
<1>3. /\ pc' = [pc EXCEPT ![t] = "mark"] /\ arg' = arg
      /\ keys' = [keys EXCEPT ![k] = pool]
      /\ queues' = queues /\ entries' = entries /\ version' = version + 1
      /\ arrived' = arrived /\ taken' = taken /\ FileKept
  BY DEF Publish, Goto, FileKept, file, flushing
<1>4. "mark" \in PC
  BY DEF PC
<1>5. pc' \in [Thread -> PC] /\ pc'[t] = "mark" /\ \A u \in Thread : u # t => pc'[u] = pc[u]
  BY <1>1, <1>3, <1>4
<1>6. keys' \in [Identity -> Seq(Nat) \cup {None}]
  BY <1>1, <1>2, <1>3
<1>7. TypeOK'
  <2>1. queues' \in [Mailbox -> Seq(Message)] /\ entries' \in SUBSET Mailbox
        /\ taken' \in [Mailbox -> SUBSET Nat] /\ arg' \in [Thread -> Arg]
    BY <1>1, <1>3 DEF TypeOK
  <2> QED BY <1>1, <1>3, <1>5, <1>6, <2>1, MemoryTypes
<1>8. GoodMail(queues', arrived')
  BY <1>3 DEF MailInv
<1>9. TakenInv'
  BY <1>3 DEF MailInv, TakenInv
<1>10. ArgInv'
  BY <1>3, <1>5 DEF MailInv, ArgInv, FileKept
<1>11. GoodMail(disk'.queues, arrived') /\ GoodImage'
  BY <1>1, <1>3, <1>5, SnapshotKept DEF FileKept
<1> QED BY <1>7, <1>8, <1>9, <1>10, <1>11 DEF MailInv

\* fetch_bundle.
LEMMA FetchMail ==
    ASSUME MailInv, NEW t \in Thread, NEW k \in Identity, FetchBundle(t, k)
    PROVE  MailInv'
<1> DEFINE pool == keys[k]
<1>1. TypeOK /\ arg \in [Thread -> Arg] /\ pc \in [Thread -> PC]
      /\ keys \in [Identity -> Seq(Nat) \cup {None}] /\ arrived \in Nat
  BY DEF MailInv, TypeOK
<1>2. pool \in Seq(Nat) /\ pool # <<>>
  BY <1>1 DEF FetchBundle
<1>3. Tail(pool) \in Seq(Nat)
  BY <1>2
<1>4. /\ pc' = [pc EXCEPT ![t] = "mark"] /\ arg' = arg
      /\ keys' = [keys EXCEPT ![k] = Tail(pool)]
      /\ queues' = queues /\ entries' = entries /\ version' = version + 1
      /\ arrived' = arrived /\ taken' = taken /\ FileKept
  BY DEF FetchBundle, Goto, FileKept, file, flushing
<1>5. "mark" \in PC
  BY DEF PC
<1>6. pc' \in [Thread -> PC] /\ pc'[t] = "mark" /\ \A u \in Thread : u # t => pc'[u] = pc[u]
  BY <1>1, <1>4, <1>5
<1>7. keys' \in [Identity -> Seq(Nat) \cup {None}]
  BY <1>1, <1>3, <1>4
<1>8. TypeOK'
  <2>1. queues' \in [Mailbox -> Seq(Message)] /\ entries' \in SUBSET Mailbox
        /\ taken' \in [Mailbox -> SUBSET Nat] /\ arg' \in [Thread -> Arg]
    BY <1>1, <1>4 DEF TypeOK
  <2> QED BY <1>1, <1>4, <1>6, <1>7, <2>1, MemoryTypes
<1>9. GoodMail(queues', arrived')
  BY <1>4 DEF MailInv
<1>10. TakenInv'
  BY <1>4 DEF MailInv, TakenInv
<1>11. ArgInv'
  BY <1>4, <1>6 DEF MailInv, ArgInv, FileKept
<1>12. GoodMail(disk'.queues, arrived') /\ GoodImage'
  BY <1>1, <1>4, <1>6, SnapshotKept DEF FileKept
<1> QED BY <1>8, <1>9, <1>10, <1>11, <1>12 DEF MailInv

\* A step of t that touches neither mail nor prekeys, nor the file.
LEMMA QuietMail ==
    ASSUME MailInv, NEW t \in Thread, Untouched, disk' = disk, image' = image, now' = now,
           NEW l \in PC \ {"write", "rename"}, NEW a \in Arg, Moves(t, l, a),
           a.time <= now, l \in {"push", "drain"} => a.box \in Mailbox,
           version' = version, promised' \in Nat, crashes' = crashes,
           persistent' = persistent, dirty' \in BOOLEAN, lastFlush' \in Int,
           holder' \in Thread \cup {None}, tmp' = tmp
    PROVE  MailInv'
<1>1. TypeOK /\ ArgInv /\ l \in PC
  BY DEF MailInv
<1>2. /\ pc' \in [Thread -> PC] /\ arg' \in [Thread -> Arg] /\ ArgInv'
      /\ pc'[t] = l /\ \A u \in Thread : u # t => pc'[u] = pc[u]
  BY <1>1, MovesKeep
<1>3. GoodMail(queues', arrived') /\ TakenInv'
  BY UntouchedKept
<1>4. arrived' = arrived /\ arrived \in Nat /\ pc'[t] \notin {"write", "rename"}
  BY <1>1, <1>2 DEF TypeOK, Untouched
<1>5. GoodMail(disk'.queues, arrived') /\ GoodImage'
  BY <1>2, <1>4, SnapshotKept
<1>6. TypeOK'
  BY <1>1, <1>2 DEF TypeOK, Untouched
<1> QED BY <1>2, <1>3, <1>5, <1>6 DEF MailInv

\* The first halves of enqueue, poll and sweep_expired, and of flush.
LEMMA CallMail ==
    ASSUME MailInv, NEW t \in Thread,
           \/ \E b \in Mailbox : \E size \in MessageSizes : Enqueue(t, b, size)
           \/ \E b \in Mailbox : Poll(t, b)
           \/ SweepExpired(t)
           \/ Flush(t)
    PROVE  MailInv'
<1> USE DEF file, flushing, history, memory, Goto
<1>1. /\ now \in Nat /\ version \in Nat /\ promised \in Nat
      /\ holder \in Thread \cup {None} /\ lastFlush \in Int /\ dirty \in BOOLEAN
  BY DEF MailInv, TypeOK
<1>2. /\ "push" \in PC \ {"write", "rename"} /\ "drain" \in PC \ {"write", "rename"}
      /\ "sweep" \in PC \ {"write", "rename"} /\ "forced" \in PC \ {"write", "rename"}
  BY DEF PC
<1>3. ASSUME NEW b \in Mailbox, NEW size \in MessageSizes, Enqueue(t, b, size)
      PROVE  MailInv'
  <2> DEFINE a == [NoArg EXCEPT !.box = b, !.size = size, !.time = now]
  <2>1. a \in Arg /\ a.time <= now /\ a.box \in Mailbox
    <3>1. a = [box |-> b, size |-> size, time |-> now, batch |-> {}, want |-> 0]
      <4>1. a = [[[NoArg EXCEPT !.box = b] EXCEPT !.size = size] EXCEPT !.time = now]
        OBVIOUS
      <4>2. [NoArg EXCEPT !.box = b]
              = [box |-> b, size |-> 0, time |-> 0, batch |-> {}, want |-> 0]
        BY DEF NoArg
      <4>3. [[box |-> b, size |-> 0, time |-> 0, batch |-> {}, want |-> 0] EXCEPT !.size = size]
              = [box |-> b, size |-> size, time |-> 0, batch |-> {}, want |-> 0]
        OBVIOUS
      <4>4. [[box |-> b, size |-> size, time |-> 0, batch |-> {}, want |-> 0] EXCEPT !.time = now]
              = [box |-> b, size |-> size, time |-> now, batch |-> {}, want |-> 0]
        OBVIOUS
      <4> QED BY <4>1, <4>2, <4>3, <4>4
    <3>2. size \in Nat
      BY StoreAssumption
    <3> HIDE DEF a
    <3> QED BY <1>1, <3>1, <3>2 DEF Arg
  <2>2. Moves(t, "push", a) /\ Untouched
    BY <1>3 DEF Enqueue, Moves, Untouched
  <2> HIDE DEF a
  <2> QED BY <1>1, <1>2, <1>3, <2>1, <2>2, QuietMail DEF Enqueue
<1>4. ASSUME NEW b \in Mailbox, Poll(t, b)
      PROVE  MailInv'
  <2> DEFINE a == [NoArg EXCEPT !.box = b, !.time = now]
  <2>1. a \in Arg /\ a.time <= now /\ a.box \in Mailbox
    <3>1. a = [box |-> b, size |-> 0, time |-> now, batch |-> {}, want |-> 0]
      <4>1. a = [[NoArg EXCEPT !.box = b] EXCEPT !.time = now]
        OBVIOUS
      <4>2. [NoArg EXCEPT !.box = b]
              = [box |-> b, size |-> 0, time |-> 0, batch |-> {}, want |-> 0]
        BY DEF NoArg
      <4>3. [[box |-> b, size |-> 0, time |-> 0, batch |-> {}, want |-> 0] EXCEPT !.time = now]
              = [box |-> b, size |-> 0, time |-> now, batch |-> {}, want |-> 0]
        OBVIOUS
      <4> QED BY <4>1, <4>2, <4>3
    <3> HIDE DEF a
    <3> QED BY <1>1, <3>1 DEF Arg
  <2>2. Moves(t, "drain", a) /\ Untouched
    BY <1>4 DEF Poll, Moves, Untouched
  <2> HIDE DEF a
  <2> QED BY <1>1, <1>2, <1>4, <2>1, <2>2, QuietMail DEF Poll
<1>5. CASE SweepExpired(t)
  <2> DEFINE a == [NoArg EXCEPT !.time = now]
  <2>1. a \in Arg /\ a.time <= now
    BY <1>1 DEF NoArg, Arg
  <2>2. Moves(t, "sweep", a) /\ Untouched
    BY <1>5 DEF SweepExpired, Moves, Untouched
  <2> HIDE DEF a
  <2> QED BY <1>1, <1>2, <1>5, <2>1, <2>2, QuietMail DEF SweepExpired
<1>6. CASE Flush(t)
  <2> DEFINE a == [NoArg EXCEPT !.want = version]
  <2>1. a \in Arg /\ a.time <= now
    BY <1>1 DEF NoArg, Arg
  <2>2. Moves(t, "forced", a) /\ Untouched
    BY <1>6 DEF Flush, Moves, Untouched
  <2>3. lastFlush' \in Int /\ dirty' \in BOOLEAN
    BY <1>1, <1>6 DEF Flush, DueNow, FlushIntervalSecs
  <2> HIDE DEF a
  <2> QED BY <1>1, <1>2, <1>6, <2>1, <2>2, <2>3, QuietMail DEF Flush
<1> QED BY <1>3, <1>4, <1>5, <1>6

\* What follows from a step of t that changes memory, once its own part is done.
LEMMA MemoryMail ==
    ASSUME MailInv, NEW t \in Thread, FileKept,
           NEW l \in PC \ {"write", "rename", "push", "drain"}, NEW a \in Arg,
           Moves(t, l, a), a.time <= now,
           keys' = keys,
           queues' \in [Mailbox -> Seq(Message)], entries' \in SUBSET Mailbox,
           version' \in {version, version + 1}, arrived' \in {arrived, arrived + 1},
           taken' \in [Mailbox -> SUBSET Nat],
           \A b \in Mailbox : GoodQueue(queues'[b], arrived'), TakenInv'
    PROVE  MailInv'
<1>1. TypeOK /\ ArgInv /\ l \in PC /\ arrived \in Nat /\ now' = now
  BY DEF MailInv, TypeOK, FileKept
<1>2. /\ pc' \in [Thread -> PC] /\ arg' \in [Thread -> Arg] /\ ArgInv'
      /\ pc'[t] = l /\ \A u \in Thread : u # t => pc'[u] = pc[u]
  BY <1>1, MovesKeep
<1>3. TypeOK'
  <2>1. keys' \in [Identity -> Seq(Nat) \cup {None}]
    BY <1>1 DEF TypeOK
  <2> QED BY <1>1, <1>2, <2>1, MemoryTypes
<1>4. arrived' \in Nat /\ arrived <= arrived' /\ pc'[t] \notin {"write", "rename"}
  BY <1>1, <1>2
<1>5. GoodMail(disk'.queues, arrived') /\ GoodImage'
  BY <1>2, <1>4, SnapshotKept DEF FileKept
<1>6. GoodMail(queues', arrived')
  BY DEF MailInv, GoodMail
<1> QED BY <1>2, <1>3, <1>5, <1>6 DEF MailInv

\* enqueue_at.
LEMMA EnqueueMail ==
    ASSUME MailInv, NEW t \in Thread, EnqueueAt(t)
    PROVE  MailInv'
<1> DEFINE b == arg[t].box
           m == [id |-> arrived + 1, size |-> arg[t].size, at |-> arg[t].time]
           q == CapBytes(CapCount(Append(queues[b], m)))
<1>1. /\ arrived \in Nat /\ arg[t] \in Arg /\ b \in Mailbox /\ now \in Nat
      /\ queues \in [Mailbox -> Seq(Message)] /\ entries \in SUBSET Mailbox
      /\ taken \in [Mailbox -> SUBSET Nat]
  BY DEF MailInv, TypeOK, ArgInv, EnqueueAt
<1>2. m \in Message /\ m.id = arrived + 1
  BY <1>1 DEF Message, Arg
<1>3. /\ queues' = [queues EXCEPT ![b] = q] /\ entries' = entries \cup {b}
      /\ arrived' = arrived + 1 /\ version' = version + 1
      /\ keys' = keys /\ taken' = taken
      /\ Moves(t, "mark", NoArg) /\ FileKept
  BY DEF EnqueueAt, Goto, Moves, FileKept, file, flushing
<1> HIDE DEF m
<1>4. \A c \in Mailbox : GoodQueue(queues[c], arrived)
  BY DEF MailInv, GoodMail
<1>5. GoodQueue(q, arrived + 1)
  BY <1>1, <1>2, <1>4, EnqueuedGood
<1>6. \A i \in 1 .. Len(q) : q[i].id = arrived + 1 \/ \E j \in 1 .. Len(queues[b]) : q[i] = queues[b][j]
  <2> DEFINE r == Append(queues[b], m)
  <2>1. /\ r \in Seq(Message) /\ Len(r) = Len(queues[b]) + 1 /\ Len(queues[b]) \in Nat
        /\ \A i \in 1 .. Len(queues[b]) : r[i] = queues[b][i]
        /\ r[Len(queues[b]) + 1] = m
    BY <1>1, <1>2
  <2> HIDE DEF r
  <2>2. PICK k \in 0 .. Len(r) : /\ Len(q) = Len(r) - k
                                 /\ \A i \in 1 .. Len(q) : q[i] = r[k + i]
    BY <2>1, CapsFit DEF r
  <2> HIDE DEF q
  <2> SUFFICES ASSUME NEW i \in 1 .. Len(q)
               PROVE  q[i].id = arrived + 1 \/ \E j \in 1 .. Len(queues[b]) : q[i] = queues[b][j]
    OBVIOUS
  <2>3. k + i \in 1 .. Len(queues[b]) \/ k + i = Len(queues[b]) + 1
    BY <2>1, <2>2
  <2> QED BY <1>2, <2>1, <2>2, <2>3
<1> HIDE DEF q
<1>7. q \in Seq(Message)
  BY <1>5 DEF GoodQueue
<1>8. queues' \in [Mailbox -> Seq(Message)] /\ entries' \in SUBSET Mailbox
      /\ taken' \in [Mailbox -> SUBSET Nat]
  BY <1>1, <1>3, <1>7
<1>9. \A c \in Mailbox : GoodQueue(queues'[c], arrived')
  <2> SUFFICES ASSUME NEW c \in Mailbox
               PROVE  GoodQueue(queues'[c], arrived + 1)
    BY <1>3
  <2>1. CASE c = b
    BY <1>1, <1>3, <1>5, <2>1
  <2>2. CASE c # b
    <3>1. queues'[c] = queues[c]
      BY <1>1, <1>3, <2>2
    <3>2. GoodMail(queues, arrived + 1)
      <4>1. arrived + 1 \in Nat /\ arrived <= arrived + 1
        BY <1>1
      <4> QED BY <1>1, <4>1, StaysGood DEF MailInv
    <3> QED BY <3>1, <3>2 DEF GoodMail
  <2> QED BY <2>1, <2>2
<1>10. TakenInv'
  <2> SUFFICES ASSUME NEW c \in Mailbox, NEW j \in taken[c]
               PROVE  /\ j <= arrived'
                      /\ \A i \in 1 .. Len(queues'[c]) : j < queues'[c][i].id
    BY <1>3 DEF TakenInv
  <2>1. j \in Nat /\ j <= arrived /\ \A i \in 1 .. Len(queues[c]) : j < queues[c][i].id
    BY <1>1 DEF MailInv, TakenInv
  <2>2. j < arrived + 1 /\ j <= arrived'
    BY <1>1, <1>3, <2>1
  <2>3. CASE c = b
    <3>1. queues'[c] = q
      BY <1>1, <1>3, <2>3
    <3> QED BY <1>6, <2>1, <2>2, <2>3, <3>1
  <2>4. CASE c # b
    <3>1. queues'[c] = queues[c]
      BY <1>1, <1>3, <2>4
    <3> QED BY <2>1, <2>2, <3>1
  <2> QED BY <2>3, <2>4
<1>11. "mark" \in PC \ {"write", "rename", "push", "drain"} /\ NoArg \in Arg /\ NoArg.time <= now
  BY <1>1, NoArgType DEF PC
<1> QED BY <1>3, <1>8, <1>9, <1>10, <1>11, MemoryMail

\* poll_at: the batch is of messages that were queued, and the queue is empty.
LEMMA PollMail ==
    ASSUME MailInv, NEW t \in Thread, PollAt(t)
    PROVE  MailInv'
<1> DEFINE b == arg[t].box
           got == Ids(Unexpired(queues[b], arg[t].time))
           a == [NoArg EXCEPT !.batch = got]
<1>1. /\ arrived \in Nat /\ arg[t] \in Arg /\ b \in Mailbox /\ now \in Nat
      /\ queues \in [Mailbox -> Seq(Message)] /\ entries \in SUBSET Mailbox
      /\ taken \in [Mailbox -> SUBSET Nat]
  BY DEF MailInv, TypeOK, ArgInv, PollAt
<1>2. /\ keys' = keys /\ arrived' = arrived /\ FileKept
  BY DEF PollAt, FileKept, file, flushing
<1>3. \A c \in Mailbox : GoodQueue(queues[c], arrived)
  BY DEF MailInv, GoodMail
<1>4. NoArg \in Arg /\ NoArg.time <= now
  BY <1>1, NoArgType
<1>5. CASE b \in entries
  <2>1. /\ queues' = [queues EXCEPT ![b] = <<>>] /\ entries' = entries \ {b}
        /\ taken' = [taken EXCEPT ![b] = @ \cup got]
        /\ version' = version + 1 /\ Moves(t, "mark", a)
    BY <1>5 DEF PollAt, Goto, Moves, Drained
  <2>2. \A j \in got : j \in Nat /\ j <= arrived
    <3>1. got \subseteq Ids(queues[b])
      BY <1>1, <1>3, UnexpiredGood
    <3>2. \A i \in 1 .. Len(queues[b]) : queues[b][i] \in Message
      BY <1>1
    <3>3. \A i \in 1 .. Len(queues[b]) : queues[b][i].id \in Nat /\ queues[b][i].id <= arrived
      BY <1>1, <1>3, <3>2 DEF GoodQueue, Message
    <3> QED BY <3>1, <3>3 DEF Ids
  <2> HIDE DEF got
  <2>3. a \in Arg /\ a.time <= now
    <3>1. a = [box |-> None, size |-> 0, time |-> 0, batch |-> got, want |-> 0]
      BY DEF NoArg
    <3> HIDE DEF a
    <3>2. got \in SUBSET Nat
      BY <2>2
    <3> QED BY <1>1, <3>1, <3>2 DEF Arg
  <2>4. queues' \in [Mailbox -> Seq(Message)] /\ entries' \in SUBSET Mailbox
        /\ taken' \in [Mailbox -> SUBSET Nat]
    BY <1>1, <2>1, <2>2
  <2>5. \A c \in Mailbox : GoodQueue(queues'[c], arrived')
    BY <1>1, <1>2, <1>3, <2>1, EmptyQueue
  <2>6. TakenInv'
    <3> SUFFICES ASSUME NEW c \in Mailbox, NEW j \in taken'[c]
                 PROVE  /\ j <= arrived
                        /\ \A i \in 1 .. Len(queues'[c]) : j < queues'[c][i].id
      BY <1>2 DEF TakenInv
    <3>1. CASE c = b
      <4>1. queues'[c] = <<>> /\ taken'[c] = taken[b] \cup got
        BY <1>1, <2>1, <3>1
      <4>2. j <= arrived
        BY <1>1, <2>2, <4>1 DEF MailInv, TakenInv
      <4> QED BY <4>1, <4>2
    <3>2. CASE c # b
      <4>1. queues'[c] = queues[c] /\ taken'[c] = taken[c]
        BY <1>1, <2>1, <3>2
      <4> QED BY <4>1 DEF MailInv, TakenInv
    <3> QED BY <3>1, <3>2
  <2>7. "mark" \in PC \ {"write", "rename", "push", "drain"}
    BY DEF PC
  <2> HIDE DEF a
  <2> QED BY <1>2, <2>1, <2>3, <2>4, <2>5, <2>6, <2>7, MemoryMail
<1>6. CASE b \notin entries
  <2>1. queues' = queues /\ entries' = entries /\ taken' = taken /\ version' = version
        /\ Moves(t, "idle", NoArg)
    BY <1>6 DEF PollAt, Goto, Moves
  <2>2. TakenInv' /\ \A c \in Mailbox : GoodQueue(queues'[c], arrived')
    BY <1>2, <1>3, <2>1 DEF MailInv, TakenInv
  <2>3. "idle" \in PC \ {"write", "rename", "push", "drain"}
    BY DEF PC
  <2> QED BY <1>1, <1>2, <1>4, <2>1, <2>2, <2>3, MemoryMail
<1> QED BY <1>5, <1>6

\* sweep_expired_at.
LEMMA SweepMail ==
    ASSUME MailInv, NEW t \in Thread, SweepExpiredAt(t)
    PROVE  MailInv'
<1> DEFINE swept == [b \in Mailbox |-> Unexpired(queues[b], arg[t].time)]
           l == IF swept = queues THEN "idle" ELSE "mark"
<1>1. /\ arrived \in Nat /\ now \in Nat
      /\ queues \in [Mailbox -> Seq(Message)] /\ entries \in SUBSET Mailbox
      /\ taken \in [Mailbox -> SUBSET Nat]
  BY DEF MailInv, TypeOK
<1>2. /\ keys' = keys /\ arrived' = arrived /\ taken' = taken
      /\ queues' = swept /\ entries' \in SUBSET entries
      /\ version' \in {version, version + 1}
      /\ Moves(t, l, NoArg) /\ FileKept
  BY DEF SweepExpiredAt, FileKept, file, flushing, history, Moves, Goto
<1>3. l \in PC \ {"write", "rename", "push", "drain"}
  BY DEF PC
<1> HIDE DEF l
<1>4. NoArg \in Arg /\ NoArg.time <= now
  BY <1>1, NoArgType
<1>5. \A b \in Mailbox : GoodQueue(queues[b], arrived)
  BY DEF MailInv, GoodMail
<1>6. \A b \in Mailbox : GoodQueue(swept[b], arrived) /\ Ids(swept[b]) \subseteq Ids(queues[b])
  BY <1>1, <1>5, UnexpiredGood
<1>7. swept \in [Mailbox -> Seq(Message)]
  <2>1. \A b \in Mailbox : Unexpired(queues[b], arg[t].time) \in Seq(Message)
    BY <1>6 DEF GoodQueue
  <2> QED BY <2>1
<1> HIDE DEF swept
<1>8. TakenInv'
  <2> SUFFICES ASSUME NEW b \in Mailbox, NEW j \in taken[b], NEW i \in 1 .. Len(swept[b])
               PROVE  j < swept[b][i].id
    BY <1>2 DEF MailInv, TakenInv
  <2>1. swept[b][i].id \in Ids(queues[b])
    BY <1>6 DEF Ids
  <2>2. PICK h \in 1 .. Len(queues[b]) : swept[b][i].id = queues[b][h].id
    BY <2>1 DEF Ids
  <2> QED BY <2>2 DEF MailInv, TakenInv
<1>9. \A b \in Mailbox : GoodQueue(queues'[b], arrived')
  BY <1>2, <1>6
<1> QED BY <1>1, <1>2, <1>3, <1>4, <1>7, <1>8, <1>9, MemoryMail

\* mark_dirty, and the flush steps that write nothing.
LEMMA MarkMail ==
    ASSUME MailInv, NEW t \in Thread, MarkDirty(t) \/ FlushBegin(t) \/ FlushNotDue(t)
    PROVE  MailInv'
<1> USE DEF file, flushing, history, memory, Goto
<1>1. /\ now \in Nat /\ promised \in Nat /\ arg \in [Thread -> Arg]
      /\ holder \in Thread \cup {None} /\ lastFlush \in Int /\ dirty \in BOOLEAN
  BY DEF MailInv, TypeOK
<1>2. /\ "idle" \in PC \ {"write", "rename"} /\ "serialize" \in PC \ {"write", "rename"}
      /\ "serialize" \notin {"push", "drain"} /\ "idle" \notin {"push", "drain"}
  BY DEF PC
<1>3. NoArg \in Arg /\ NoArg.time <= now
  BY <1>1, NoArgType
<1>4. CASE MarkDirty(t)
  <2>1. Moves(t, "idle", NoArg) /\ Untouched
    BY <1>4 DEF MarkDirty, Moves, Untouched
  <2>2. dirty' \in BOOLEAN
    BY <1>4 DEF MarkDirty
  <2> QED BY <1>1, <1>2, <1>3, <1>4, <2>1, <2>2, QuietMail DEF MarkDirty
<1>5. CASE FlushBegin(t)
  <2>1. arg' = [arg EXCEPT ![t] = arg[t]]
    BY <1>1, <1>5 DEF FlushBegin
  <2>2. Moves(t, "serialize", arg[t]) /\ Untouched
    BY <1>5, <2>1 DEF FlushBegin, Moves, Untouched
  <2>3. arg[t] \in Arg /\ arg[t].time <= now
    BY <1>1 DEF MailInv, ArgInv
  <2> QED BY <1>1, <1>2, <1>5, <2>2, <2>3, QuietMail DEF FlushBegin
<1>6. CASE FlushNotDue(t)
  <2>1. Moves(t, "idle", NoArg) /\ Untouched
    BY <1>6 DEF FlushNotDue, Returned, Moves, Untouched
  <2>2. promised' \in Nat
    BY <1>1, <1>6 DEF FlushNotDue, Returned, Arg
  <2> QED BY <1>1, <1>2, <1>3, <1>6, <2>1, <2>2, QuietMail DEF FlushNotDue
<1> QED BY <1>4, <1>5, <1>6

\* The steps of a flush that has the mutex.  The image is the store as it is
\* when it is serialized, and the file becomes that image or stays.
LEMMA FlushMail ==
    ASSUME StoreInv, MailInv, NEW t \in Thread,
           \/ FlushSerialize(t) \/ FlushWritten(t) \/ FlushWriteFails(t)
           \/ FlushRenamed(t) \/ FlushRenameFails(t)
    PROVE  MailInv'
<1> USE DEF file, flushing, history, memory, Goto
<1>1. /\ TypeOK /\ ArgInv /\ now \in Nat /\ promised \in Nat /\ arg \in [Thread -> Arg]
      /\ holder \in Thread \cup {None} /\ lastFlush \in Int /\ dirty \in BOOLEAN
      /\ pc \in [Thread -> PC] /\ arrived \in Nat
  BY DEF MailInv, TypeOK
<1>2. Untouched /\ version' = version /\ now' = now /\ crashes' = crashes
      /\ persistent' = persistent
  BY DEF FlushSerialize, FlushWritten, FlushWriteFails, FlushRenamed, FlushRenameFails,
         FlushFails, Untouched
<1>3. GoodMail(queues', arrived') /\ TakenInv'
  BY <1>2, UntouchedKept
<1>4. \A u \in Thread : u # t => pc[u] \notin {"write", "rename"}
  <2>1. InFlush(t)
    BY DEF FlushSerialize, FlushWritten, FlushWriteFails, FlushRenamed, FlushRenameFails, InFlush
  <2> QED BY <2>1, FlushAlone DEF InFlush
<1>5. NoArg \in Arg /\ NoArg.time <= now /\ arg[t] \in Arg /\ arg[t].time <= now
  BY <1>1, NoArgType DEF ArgInv
<1>6. /\ "write" \in PC /\ "rename" \in PC /\ "idle" \in PC
      /\ "write" \notin {"push", "drain"} /\ "rename" \notin {"push", "drain"}
      /\ "idle" \notin {"push", "drain"}
  BY DEF PC
<1>7. CASE FlushSerialize(t)
  <2> DEFINE img == [keys |-> keys, queues |-> queues, entries |-> entries, version |-> version]
  <2>1. arg' = [arg EXCEPT ![t] = arg[t]] /\ image' = img
        /\ disk' = disk /\ tmp' = tmp /\ dirty' = dirty /\ lastFlush' = lastFlush
        /\ holder' = holder /\ promised' = promised
    BY <1>1, <1>7 DEF FlushSerialize
  <2>2. Moves(t, "write", arg[t])
    BY <1>7, <2>1 DEF FlushSerialize, Moves
  <2>3. /\ pc' \in [Thread -> PC] /\ arg' \in [Thread -> Arg] /\ ArgInv'
        /\ pc'[t] = "write" /\ \A u \in Thread : u # t => pc'[u] = pc[u]
    BY <1>1, <1>2, <1>5, <1>6, <2>2, MovesKeep
  <2>4. img \in Image /\ img.keys = keys /\ img.queues = queues
    BY <1>1 DEF TypeOK, Image
  <2> HIDE DEF img
  <2>5. TypeOK'
    BY <1>1, <1>2, <2>1, <2>3, <2>4 DEF TypeOK, Untouched
  <2>6. GoodImage'
    BY <1>2, <1>3, <2>1, <2>4 DEF GoodImage, Untouched
  <2>7. GoodMail(disk'.queues, arrived')
    BY <1>2, <2>1 DEF MailInv, Untouched
  <2> QED BY <1>3, <2>3, <2>5, <2>6, <2>7 DEF MailInv
<1>8. CASE FlushWritten(t)
  <2>1. arg' = [arg EXCEPT ![t] = arg[t]] /\ image' = image
        /\ disk' = disk /\ tmp' = image /\ dirty' = dirty /\ lastFlush' = lastFlush
        /\ holder' = holder /\ promised' = promised /\ pc[t] = "write"
    BY <1>1, <1>8 DEF FlushWritten
  <2>2. Moves(t, "rename", arg[t])
    BY <1>8, <2>1 DEF FlushWritten, Moves
  <2>3. /\ pc' \in [Thread -> PC] /\ arg' \in [Thread -> Arg] /\ ArgInv'
        /\ pc'[t] = "rename" /\ \A u \in Thread : u # t => pc'[u] = pc[u]
    BY <1>1, <1>2, <1>5, <1>6, <2>2, MovesKeep
  <2>4. image \in Image /\ GoodMail(image.queues, arrived)
    BY <2>1 DEF MailInv, GoodImage
  <2>5. TypeOK'
    BY <1>1, <1>2, <2>1, <2>3, <2>4 DEF TypeOK, Untouched
  <2>6. GoodImage'
    BY <1>2, <2>1, <2>4 DEF GoodImage, Untouched
  <2>7. GoodMail(disk'.queues, arrived')
    BY <1>2, <2>1 DEF MailInv, Untouched
  <2> QED BY <1>3, <2>3, <2>5, <2>6, <2>7 DEF MailInv
<1>9. CASE FlushWriteFails(t) \/ FlushRenameFails(t)
  <2>1. /\ disk' = disk /\ tmp' \in {tmp, Torn} /\ dirty' = dirty /\ lastFlush' = lastFlush
        /\ holder' = None /\ image' = None /\ promised' = promised
    BY <1>9 DEF FlushWriteFails, FlushRenameFails, FlushFails
  <2>2. Moves(t, "idle", NoArg)
    BY <1>9 DEF FlushWriteFails, FlushRenameFails, FlushFails, Moves
  <2>3. /\ pc' \in [Thread -> PC] /\ arg' \in [Thread -> Arg] /\ ArgInv'
        /\ pc'[t] = "idle" /\ \A u \in Thread : u # t => pc'[u] = pc[u]
    BY <1>1, <1>2, <1>5, <1>6, <2>2, MovesKeep
  <2>4. TypeOK'
    BY <1>1, <1>2, <2>1, <2>3 DEF TypeOK, Untouched
  <2>5. GoodImage'
    BY <1>4, <2>3 DEF GoodImage
  <2>6. GoodMail(disk'.queues, arrived')
    BY <1>2, <2>1 DEF MailInv, Untouched
  <2> QED BY <1>3, <2>3, <2>4, <2>5, <2>6 DEF MailInv
<1>10. CASE FlushRenamed(t)
  <2>1. /\ disk' = tmp /\ tmp' = None /\ dirty' \in BOOLEAN /\ lastFlush' = now
        /\ holder' = None /\ image' = None /\ pc[t] = "rename" /\ promised' \in Nat
    BY <1>1, <1>10 DEF FlushRenamed, Returned, Arg
  <2>2. Moves(t, "idle", NoArg)
    BY <1>10 DEF FlushRenamed, Returned, Moves
  <2>3. /\ pc' \in [Thread -> PC] /\ arg' \in [Thread -> Arg] /\ ArgInv'
        /\ pc'[t] = "idle" /\ \A u \in Thread : u # t => pc'[u] = pc[u]
    BY <1>1, <1>2, <1>5, <1>6, <2>2, MovesKeep
  <2>4. tmp = image /\ image \in Image /\ GoodMail(image.queues, arrived)
    BY <2>1 DEF StoreInv, ImageInv, MailInv, GoodImage
  <2>5. TypeOK'
    BY <1>1, <1>2, <2>1, <2>3, <2>4 DEF TypeOK, Untouched
  <2>6. GoodImage'
    BY <1>4, <2>3 DEF GoodImage
  <2>7. GoodMail(disk'.queues, arrived')
    BY <1>2, <2>1, <2>4 DEF Untouched
  <2> QED BY <1>3, <2>3, <2>5, <2>6, <2>7 DEF MailInv
<1> QED BY <1>7, <1>8, <1>9, <1>10

\* A restart reads the file, and has handed out and taken nothing yet.
LEMMA CrashMail ==
    ASSUME MailInv, Crash
    PROVE  MailInv'
<1> USE DEF file
<1>1. /\ now \in Nat /\ crashes \in Nat /\ disk \in Image /\ arrived \in Nat
      /\ tmp \in Image \cup {None, Torn} /\ persistent \in BOOLEAN /\ promised \in Nat
  BY DEF MailInv, TypeOK
<1>2. /\ disk.keys \in [Identity -> Seq(Nat) \cup {None}]
      /\ disk.queues \in [Mailbox -> Seq(Message)]
      /\ disk.entries \in SUBSET Mailbox /\ disk.version \in Nat
  BY <1>1 DEF Image
<1>3. NoArg \in Arg /\ NoArg.time <= now /\ "idle" \in PC
  BY <1>1, NoArgType DEF PC
<1>4. /\ pc' \in [Thread -> PC] /\ arg' \in [Thread -> Arg]
      /\ \A t \in Thread : pc'[t] = "idle" /\ arg'[t] = NoArg
  BY <1>3 DEF Crash
<1>5. /\ keys' = disk.keys /\ queues' = disk.queues /\ entries' = disk.entries
      /\ version' = disk.version /\ dirty' \in BOOLEAN /\ lastFlush' = now /\ holder' = None
      /\ image' = None /\ taken' = [b \in Mailbox |-> {}]
      /\ crashes' = crashes + 1
      /\ disk' = disk /\ tmp' = tmp /\ persistent' = persistent /\ now' = now
      /\ promised' = promised /\ arrived' = arrived
  BY DEF Crash
<1>6. TypeOK'
  BY <1>1, <1>2, <1>4, <1>5 DEF TypeOK
<1>7. /\ GoodMail(queues', arrived')
      /\ GoodMail(disk'.queues, arrived')
  BY <1>5 DEF MailInv
<1>8. GoodImage' /\ ArgInv'
  BY <1>3, <1>4, <1>5 DEF GoodImage, ArgInv
<1>9. TakenInv'
  BY <1>5 DEF TakenInv
<1> QED BY <1>6, <1>7, <1>8, <1>9 DEF MailInv

\* Time passes, or nothing happens.
LEMMA TickMail ==
    ASSUME MailInv, Tick \/ UNCHANGED vars
    PROVE  MailInv'
<1> USE DEF memory, file, flushing, history, vars
<1>1. /\ now \in Nat /\ now' \in {now, now + 1}
      /\ UNCHANGED <<memory, file, flushing, pc, arg, version, history, crashes>>
  BY DEF MailInv, TypeOK, Tick
<1>2. now' \in Nat /\ now <= now'
  BY <1>1
<1>3. TypeOK'
  BY <1>1, <1>2 DEF MailInv, TypeOK
<1>4. /\ GoodMail(queues', arrived') /\ GoodMail(disk'.queues, arrived')
      /\ GoodImage' /\ TakenInv'
  BY <1>1 DEF MailInv, GoodImage, TakenInv
<1>5. ArgInv'
  <2> SUFFICES ASSUME NEW t \in Thread
               PROVE  arg[t].time <= now'
    BY <1>1 DEF MailInv, ArgInv
  <2>1. arg[t] \in Arg /\ arg[t].time <= now
    BY DEF MailInv, TypeOK, ArgInv
  <2>2. arg[t].time \in Nat
    BY <2>1 DEF Arg
  <2> QED BY <1>1, <1>2, <2>1, <2>2
<1> QED BY <1>3, <1>4, <1>5 DEF MailInv

\* Initially there is neither mail nor a prekey.
LEMMA InitMail == Init => MailInv
<1> SUFFICES ASSUME Init
             PROVE  MailInv
  OBVIOUS
<1>1. NoArg \in Arg /\ NoArg.time = 0 /\ "idle" \in PC
  BY NoArgType DEF PC
<1>2. /\ Empty \in Image /\ Empty.keys = [k \in Identity |-> None]
      /\ Empty.queues = [b \in Mailbox |-> <<>>] /\ Empty.entries = {}
  <2>1. [b \in Mailbox |-> <<>>] \in [Mailbox -> Seq(Message)]
    <3>1. <<>> \in Seq(Message)
      OBVIOUS
    <3> QED BY <3>1
  <2>2. [k \in Identity |-> None] \in [Identity -> Seq(Nat) \cup {None}]
    OBVIOUS
  <2> QED BY <2>1, <2>2 DEF Empty, Image
<1>3. /\ disk = Empty /\ keys = Empty.keys /\ queues = Empty.queues /\ entries = {}
      /\ \A t \in Thread : pc[t] = "idle" /\ arg[t] = NoArg
      /\ \A b \in Mailbox : taken[b] = {}
      /\ now = 0 /\ arrived = 0
  BY <1>2 DEF Init
<1>4. TypeOK
  <2>1. /\ keys \in [Identity -> Seq(Nat) \cup {None}]
        /\ queues \in [Mailbox -> Seq(Message)]
    BY <1>2, <1>3 DEF Image
  <2>2. persistent \in BOOLEAN /\ dirty \in BOOLEAN
    BY StoreAssumption DEF Init
  <2>3. pc \in [Thread -> PC] /\ arg \in [Thread -> Arg]
    BY <1>1 DEF Init
  <2>4. taken \in [Mailbox -> SUBSET Nat]
    BY DEF Init
  <2> QED BY <1>2, <1>3, <2>1, <2>2, <2>3, <2>4 DEF Init, TypeOK
<1>5. GoodMail(queues, arrived) /\ GoodMail(disk.queues, arrived)
  BY <1>2, <1>3, EmptyQueue DEF GoodMail
<1>6. GoodImage /\ TakenInv /\ ArgInv
  BY <1>1, <1>3 DEF GoodImage, TakenInv, ArgInv
<1> QED BY <1>4, <1>5, <1>6 DEF MailInv

-----------------------------------------------------------------------------
\* The mail in memory, in the file and in the image on its way there is
\* well-formed, in order and within the limits at every step.
THEOREM MailInvariance == Spec => []MailInv
<1>1. ASSUME StoreInv, MailInv, [Next]_vars
      PROVE  MailInv'
  <2>1. ASSUME NEW t \in Thread, Calls(t)
        PROVE  MailInv'
    BY <1>1, <2>1, PublishMail, FetchMail, CallMail DEF Calls
  <2>2. ASSUME NEW t \in Thread, Steps(t)
        PROVE  MailInv'
    BY <1>1, <2>2, EnqueueMail, PollMail, SweepMail, MarkMail, FlushMail DEF Steps
  <2> QED BY <1>1, <2>1, <2>2, CrashMail, TickMail DEF Next
<1> QED BY <1>1, InitMail, StoreInvariance, PTL DEF Spec

\* Every variable keeps its type.
THEOREM StoreTypes == Spec => []TypeOK
<1>1. MailInv => TypeOK
  BY DEF MailInv
<1> QED BY <1>1, MailInvariance, PTL

\* enqueue enforces both caps on every mailbox another thread can see, also on
\* the ones a restart reads back.
THEOREM CapsAlwaysHold == Spec => []CapsRespected
<1>1. MailInv => CapsRespected
  BY DEF MailInv, GoodMail, GoodQueue, CapsRespected
<1> QED BY <1>1, MailInvariance, PTL

\* poll hands out every message at most once and in order of arrival.
THEOREM MailInOrderOnce == Spec => []PolledInOrderOnce
<1>1. MailInv => PolledInOrderOnce
  BY DEF MailInv, GoodMail, GoodQueue, Sorted, TakenInv, PolledInOrderOnce
<1> QED BY <1>1, MailInvariance, PTL

-----------------------------------------------------------------------------
(* Why mail leaves a mailbox.                                              *)

\* The reasons a step may have to remove the message m from mailbox b.
HasReason(b, m) ==
    \/ m.id \in Ids(queues'[b])
    \/ m.id \in taken'[b]
    \/ m.at + MailTtlSecs < now
    \/ /\ arrived' = arrived + 1
       /\ \/ Len(queues[b]) >= MaxMailboxMessages
          \/ \E t \in Thread : /\ pc[t] = "push"
                               /\ TotalBytes(queues[b]) + arg[t].size > MaxMailboxBytes

\* A queue that stays keeps its messages.
LEMMA StayingMail ==
    ASSUME NEW b \in Mailbox, queues'[b] = queues[b], NEW i \in 1 .. Len(queues[b])
    PROVE  HasReason(b, queues[b][i])
BY DEF HasReason, Ids

\* A message that the expiry leaves out at a time in the past is too old now.
LEMMA TooOld ==
    ASSUME NEW time \in Nat, now \in Nat, time <= now, NEW m \in Message,
           ~(m.at >= Cutoff(time))
    PROVE  m.at + MailTtlSecs < now
<1>1. m.at \in Nat /\ MailTtlSecs \in Nat
  BY LimitsAssumption DEF Message
<1> QED BY <1>1 DEF Cutoff

\* What the expiry leaves of a mailbox has every message that is not too old.
LEMMA ExpiredMail ==
    ASSUME MailInv, NEW t \in Thread, NEW b \in Mailbox, NEW i \in 1 .. Len(queues[b])
    PROVE  \/ queues[b][i].id \in Ids(Unexpired(queues[b], arg[t].time))
           \/ queues[b][i].at + MailTtlSecs < now
<1> DEFINE q == queues[b]
           time == arg[t].time
           p == Unexpired(q, time)
<1>1. q \in Seq(Message) /\ arg[t] \in Arg /\ now \in Nat
  BY DEF MailInv, TypeOK
<1>2. time \in Nat /\ time <= now
  BY <1>1 DEF MailInv, ArgInv, Arg
<1>3. q[i] \in Message
  BY <1>1
<1>4. Left(p, q, time, Len(q), TotalBytes(q))
  BY <1>1, UnexpiredLeaves
<1> HIDE DEF p, time, q
<1>5. i \in 1 .. Len(q)
  BY DEF q
<1>6. CASE q[i].at >= Cutoff(time)
  <2>1. PICK l \in 1 .. Len(p) : p[l] = q[i]
    BY <1>4, <1>5, <1>6 DEF Left
  <2>2. q[i].id \in Ids(p)
    BY <2>1 DEF Ids
  <2> QED BY <2>2 DEF p, q, time
<1>7. CASE ~(q[i].at >= Cutoff(time))
  <2>1. q[i].at + MailTtlSecs < now
    BY <1>1, <1>2, <1>3, <1>7, TooOld
  <2> QED BY <2>1 DEF q
<1> QED BY <1>6, <1>7

\* enqueue_at drops the oldest, and only when the new message is over a cap.
LEMMA EnqueueReason ==
    ASSUME MailInv, NEW t \in Thread, EnqueueAt(t), NEW b \in Mailbox,
           NEW i \in 1 .. Len(queues[b])
    PROVE  HasReason(b, queues[b][i])
<1> DEFINE c == arg[t].box
           m == [id |-> arrived + 1, size |-> arg[t].size, at |-> arg[t].time]
           q == queues[b]
           r == Append(q, m)
           p == CapBytes(CapCount(r))
<1>1. /\ arrived \in Nat /\ arg[t] \in Arg /\ c \in Mailbox
      /\ queues \in [Mailbox -> Seq(Message)]
  BY DEF MailInv, TypeOK, ArgInv, EnqueueAt
<1>2. m \in Message /\ m.size = arg[t].size
  BY <1>1 DEF Message, Arg
<1>3. queues' = [queues EXCEPT ![c] = CapBytes(CapCount(Append(queues[c], m)))]
      /\ arrived' = arrived + 1 /\ pc[t] = "push"
  BY DEF EnqueueAt
<1> HIDE DEF m
<1>4. CASE b # c
  <2>1. queues'[b] = queues[b]
    BY <1>1, <1>3, <1>4
  <2> QED BY <2>1, StayingMail
<1>5. CASE b = c
  <2>1. queues'[b] = p
    BY <1>1, <1>3, <1>5
  <2>2. /\ r \in Seq(Message) /\ Len(r) = Len(q) + 1 /\ Len(q) \in Nat
        /\ \A j \in 1 .. Len(q) : r[j] = q[j]
    BY <1>1, <1>2
  <2>3. TotalBytes(r) = TotalBytes(q) + arg[t].size
    BY <1>1, <1>2, TotalAppend
  <2> HIDE DEF r, q
  <2>4. PICK k \in 0 .. Len(r) :
            /\ Len(p) = Len(r) - k
            /\ \A j \in 1 .. Len(p) : p[j] = r[k + j]
            /\ k > 0 => Len(r) > MaxMailboxMessages \/ TotalBytes(r) > MaxMailboxBytes
    BY <2>2, CapsFit
  <2> HIDE DEF p
  <2>5. i \in 1 .. Len(q)
    BY DEF q
  <2>6. CASE i > k
    <3>1. i - k \in 1 .. Len(p) /\ k + (i - k) = i
      BY <2>2, <2>4, <2>5, <2>6
    <3>2. p[i - k] = q[i]
      BY <2>2, <2>4, <2>5, <3>1
    <3>3. q[i].id \in Ids(p)
      BY <3>1, <3>2 DEF Ids
    <3> QED BY <2>1, <3>3 DEF HasReason, q
  <2>7. CASE ~(i > k)
    <3>1. k > 0
      BY <2>2, <2>4, <2>5, <2>7
    <3>2. CASE Len(r) > MaxMailboxMessages
      <4>1. Len(q) >= MaxMailboxMessages
        BY <2>2, <3>2, LimitsAssumption
      <4> QED BY <1>3, <4>1 DEF HasReason, q
    <3>3. CASE TotalBytes(r) > MaxMailboxBytes
      <4>1. TotalBytes(q) + arg[t].size > MaxMailboxBytes
        BY <2>3, <3>3
      <4> QED BY <1>3, <4>1 DEF HasReason, q
    <3> QED BY <2>4, <3>1, <3>2, <3>3
  <2> QED BY <2>2, <2>4, <2>5, <2>6, <2>7
<1> QED BY <1>4, <1>5

\* Every step but a hard kill has a reason for every message that leaves.
LEMMA StepReason ==
    ASSUME MailInv, Next, crashes' = crashes, NEW b \in Mailbox,
           NEW i \in 1 .. Len(queues[b])
    PROVE  HasReason(b, queues[b][i])
<1>1. crashes \in Nat /\ queues \in [Mailbox -> Seq(Message)]
      /\ taken \in [Mailbox -> SUBSET Nat]
  BY DEF MailInv, TypeOK
<1>2. ~Crash
  BY <1>1 DEF Crash
<1>3. CASE queues' = queues
  BY <1>3, StayingMail
<1>4. ASSUME NEW t \in Thread, EnqueueAt(t)
      PROVE  HasReason(b, queues[b][i])
  BY <1>4, EnqueueReason
<1>5. ASSUME NEW t \in Thread, PollAt(t)
      PROVE  HasReason(b, queues[b][i])
  <2>1. CASE arg[t].box \in entries /\ arg[t].box = b
    <3>1. taken'[b] = taken[b] \cup Ids(Unexpired(queues[b], arg[t].time))
      BY <1>1, <1>5, <2>1 DEF PollAt
    <3> QED BY <3>1, ExpiredMail DEF HasReason
  <2>2. CASE ~(arg[t].box \in entries /\ arg[t].box = b)
    <3>1. queues'[b] = queues[b]
      BY <1>1, <1>5, <2>2 DEF PollAt, Drained
    <3> QED BY <3>1, StayingMail
  <2> QED BY <2>1, <2>2
<1>6. ASSUME NEW t \in Thread, SweepExpiredAt(t)
      PROVE  HasReason(b, queues[b][i])
  <2>1. queues'[b] = Unexpired(queues[b], arg[t].time)
    BY <1>6 DEF SweepExpiredAt
  <2> QED BY <2>1, ExpiredMail DEF HasReason
<1>7. CASE Tick
  BY <1>3, <1>7 DEF Tick, memory
<1>8. ASSUME NEW t \in Thread, Calls(t) \/ Steps(t),
             ~EnqueueAt(t), ~PollAt(t), ~SweepExpiredAt(t)
      PROVE  queues' = queues
  BY <1>8 DEF Calls, Steps, Publish, FetchBundle, Enqueue, Poll, SweepExpired, Flush,
     MarkDirty, FlushBegin, FlushNotDue, FlushSerialize, FlushWritten, FlushWriteFails,
     FlushRenamed, FlushRenameFails, memory
<1> QED BY <1>2, <1>3, <1>4, <1>5, <1>6, <1>7, <1>8 DEF Next

\* No message is lost in the store but to its poll, its age, a full mailbox or
\* a hard kill.
THEOREM MailIsKept == Spec => MailLeavesForAReason
<1>1. ASSUME MailInv, [Next]_vars
      PROVE  [crashes' = crashes =>
                \A b \in Mailbox : \A i \in 1 .. Len(queues[b]) :
                    HasReason(b, queues[b][i])]_vars
  BY <1>1, StepReason
<1> QED BY <1>1, MailInvariance, PTL DEF Spec, MailLeavesForAReason, HasReason

-----------------------------------------------------------------------------
(* The loop and the store.                                                 *)

\* A step of the loop is a step of one thread in the store, or none.
LEMMA LoopStep ==
    ASSUME ServerNext
    PROVE  Next \/ UNCHANGED vars
<1>1. Server \in Thread
  BY ServerAssumption
<1>2. ASSUME NEW c \in Client, Accept(c)
      PROVE  UNCHANGED vars
  BY <1>2 DEF Accept
<1>3. CASE AcceptUncounted
  BY <1>3 DEF AcceptUncounted
<1>4. CASE Serve
  BY <1>1, <1>4 DEF Serve, Calls, Next
<1>5. CASE Sweep
  BY <1>1, <1>5 DEF Sweep, Calls, Next
<1>6. CASE ServeOther \/ AfterSweep \/ MaybeFlushNothing \/ NextRequest
  BY <1>6 DEF ServeOther, AfterSweep, MaybeFlushNothing, NextRequest
<1>7. CASE MaybeFlush
  BY <1>1, <1>7 DEF MaybeFlush, Steps, Next
<1>8. CASE StoreStep \/ WriteSucceeds \/ RenameSucceeds \/ FileFails
  BY <1>1, <1>8 DEF StoreStep, WriteSucceeds, RenameSucceeds, FileFails, InStore, Steps, Next
<1>9. CASE Kill
  BY <1>9 DEF Kill, Next
<1>10. CASE Second
  BY <1>10 DEF Second, Next
<1> QED BY <1>2, <1>3, <1>4, <1>5, <1>6, <1>7, <1>8, <1>9, <1>10 DEF ServerNext, Loop

\* The relay uses its store as RelayStore allows: what holds of the store
\* whatever its threads do holds of the relay.
THEOREM ServerUsesStore == ServerSpec => Spec
<1>1. ServerInit => Init
  BY DEF ServerInit
<1>2. ASSUME [ServerNext]_allVars
      PROVE  [Next]_vars
  BY <1>2, LoopStep DEF allVars
<1> QED BY <1>1, <1>2, PTL DEF ServerSpec, Spec

\* In particular the relay saves what it reports saved, loses no change, and
\* keeps mail as its store does.
THEOREM ServerKeepsStore ==
    ServerSpec => [](StoreInv /\ MailInv)
BY ServerUsesStore, StoreInvariance, MailInvariance, PTL

-----------------------------------------------------------------------------
(* The limiter.                                                            *)

LimiterType ==
    /\ now \in Nat /\ started \in Nat /\ started <= now
    /\ rateLimit \in Nat \cup {None}
    /\ asked \in [Client -> Nat] /\ granted \in [Client -> Nat]

\* The windows are of clients and of no minute to come.
WindowsInv ==
    /\ DOMAIN windows \subseteq Client
    /\ windows = [c \in DOMAIN windows |-> windows[c]]
    /\ \A c \in DOMAIN windows : /\ windows[c].minute \in Nat
                                 /\ windows[c].minute <= Minute
                                 /\ windows[c].count \in Nat

\* A client's window of this minute, or its absence, is what it asked for.
InWindow(w, c) == IF c \in DOMAIN w /\ w[c].minute = Minute THEN w[c].count ELSE 0

AskedInv == \A c \in Client : asked[c] = InWindow(windows, c)

LimiterInv ==
    /\ LimiterType
    /\ WindowsInv
    /\ AskedInv
    /\ BudgetExact

\* Minutes do not go back.
LEMMA MinutesPass ==
    ASSUME NEW m \in Nat \ {0}, NEW n \in Nat
    PROVE  /\ n \div m \in Nat
           /\ n \div m <= (n + 1) \div m
<1> DEFINE x == n \div m
           y == (n + 1) \div m
<1>1. x \in Nat /\ y \in Nat
  OBVIOUS
<1>2. m * x <= n /\ n < m * x + m
  OBVIOUS
<1>3. m * y <= n + 1 /\ n + 1 < m * y + m
  OBVIOUS
<1> HIDE DEF x, y
<1>4. ASSUME y < x
      PROVE  FALSE
  <2>1. m * (y + 1) <= m * x
    BY <1>1, <1>4
  <2>2. m * (y + 1) = m * y + m
    BY <1>1
  <2> QED BY <1>1, <1>2, <1>3, <2>1, <2>2
<1>5. x <= y
  BY <1>1, <1>4
<1> QED BY <1>1, <1>5 DEF x, y

\* Dropping stale windows drops no window of this minute.
LEMMA PrunedKeeps ==
    ASSUME NEW w, NEW c
    PROVE  InWindow(Pruned(w), c) = InWindow(w, c)
BY DEF Pruned, InWindow

\* And what is left are windows as before.
LEMMA PrunedFields ==
    ASSUME NEW w, w = [d \in DOMAIN w |-> w[d]]
    PROVE  /\ DOMAIN Pruned(w) \subseteq DOMAIN w
           /\ \A d \in DOMAIN Pruned(w) : Pruned(w)[d] = w[d]
BY DEF Pruned

\* A step that leaves limiter and clock alone.
LEMMA LimiterAside ==
    ASSUME LimiterInv, UNCHANGED <<limiter, now>>
    PROVE  LimiterInv'
BY DEF LimiterInv, LimiterType, WindowsInv, AskedInv, InWindow, BudgetExact, limiter, Minute

\* A request is counted, and served while the count is within the limit.
LEMMA AcceptStep ==
    ASSUME LimiterInv, NEW c \in Client, Accept(c)
    PROVE  LimiterInv'
<1> DEFINE w == Pruned(windows)
           n == Count(c)
<1>1. /\ now \in Nat /\ started \in Nat /\ started <= now /\ rateLimit \in Nat
      /\ asked \in [Client -> Nat] /\ granted \in [Client -> Nat]
  BY DEF LimiterInv, LimiterType, Accept
<1>2. /\ now' = now /\ started' = started /\ rateLimit' = rateLimit /\ Minute' = Minute
      /\ asked' = [asked EXCEPT ![c] = asked[c] + 1]
      /\ windows' = [d \in DOMAIN w \cup {c} |->
                        IF d = c THEN [minute |-> Minute, count |-> n] ELSE w[d]]
      /\ granted' = IF n <= rateLimit THEN [granted EXCEPT ![c] = granted[c] + 1] ELSE granted
  BY DEF Accept, Allow, vars, Minute
<1>3. /\ DOMAIN windows \subseteq Client
      /\ windows = [d \in DOMAIN windows |-> windows[d]]
      /\ \A d \in DOMAIN windows : /\ windows[d].minute \in Nat
                                   /\ windows[d].minute <= Minute
                                   /\ windows[d].count \in Nat
  BY DEF LimiterInv, WindowsInv
<1>4. DOMAIN w \subseteq DOMAIN windows /\ \A d \in DOMAIN w : w[d] = windows[d]
  BY <1>3, PrunedFields
<1>5. \A d \in Client : asked[d] = InWindow(w, d)
  BY PrunedKeeps DEF LimiterInv, AskedInv
<1>6. n = asked[c] + 1
  <2>1. n = IF c \in DOMAIN w /\ w[c].minute = Minute THEN w[c].count + 1 ELSE 1
    BY DEF Count
  <2>2. asked[c] = IF c \in DOMAIN w /\ w[c].minute = Minute THEN w[c].count ELSE 0
    BY <1>5 DEF InWindow
  <2> HIDE DEF n, w
  <2> QED BY <2>1, <2>2
<1> HIDE DEF n, w
<1>7. Minute \in Nat
  <2>1. now - started \in Nat
    BY <1>1
  <2> QED BY <2>1, MinutesPass, ServerAssumption DEF Minute
<1>8. n \in Nat
  BY <1>1, <1>6
<1>9. LimiterType'
  BY <1>1, <1>2 DEF LimiterType
<1>10. /\ DOMAIN windows' = DOMAIN w \cup {c}
       /\ windows'[c].minute = Minute /\ windows'[c].count = n
       /\ \A d \in DOMAIN w : d # c => windows'[d] = w[d]
  BY <1>2
<1>11. WindowsInv'
  <2>1. DOMAIN windows' \subseteq Client /\ windows' = [d \in DOMAIN windows' |-> windows'[d]]
    BY <1>2, <1>3, <1>4
  <2> SUFFICES ASSUME NEW d \in DOMAIN windows'
               PROVE  /\ windows'[d].minute \in Nat /\ windows'[d].minute <= Minute
                      /\ windows'[d].count \in Nat
    BY <1>2, <2>1 DEF WindowsInv
  <2>2. CASE d = c
    BY <1>7, <1>8, <1>10, <2>2
  <2>3. CASE d # c
    BY <1>3, <1>4, <1>10, <2>3
  <2> QED BY <2>2, <2>3
<1>12. AskedInv'
  <2> SUFFICES ASSUME NEW d \in Client
               PROVE  asked'[d] = IF d \in DOMAIN windows' /\ windows'[d].minute = Minute
                                    THEN windows'[d].count ELSE 0
    BY <1>2 DEF AskedInv, InWindow
  <2>1. CASE d = c
    BY <1>1, <1>2, <1>6, <1>10, <2>1
  <2>2. CASE d # c
    <3>1. asked'[d] = asked[d]
      BY <1>1, <1>2, <2>2
    <3>2. asked[d] = IF d \in DOMAIN w /\ w[d].minute = Minute THEN w[d].count ELSE 0
      BY <1>5 DEF InWindow
    <3>3. d \in DOMAIN windows' <=> d \in DOMAIN w
      BY <1>10, <2>2
    <3> QED BY <1>10, <2>2, <3>1, <3>2, <3>3
  <2> QED BY <2>1, <2>2
<1>13. BudgetExact'
  <2>1. \A d \in Client :
           granted[d] = IF asked[d] < rateLimit THEN asked[d] ELSE rateLimit
    <3>1. rateLimit # None
      BY DEF Accept
    <3> QED BY <3>1 DEF LimiterInv, BudgetExact
  <2> SUFFICES ASSUME NEW d \in Client
               PROVE  granted'[d] = IF asked'[d] < rateLimit THEN asked'[d] ELSE rateLimit
    BY <1>2 DEF BudgetExact
  <2>2. asked[d] \in Nat /\ granted[d] \in Nat
    BY <1>1
  <2>3. CASE d = c
    <3>1. asked'[d] = n /\ granted'[d] = IF n <= rateLimit THEN granted[d] + 1 ELSE granted[d]
      BY <1>1, <1>2, <1>6, <2>3
    <3> QED BY <1>1, <1>6, <1>8, <2>1, <2>2, <2>3, <3>1
  <2>4. CASE d # c
    <3>1. asked'[d] = asked[d] /\ granted'[d] = granted[d]
      BY <1>1, <1>2, <2>4
    <3> QED BY <2>1, <3>1
  <2> QED BY <2>3, <2>4
<1> QED BY <1>9, <1>11, <1>12, <1>13 DEF LimiterInv

\* After a restart no window is left, and nobody has asked.
LEMMA KillStep ==
    ASSUME LimiterInv, Kill
    PROVE  LimiterInv'
<1>1. /\ now \in Nat /\ rateLimit \in Nat \cup {None}
      /\ now' = now /\ started' = now /\ rateLimit' = rateLimit
      /\ windows' = [c \in {} |-> None]
      /\ asked' = [c \in Client |-> 0] /\ granted' = [c \in Client |-> 0]
  BY DEF LimiterInv, LimiterType, Kill, Crash
<1>2. LimiterType'
  BY <1>1 DEF LimiterType
<1>3. DOMAIN windows' = {}
  BY <1>1
<1>4. WindowsInv'
  BY <1>1, <1>3 DEF WindowsInv
<1>5. AskedInv'
  BY <1>1, <1>3 DEF AskedInv, InWindow
<1>6. BudgetExact'
  <2> SUFFICES ASSUME rateLimit # None, NEW c \in Client
               PROVE  0 = IF 0 < rateLimit THEN 0 ELSE rateLimit
    BY <1>1 DEF BudgetExact
  <2>1. rateLimit \in Nat
    BY <1>1
  <2> QED BY <2>1
<1> QED BY <1>2, <1>4, <1>5, <1>6 DEF LimiterInv

\* A second passes: in a new minute every window is stale.
LEMMA SecondStep ==
    ASSUME LimiterInv, Second
    PROVE  LimiterInv'
<1> DEFINE m == (now' - started) \div MinuteSecs
<1>1. /\ now \in Nat /\ started \in Nat /\ started <= now /\ rateLimit \in Nat \cup {None}
      /\ asked \in [Client -> Nat] /\ granted \in [Client -> Nat]
  BY DEF LimiterInv, LimiterType
<1>2. /\ now' = now + 1 /\ started' = started /\ rateLimit' = rateLimit /\ windows' = windows
      /\ IF m = Minute
           THEN asked' = asked /\ granted' = granted
           ELSE asked' = [c \in Client |-> 0] /\ granted' = [c \in Client |-> 0]
  BY DEF Second, Tick
<1>3. Minute' = m
  BY <1>2 DEF Minute
<1>4. Minute \in Nat /\ Minute <= m /\ m \in Nat
  <2>1. now - started \in Nat /\ now' - started = (now - started) + 1
        /\ (now - started) + 1 \in Nat
    BY <1>1, <1>2
  <2> QED BY <2>1, MinutesPass, ServerAssumption DEF Minute
<1> HIDE DEF m
<1>5. LimiterType'
  BY <1>1, <1>2 DEF LimiterType
<1>6. /\ DOMAIN windows \subseteq Client
      /\ windows = [d \in DOMAIN windows |-> windows[d]]
      /\ \A d \in DOMAIN windows : /\ windows[d].minute \in Nat
                                   /\ windows[d].minute <= Minute
                                   /\ windows[d].count \in Nat
  BY DEF LimiterInv, WindowsInv
<1>7. WindowsInv'
  <2>1. \A d \in DOMAIN windows : windows[d].minute <= m
    BY <1>4, <1>6
  <2> QED BY <1>2, <1>3, <1>6, <2>1 DEF WindowsInv
<1>8. CASE m = Minute
  <2>1. AskedInv' /\ BudgetExact'
    BY <1>2, <1>3, <1>8 DEF LimiterInv, AskedInv, InWindow, BudgetExact
  <2> QED BY <1>5, <1>7, <2>1 DEF LimiterInv
<1>9. CASE m # Minute
  <2>1. AskedInv'
    <3>1. \A d \in DOMAIN windows : windows[d].minute # m
      BY <1>4, <1>6, <1>9
    <3> QED BY <1>2, <1>3, <1>9, <3>1 DEF AskedInv, InWindow
  <2>2. BudgetExact'
    <3> SUFFICES ASSUME rateLimit # None, NEW c \in Client
                 PROVE  0 = IF 0 < rateLimit THEN 0 ELSE rateLimit
      BY <1>2, <1>9 DEF BudgetExact
    <3>1. rateLimit \in Nat
      BY <1>1
    <3> QED BY <3>1
  <2> QED BY <1>5, <1>7, <2>1, <2>2 DEF LimiterInv
<1> QED BY <1>8, <1>9

\* Initially there are no windows.
LEMMA InitLimiter == ServerInit => LimiterInv
<1> SUFFICES ASSUME ServerInit
             PROVE  LimiterInv
  OBVIOUS
<1>1. /\ now = 0 /\ started = 0 /\ windows = [c \in {} |-> None]
      /\ asked = [c \in Client |-> 0] /\ granted = [c \in Client |-> 0]
      /\ rateLimit \in Nat \cup {None}
  BY ServerAssumption DEF ServerInit, Init
<1>2. LimiterType
  BY <1>1 DEF LimiterType
<1>3. DOMAIN windows = {}
  BY <1>1
<1>4. WindowsInv
  BY <1>1, <1>3 DEF WindowsInv
<1>5. AskedInv
  BY <1>1, <1>3 DEF AskedInv, InWindow
<1>6. BudgetExact
  <2> SUFFICES ASSUME rateLimit # None, NEW c \in Client
               PROVE  0 = IF 0 < rateLimit THEN 0 ELSE rateLimit
    BY <1>1 DEF BudgetExact
  <2>1. rateLimit \in Nat
    BY <1>1
  <2> QED BY <2>1
<1> QED BY <1>2, <1>4, <1>5, <1>6 DEF LimiterInv

\* The rest of the loop knows nothing of limiter and clock.
LEMMA LoopAside ==
    ASSUME AcceptUncounted \/ Loop
    PROVE  UNCHANGED <<limiter, now>>
<1> USE DEF vars
<1>1. CASE AcceptUncounted \/ ServeOther \/ AfterSweep \/ MaybeFlushNothing \/ NextRequest
  BY <1>1 DEF AcceptUncounted, ServeOther, AfterSweep, MaybeFlushNothing, NextRequest
<1>2. CASE Serve
  BY <1>2 DEF Serve, Publish, FetchBundle, Enqueue, Poll
<1>3. CASE Sweep
  BY <1>3 DEF Sweep, SweepExpired
<1>4. CASE MaybeFlush
  BY <1>4 DEF MaybeFlush, FlushBegin
<1>5. CASE StoreStep
  BY <1>5 DEF StoreStep, InStore, EnqueueAt, PollAt, SweepExpiredAt, MarkDirty, FlushSerialize
<1>6. CASE WriteSucceeds \/ RenameSucceeds \/ FileFails
  BY <1>6 DEF WriteSucceeds, RenameSucceeds, FileFails, InStore, FlushWritten, FlushRenamed,
              FlushWriteFails, FlushRenameFails
<1> QED BY <1>1, <1>2, <1>3, <1>4, <1>5, <1>6 DEF Loop

\* RateLimiter::allow gives every client the first rate_limit_per_min requests
\* of every minute and no more, whatever is pruned meanwhile.
THEOREM BudgetAlwaysExact == ServerSpec => []BudgetExact
<1>1. ASSUME LimiterInv, [ServerNext]_allVars
      PROVE  LimiterInv'
  <2>1. CASE UNCHANGED allVars
    BY <1>1, <2>1, LimiterAside DEF allVars, vars, serverVars
  <2>2. CASE AcceptUncounted \/ Loop
    BY <1>1, <2>2, LoopAside, LimiterAside
  <2> QED BY <1>1, <2>1, <2>2, AcceptStep, KillStep, SecondStep DEF ServerNext
<1>2. LimiterInv => BudgetExact
  BY DEF LimiterInv
<1> QED BY <1>1, <1>2, InitLimiter, PTL DEF ServerSpec
=============================================================================
