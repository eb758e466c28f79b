------------------------------ MODULE RelayServer ------------------------------
(***************************************************************************)
(* The relay's request loop (relay/src/server.rs) over its store.  The     *)
(* loop is one thread: it takes a request, asks the rate limiter, calls    *)
(* the store, sweeps once per interval, calls maybe_flush, and takes the   *)
(* next request.  Nothing else ever calls the store: there is no timer and *)
(* no shutdown hook.                                                       *)
(*                                                                         *)
(* Requests that cannot be parsed, /health, unknown paths, and messages    *)
(* that are too large reach no state of the store: they are ServeOther.    *)
(***************************************************************************)
EXTENDS RelayStore

CONSTANTS
    Server,              \* the one thread
    Client,              \* the addresses requests come from
    Options,             \* the command lines: <<with --state or not, --rate-limit or None>>
    MinuteSecs,          \* length of a window of the limiter (60 in the code)
    WindowsCap,          \* size at which stale windows are dropped (10,000)
    SweepIntervalSecs,   \* SWEEP_INTERVAL_SECS (3,600 in the code)
    MaxRequests          \* bound: requests that are counted by the limiter

ASSUME ServerAssumption ==
    /\ Thread = {Server}
    /\ \A o \in Options : o[1] \in BOOLEAN /\ o[2] \in Nat \cup {None}
    /\ MinuteSecs \in Nat \ {0}

VARIABLES
    phase,         \* where the loop is: accept, handle, served, swept, flushed
    rateLimit,     \* ServeOptions.rate_limit_per_min, None if off
    started,       \* RateLimiter.started
    windows,       \* RateLimiter.windows: [clients seen -> (minute, count)]
    lastSweep,     \* last_sweep
    asked,         \* history: [Client -> requests in the current minute]
    granted,       \* history: [Client -> those of them that were served]
    requests,      \* how many requests the limiter has counted
    unsavedSince   \* history: time of the oldest change not in the file, or None

limiter == <<rateLimit, started, windows, asked, granted, requests>>
serverVars == <<phase, limiter, lastSweep, unsavedSince>>
allVars == <<vars, serverVars>>

ServerInit ==
    /\ Init
    /\ rateLimit \in {o[2] : o \in {x \in Options : x[1] = persistent}}
    /\ phase = "accept"
    /\ started = 0
    /\ windows = [c \in {} |-> None]
    /\ lastSweep = 0
    /\ asked = [c \in Client |-> 0]
    /\ granted = [c \in Client |-> 0]
    /\ requests = 0
    /\ unsavedSince = None

-----------------------------------------------------------------------------
(* The fixed-window rate limiter.                                          *)

Minute == (now - started) \div MinuteSecs

\* Mutant: the windows that are dropped are the current ones.
PrunedCurrent(w) ==
    IF Cardinality(DOMAIN w) > WindowsCap
      THEN [c \in {d \in DOMAIN w : w[d].minute # Minute} |-> w[c]]
      ELSE w

\* Once there are too many windows, the stale ones go.
Pruned(w) ==
    IF Cardinality(DOMAIN w) > WindowsCap
      THEN [c \in {d \in DOMAIN w : w[d].minute = Minute} |-> w[c]]
      ELSE w

\* RateLimiter::allow counts the request, refused or not.
Count(c) ==
    LET w == Pruned(windows)
    IN  IF c \in DOMAIN w /\ w[c].minute = Minute THEN w[c].count + 1 ELSE 1

Allow(c) ==
    LET w == Pruned(windows)
    IN  windows' = [d \in DOMAIN w \cup {c} |->
                      IF d = c THEN [minute |-> Minute, count |-> Count(c)] ELSE w[d]]

-----------------------------------------------------------------------------
(* The loop.                                                               *)

Goes(p) == phase' = p

\* A request is admitted, or answered with 429 and nothing else is done.
Accept(c) ==
    /\ phase = "accept"
    /\ rateLimit # None
    /\ requests < MaxRequests
    /\ Allow(c)
    /\ asked' = [asked EXCEPT ![c] = @ + 1]
    /\ requests' = requests + 1
    /\ IF Count(c) <= rateLimit
         THEN /\ Goes("handle")
              /\ granted' = [granted EXCEPT ![c] = @ + 1]
         ELSE UNCHANGED <<phase, granted>>
    /\ UNCHANGED <<vars, rateLimit, started, lastSweep>>

\* A request without limiter, or one whose address is not known.
AcceptUncounted ==
    /\ phase = "accept"
    /\ Goes("handle")
    /\ UNCHANGED <<vars, limiter, lastSweep>>

\* handle_publish, handle_bundle, handle_send and handle_poll.
Serve ==
    /\ phase = "handle"
    /\ \/ \E k \in Identity : \E pool \in Pools : Publish(Server, k, pool)
       \/ \E k \in Identity : FetchBundle(Server, k)
       \/ \E b \in Mailbox : \E size \in MessageSizes : Enqueue(Server, b, size)
       \/ \E b \in Mailbox : Poll(Server, b)
    /\ Goes("served")
    /\ UNCHANGED <<limiter, lastSweep>>

ServeOther ==
    /\ phase = "handle"
    /\ Goes("served")
    /\ UNCHANGED <<vars, limiter, lastSweep>>

SweepDue == now - lastSweep >= SweepIntervalSecs

Sweep ==
    /\ phase = "served"
    /\ SweepDue
    /\ SweepExpired(Server)
    /\ Goes("swept")
    /\ UNCHANGED <<limiter, lastSweep>>

\* The store is idle again: last_sweep is set if there was a sweep, and
\* maybe_flush is called.
AfterSweep ==
    /\ Idle(Server)
    /\ \/ /\ phase = "swept"
          /\ lastSweep' = now
       \/ /\ phase = "served"
          /\ ~SweepDue
          /\ UNCHANGED lastSweep
    /\ Goes("flush")
    /\ UNCHANGED <<vars, limiter>>

MaybeFlush ==
    /\ phase = "flush"
    /\ FlushBegin(Server)
    /\ Goes("flushed")
    /\ UNCHANGED <<limiter, lastSweep>>

MaybeFlushNothing ==
    /\ phase = "flush"
    /\ ~(persistent /\ FlushDue)
    /\ Goes("flushed")
    /\ UNCHANGED <<vars, limiter, lastSweep>>

\* An error of the flush is printed, and the loop goes on.
NextRequest ==
    /\ phase = "flushed"
    /\ Idle(Server)
    /\ Goes("accept")
    /\ UNCHANGED <<vars, limiter, lastSweep>>

\* The loop waits in the middle of a call of the store.
InStore(step) ==
    /\ step
    /\ UNCHANGED <<phase, limiter, lastSweep>>

StoreStep ==
    InStore(\/ EnqueueAt(Server)
            \/ PollAt(Server)
            \/ SweepExpiredAt(Server)
            \/ MarkDirty(Server)
            \/ FlushSerialize(Server))

WriteSucceeds == InStore(FlushWritten(Server))
RenameSucceeds == InStore(FlushRenamed(Server))
FileFails == InStore(FlushWriteFails(Server) \/ FlushRenameFails(Server))

\* A hard kill and a restart: limiter and sweep clock start again.
Kill ==
    /\ Crash
    /\ Goes("accept")
    /\ started' = now
    /\ windows' = [c \in {} |-> None]
    /\ lastSweep' = now
    /\ asked' = [c \in Client |-> 0]
    /\ granted' = [c \in Client |-> 0]
    /\ UNCHANGED <<rateLimit, requests>>

\* A second passes; in a new minute the history of requests starts again.
Second ==
    /\ Tick
    /\ IF (now' - started) \div MinuteSecs = Minute
         THEN UNCHANGED <<asked, granted>>
         ELSE /\ asked' = [c \in Client |-> 0]
              /\ granted' = [c \in Client |-> 0]
    /\ UNCHANGED <<phase, rateLimit, started, windows, lastSweep, requests>>

\* When the oldest change that only memory has was made.
Track ==
    unsavedSince' = IF ~persistent \/ version' = disk'.version THEN None
                    ELSE IF unsavedSince = None THEN now ELSE unsavedSince

Loop ==
    \/ Serve
    \/ ServeOther
    \/ Sweep
    \/ AfterSweep
    \/ MaybeFlush
    \/ MaybeFlushNothing
    \/ NextRequest
    \/ StoreStep
    \/ WriteSucceeds
    \/ RenameSucceeds
    \/ FileFails

ServerNext ==
    /\ \/ \E c \in Client : Accept(c)
       \/ AcceptUncounted
       \/ Loop
       \/ Kill
       \/ Second
    /\ Track

ServerSpec == ServerInit /\ [][ServerNext]_allVars

\* The loop runs, clients keep calling (the app polls every few seconds), the
\* clock goes on, and the disk does not fail every single time.
Fairness ==
    /\ WF_allVars(Loop /\ Track)
    /\ WF_allVars(AcceptUncounted /\ Track)
    /\ WF_allVars(Second /\ Track)
    /\ SF_allVars(WriteSucceeds /\ Track)
    /\ SF_allVars(RenameSucceeds /\ Track)

FairServerSpec == ServerSpec /\ Fairness

-----------------------------------------------------------------------------
\* Between the fixed minutes of the limiter a client gets exactly the first
\* rate_limit_per_min of its requests served: never more, although stale windows
\* are dropped while it is active, and never fewer.
BudgetExact ==
    rateLimit # None =>
        \A c \in Client :
            granted[c] = IF asked[c] < rateLimit THEN asked[c] ELSE rateLimit

\* Although a flush is throttled, may fail, and is tried after requests only,
\* every change reaches the file or is undone by a hard kill, as long as
\* requests keep coming.  (The case excepted is a change in the very last
\* second of the bounded clock.)
EventuallySaved ==
    (unsavedSince # None /\ unsavedSince < MaxTime)
        ~> (unsavedSince = None \/ unsavedSince = MaxTime)
=============================================================================
