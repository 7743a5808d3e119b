---------------------------- MODULE OutboxTiming ----------------------------
(***************************************************************************)
(* How long the events of the outbox wait, and how old a signature is when *)
(* the ERP reads it: OutboxDispatcher.run_forever and its coroutines       *)
(* (dispatcher.py) and the verification window of crypto.py, against a     *)
(* clock that ticks in seconds.  Outbox says what may happen in which      *)
(* order; this module says when, for one dispatcher that stays up.         *)
(*                                                                         *)
(* Python does what it can do at once before a second passes; what waits   *)
(* for the clock are the pause between two polls, the requests in flight   *)
(* and the retries, each a timer that Tick counts down.  A call of the     *)
(* database is synchronous: while another process has the write lock, the  *)
(* claim or the settlement that wants it stops the whole event loop for up *)
(* to busy_timeout, and LockTick is such a second.                         *)
(***************************************************************************)
EXTENDS Integers, FiniteSets

CONSTANTS
    NumEvents,      \* rows that will be enqueued; ids are 1..NumEvents
    AlertEvents,    \* events announced on a second channel after the POST
    BatchLimit,     \* limit of process_batch (25)
    MaxConcurrent,  \* permits of the semaphore (5)
    MaxRetries,     \* max_retries (5)
    BaseDelay,      \* base_delay (2 s)
    MaxDelay,       \* max_delay (300 s)
    RetryAfters,    \* pauses the ERP may ask for with a 429
    PollInterval,   \* poll_interval (2 s)
    PostLimit,      \* how long a POST to the ERP takes at most (10 s a read)
    NotifyLimit,    \* how long an announcement takes at most (5 s)
    Tolerance,      \* tolerance_seconds of the receiver (300 s)
    BusyTimeout,    \* how long a call waits for the write lock (30 s)
    MaxStalls,      \* bound: how many calls find the write lock taken
    MaxFailures     \* bound: how many polls raise

Events == 1..NumEvents
NoHeader == -1

ASSUME TimingAssumption ==
    /\ NumEvents \in Nat
    /\ AlertEvents \subseteq Events
    /\ BatchLimit \in Nat \ {0}
    /\ MaxConcurrent \in Nat \ {0}
    /\ MaxRetries \in Nat
    /\ BaseDelay \in Nat \ {0}
    /\ MaxDelay \in Nat
    /\ BaseDelay <= MaxDelay
    /\ RetryAfters \subseteq Nat
    /\ PollInterval \in Nat \ {0}
    /\ PostLimit \in Nat \ {0}
    /\ NotifyLimit \in Nat \ {0}
    /\ Tolerance \in Nat
    /\ PostLimit <= Tolerance
    /\ BusyTimeout \in Nat \ {0}
    /\ MaxStalls \in Nat
    /\ MaxFailures \in Nat

VARIABLES
    status,      \* OutboxEvent.status; SETTLED is DELIVERED or DEAD_LETTER
    retryCount,  \* OutboxEvent.retry_count
    wait,        \* seconds until next_retry_at, 0 when NULL or past
    loop,        \* run_forever: polling, sleeping, or in gather
    sleep,       \* seconds asyncio.sleep has left
    task,        \* where the _dispatch_event coroutine of an event is
    left,        \* seconds the await of that coroutine has left
    outcome,     \* how its POST ended
    retryAfter,  \* retry_after_delay, NoHeader when None
    failures,    \* polls that raised
    patience,    \* seconds before the call that waits for the lock gives up
    late,        \* rows that came due after the poll that waits read the clock
    stalls,      \* history: calls that found the write lock taken
    age,         \* history: seconds since the timestamp of the signature
    stalled,     \* history: how many of them the event loop stood still
    overdue,     \* history: seconds the row has been PENDING and due
    pause        \* history: what is left of the pause the ERP asked for

rows == <<status, retryCount, wait>>
tasks == <<task, left, outcome, retryAfter>>
db == <<patience, late, stalls>>
history == <<age, stalled, overdue, pause>>
vars == <<status, retryCount, wait, loop, sleep, task, left, outcome,
          retryAfter, failures, patience, late, stalls, age, stalled, overdue,
          pause>>

Least(a, b) == IF a < b THEN a ELSE b
Most(a, b) == IF a > b THEN a ELSE b

Init ==
    /\ status = [e \in Events |-> "ABSENT"]
    /\ retryCount = [e \in Events |-> 0]
    /\ wait = [e \in Events |-> 0]
    /\ loop = "polling"
    /\ sleep = 0
    /\ task = [e \in Events |-> "idle"]
    /\ left = [e \in Events |-> 0]
    /\ outcome = [e \in Events |-> "none"]
    /\ retryAfter = [e \in Events |-> NoHeader]
    /\ failures = 0
    /\ patience = BusyTimeout
    /\ late = {}
    /\ stalls = 0
    /\ stalled = [e \in Events |-> 0]
    /\ age = [e \in Events |-> 0]
    /\ overdue = [e \in Events |-> 0]
    /\ pause = [e \in Events |-> 0]

\* An ingestion commits the next row: PENDING, next_retry_at NULL.
Enqueue(e) ==
    /\ status[e] = "ABSENT"
    /\ \A f \in Events : f < e => status[f] # "ABSENT"
    /\ status' = [status EXCEPT ![e] = "PENDING"]
    /\ UNCHANGED <<retryCount, wait, loop, sleep, tasks, failures, db, history>>

-----------------------------------------------------------------------------
(* The calls of the database.  Each begins with BEGIN IMMEDIATE, which     *)
(* gets the lock at any second of its wait, or raises.                     *)

Blocked == patience < BusyTimeout

CallsDatabase == loop = "polling" \/ \E e \in Events : task[e] = "settling"

\* The call is over, well or badly, and the event loop runs on.
CallReturns == patience' = BusyTimeout /\ UNCHANGED stalls

-----------------------------------------------------------------------------
(* run_forever and the claim of process_batch.                             *)

Due == {e \in Events : status[e] = "PENDING" /\ wait[e] = 0}

\* process_batch reads the clock before it asks for the lock: a retry that
\* comes due while it waits is left for the next poll.
Selectable == Due \ late

\* Variant: the newest rows first.
NewestFirst(S) == {e \in S : Cardinality({f \in S : f > e}) < BatchLimit}

\* ORDER BY id ASC LIMIT BatchLimit
FirstById(S) == {e \in S : Cardinality({f \in S : f < e}) < BatchLimit}

Claim ==
    /\ loop = "polling"
    /\ Selectable # {}
    /\ CallReturns
    /\ loop' = "gathering"
    /\ late' = {}
    /\ LET batch == FirstById(Selectable) IN
       /\ status' = [e \in Events |-> IF e \in batch THEN "PROCESSING" ELSE status[e]]
       /\ task' = [e \in Events |-> IF e \in batch THEN "queued" ELSE task[e]]
       /\ overdue' = [e \in Events |-> IF e \in batch THEN 0 ELSE overdue[e]]
    /\ UNCHANGED <<retryCount, wait, sleep, left, outcome, retryAfter, failures, age,
                   stalled, pause>>

Sleep ==
    /\ CallReturns
    /\ loop' = "sleeping"
    /\ sleep' = PollInterval
    /\ late' = {}
    /\ UNCHANGED <<rows, tasks, history>>

\* processed == 0: nothing was due.
PollFindsNothing ==
    /\ loop = "polling"
    /\ Selectable = {}
    /\ Sleep
    /\ UNCHANGED failures

\* process_batch raises, at once or because the database stayed locked for
\* the whole of busy_timeout: the error is logged and the loop pauses as well.
PollFails ==
    /\ loop = "polling"
    /\ failures < MaxFailures
    /\ failures' = failures + 1
    /\ Sleep

\* asyncio.sleep returns; nothing cuts it short.
WakeUp ==
    /\ loop = "sleeping"
    /\ sleep = 0
    /\ loop' = "polling"
    /\ UNCHANGED <<rows, sleep, tasks, failures, db, history>>

\* gather returns when the slowest coroutine has; a batch that was not empty
\* is followed by the next poll at once.
GatherReturns ==
    /\ loop = "gathering"
    /\ \A e \in Events : task[e] = "idle"
    /\ loop' = "polling"
    /\ UNCHANGED <<rows, sleep, tasks, failures, db, history>>

-----------------------------------------------------------------------------
(* _dispatch_event: nothing of it runs while a call stops the event loop.  *)

HoldsPermit == {e \in Events : task[e] \notin {"idle", "queued"}}

\* Variant: the signature was made when the event was claimed.
SendPostSignedAtClaim(e) ==
    /\ task[e] = "queued"
    /\ ~ Blocked
    /\ Cardinality(HoldsPermit) < MaxConcurrent
    /\ task' = [task EXCEPT ![e] = "posting"]
    /\ left' = [left EXCEPT ![e] = PostLimit]
    /\ UNCHANGED <<rows, loop, sleep, outcome, retryAfter, failures, db, age, stalled, overdue, pause>>

\* Behind the semaphore the timestamp is taken, the payload signed and sent.
SendPost(e) ==
    /\ task[e] = "queued"
    /\ ~ Blocked
    /\ Cardinality(HoldsPermit) < MaxConcurrent
    /\ task' = [task EXCEPT ![e] = "posting"]
    /\ left' = [left EXCEPT ![e] = PostLimit]
    /\ age' = [age EXCEPT ![e] = 0]
    /\ stalled' = [stalled EXCEPT ![e] = 0]
    /\ UNCHANGED <<rows, loop, sleep, outcome, retryAfter, failures, db, overdue, pause>>

\* Alerts are announced before they are settled, with the permit in hand.
AfterPost(e) ==
    /\ task' = [task EXCEPT ![e] = IF e \in AlertEvents THEN "notifying" ELSE "settling"]
    /\ left' = [left EXCEPT ![e] = IF e \in AlertEvents THEN NotifyLimit ELSE 0]

\* A 2xx, or a 4xx that is not 429.
PostIsFinal(e) ==
    /\ task[e] = "posting"
    /\ ~ Blocked
    /\ AfterPost(e)
    /\ outcome' = [outcome EXCEPT ![e] = "final"]
    /\ UNCHANGED <<rows, loop, sleep, retryAfter, failures, db, history>>

\* A 5xx, a 429 without a number in its header, a timeout or a broken
\* connection.
PostIsTransient(e) ==
    /\ task[e] = "posting"
    /\ ~ Blocked
    /\ AfterPost(e)
    /\ outcome' = [outcome EXCEPT ![e] = "transient"]
    /\ UNCHANGED <<rows, loop, sleep, retryAfter, failures, db, history>>

\* A 429 that asks for a pause; max_delay bounds what it gets.
PostIsThrottled(e, seconds) ==
    /\ task[e] = "posting"
    /\ ~ Blocked
    /\ AfterPost(e)
    /\ outcome' = [outcome EXCEPT ![e] = "transient"]
    /\ retryAfter' = [retryAfter EXCEPT ![e] = seconds]
    /\ pause' = [pause EXCEPT ![e] = Least(MaxDelay, seconds)]
    /\ UNCHANGED <<rows, loop, sleep, failures, db, age, stalled, overdue>>

\* The announcement ends, well or badly.
NotifyReturns(e) ==
    /\ task[e] = "notifying"
    /\ ~ Blocked
    /\ task' = [task EXCEPT ![e] = "settling"]
    /\ left' = [left EXCEPT ![e] = 0]
    /\ UNCHANGED <<rows, loop, sleep, outcome, retryAfter, failures, db, history>>

\* Variant: the header of a 429 is not looked at.
BackoffOnly(e) == Least(MaxDelay, BaseDelay * 2 ^ retryCount[e])

Delay(e) ==
    IF retryAfter[e] # NoHeader
    THEN Least(MaxDelay, Most(retryAfter[e], BaseDelay))
    ELSE Least(MaxDelay, BaseDelay * 2 ^ retryCount[e])

\* The jitter of 0.1 to 0.5 s ends before the next second begins or after it.
ScheduleRetry(e, jitter) ==
    /\ outcome[e] = "transient"
    /\ retryCount[e] + 1 <= MaxRetries
    /\ status' = [status EXCEPT ![e] = "PENDING"]
    /\ retryCount' = [retryCount EXCEPT ![e] = @ + 1]
    /\ wait' = [wait EXCEPT ![e] = Delay(e) + jitter]

Conclude(e) ==
    /\ outcome[e] = "final" \/ retryCount[e] + 1 > MaxRetries
    /\ status' = [status EXCEPT ![e] = "SETTLED"]
    /\ UNCHANGED <<retryCount, wait>>

CoroutineEnds(e) ==
    /\ CallReturns
    /\ task' = [task EXCEPT ![e] = "idle"]
    /\ outcome' = [outcome EXCEPT ![e] = "none"]
    /\ retryAfter' = [retryAfter EXCEPT ![e] = NoHeader]
    /\ age' = [age EXCEPT ![e] = 0]
    /\ stalled' = [stalled EXCEPT ![e] = 0]
    /\ UNCHANGED <<loop, sleep, left, failures, late, overdue, pause>>

\* When several coroutines settle, the one whose call waits for the lock is
\* the one that goes on.
Settle(e) ==
    /\ task[e] = "settling"
    /\ (\E jitter \in 0..1 : ScheduleRetry(e, jitter)) \/ Conclude(e)
    /\ CoroutineEnds(e)

\* The settlement raises, at once or after busy_timeout.  gather keeps the
\* exception to itself: the row stays PROCESSING and nobody has it.
SettleFails(e) ==
    /\ task[e] = "settling"
    /\ CoroutineEnds(e)
    /\ UNCHANGED rows

-----------------------------------------------------------------------------
(* The clock.                                                              *)

\* What the event loop would do before a second passes.
Urgent ==
    \/ CallsDatabase
    \/ loop = "sleeping" /\ sleep = 0
    \/ loop = "gathering" /\ \A e \in Events : task[e] = "idle"
    \/ \E e \in Events :
          \/ task[e] = "queued" /\ Cardinality(HoldsPermit) < MaxConcurrent
          \/ task[e] \in {"posting", "notifying"} /\ left[e] = 0

CountDown(timer) == [e \in Events |-> Most(timer[e] - 1, 0)]

\* A clock of the signatures that are not out of date.
CountUp(clock) ==
    [e \in Events |-> IF task[e] \in {"queued", "posting"} THEN clock[e] + 1 ELSE 0]

\* What a second does to the rows, whoever else runs.
SecondPasses ==
    /\ wait' = CountDown(wait)
    /\ pause' = CountDown(pause)
    /\ age' = CountUp(age)
    /\ overdue' = [e \in Events |-> IF e \in Due THEN overdue[e] + 1 ELSE overdue[e]]

Tick ==
    /\ ~ Urgent
    /\ SecondPasses
    /\ sleep' = Most(sleep - 1, 0)
    /\ left' = CountDown(left)
    /\ UNCHANGED <<status, retryCount, loop, task, outcome, retryAfter, failures, db, stalled>>

\* A second in which a call waits for the lock.  The event loop stands still:
\* no timer of a request fires and no answer is read, so what is left of the
\* requests is not used up either.
LockTick ==
    /\ CallsDatabase
    /\ patience > 0
    /\ Blocked \/ stalls < MaxStalls
    /\ SecondPasses
    /\ patience' = patience - 1
    /\ stalls' = IF Blocked THEN stalls ELSE stalls + 1
    /\ late' = IF loop = "polling"
               THEN late \union {e \in Events : status[e] = "PENDING" /\ wait[e] = 1}
               ELSE late
    /\ stalled' = CountUp(stalled)
    /\ UNCHANGED <<status, retryCount, loop, sleep, tasks, failures>>

Next ==
    \/ \E e \in Events :
          \/ Enqueue(e)
          \/ SendPost(e)
          \/ PostIsFinal(e)
          \/ PostIsTransient(e)
          \/ \E seconds \in RetryAfters : PostIsThrottled(e, seconds)
          \/ NotifyReturns(e)
          \/ Settle(e)
          \/ SettleFails(e)
    \/ Claim
    \/ PollFindsNothing
    \/ PollFails
    \/ WakeUp
    \/ GatherReturns
    \/ Tick
    \/ LockTick

Spec == Init /\ [][Next]_vars

-----------------------------------------------------------------------------
\* The longest a batch keeps the loop in gather: its coroutines take turns at
\* the semaphore, and an alert holds its permit for two requests.
Hold == PostLimit + (IF AlertEvents = {} THEN 0 ELSE NotifyLimit)
Cycle == Hold * ((BatchLimit + MaxConcurrent - 1) \div MaxConcurrent)

\* How many full batches of older rows can be claimed before row e.
Overtaken(e) == ((e - 1) * (MaxRetries + 1)) \div BatchLimit

\* No event starves behind slow requests, a backlog of older rows or their
\* retries: the wait of a due event is bounded by the batch in flight and the
\* batches of older rows, and beyond them each poll that raises costs it one
\* pause and each call that finds the database locked one busy_timeout
\* (dispatcher.py:61-94, 231-241, database.py:18-39).
WaitIsBounded ==
    \A e \in Events :
        overdue[e] <= Most(PollInterval, Cycle) + Overtaken(e) * Cycle
                        + failures * PollInterval + stalls * BusyTimeout

\* A request that reaches the ERP while the dispatcher waits for its answer
\* passes the anti-replay check, however long it queued behind others for a
\* permit: its timestamp is not older than tolerance_seconds, unless the
\* settlements of other events stopped the event loop while it was under way
\* (dispatcher.py:102-105, crypto.py:47).
FreshOnArrival ==
    \A e \in Events : task[e] = "posting" => age[e] <= Tolerance + stalled[e]

\* An ERP that answers 429 with Retry-After hears nothing of that event until
\* the pause, up to max_delay, is over, whatever polls, restarts of the loop
\* and other events come in between (dispatcher.py:146-152, 194-195).
PauseIsKept ==
    \A e \in Events : task[e] \in {"queued", "posting"} => pause[e] = 0
=============================================================================
