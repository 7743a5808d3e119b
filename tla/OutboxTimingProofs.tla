------------------------- MODULE OutboxTimingProofs -------------------------
(***************************************************************************)
(* What OutboxTiming promises about time, for every number of events,      *)
(* limits, delays and pauses: the pause of a 429 is kept, a signature is   *)
(* fresh when the ERP reads it, and no due event waits longer than the     *)
(* batch in flight, the batches of older rows, the polls that fail and the *)
(* calls that find the database locked account for.                        *)
(* The last one rests on two counts: the claims the older rows can still   *)
(* make, which every batch that passes an event over lowers by a full      *)
(* batch, and the coroutines that a batch has not finished, which every    *)
(* Hold seconds lower by the permits of the semaphore.                     *)
(***************************************************************************)
EXTENDS OutboxTiming, FiniteSetTheorems, WellFoundedInduction, TLAPS

TypeOK ==
    /\ status \in [Events -> {"ABSENT", "PENDING", "PROCESSING", "SETTLED"}]
    /\ retryCount \in [Events -> 0..MaxRetries]
    /\ wait \in [Events -> Nat]
    /\ loop \in {"polling", "sleeping", "gathering"}
    /\ sleep \in 0..PollInterval
    /\ task \in [Events -> {"idle", "queued", "posting", "notifying", "settling"}]
    /\ left \in [Events -> Nat]
    /\ outcome \in [Events -> {"none", "final", "transient"}]
    /\ retryAfter \in [Events -> RetryAfters \union {NoHeader}]
    /\ failures \in 0..MaxFailures
    /\ patience \in 0..BusyTimeout
    /\ late \in SUBSET Events
    /\ stalls \in 0..MaxStalls
    /\ Blocked => stalls # 0
    /\ age \in [Events -> Nat]
    /\ stalled \in [Events -> Nat]
    /\ overdue \in [Events -> Nat]
    /\ pause \in [Events -> Nat]

\* A coroutine has only rows that are PROCESSING.
Owned == \A e \in Events : task[e] # "idle" => status[e] = "PROCESSING"

\* A retry that came due while the poll waits for the lock has waited no longer
\* than the poll.
LateInv ==
    /\ late # {} => loop = "polling" /\ Blocked
    /\ \A e \in late : overdue[e] <= BusyTimeout - patience

\* Where a pause is: with the request that learned of it, then in next_retry_at.
PauseInv ==
    \A e \in Events :
        /\ status[e] = "ABSENT" => pause[e] = 0
        /\ status[e] = "PENDING" => pause[e] <= wait[e]
        /\ task[e] \in {"queued", "posting"} => pause[e] = 0
        /\ task[e] \in {"idle", "queued", "posting"} => retryAfter[e] = NoHeader
        /\ task[e] \in {"notifying", "settling"} =>
               IF retryAfter[e] = NoHeader THEN pause[e] = 0
               ELSE pause[e] <= Least(MaxDelay, retryAfter[e])

\* A signature ages while the limit of its request runs down, or while the event
\* loop stands still.
FreshInv == \A e \in Events : task[e] = "posting" => age[e] + left[e] <= PostLimit + stalled[e]

\* A row waits only while it is due.
WaitsWhenDue == \A e \in Events : overdue[e] > 0 => e \in Due

\* The coroutines of the batch that are not done.
Busy == {e \in Events : task[e] # "idle"}

\* Seconds until e gives its permit back at the latest.
Residual(e) ==
    CASE task[e] = "posting" -> left[e] + (IF e \in AlertEvents THEN NotifyLimit ELSE 0)
      [] task[e] = "notifying" -> left[e]
      [] OTHER -> 0

\* Taking turns at the semaphore, y seconds into a turn: who has not had a permit
\* before the turn began, and who got one after it.
Young(y) == {e \in Busy : task[e] = "queued" \/ Residual(e) > Hold - y}

Turns == (BatchLimit + MaxConcurrent - 1) \div MaxConcurrent

\* The claims of a row so far; one that is settled makes no more.
Used(f) ==
    CASE status[f] = "PROCESSING" -> retryCount[f] + 1
      [] status[f] = "SETTLED" -> MaxRetries + 1
      [] OTHER -> retryCount[f]

\* The claims that rows older than e may still make, and the full batches of them.
ClaimsLeft(e) == {c \in (1..(e - 1)) \X (0..MaxRetries) : c[2] >= Used(c[1])}
BatchesLeft(e) == Cardinality(ClaimsLeft(e)) \div BatchLimit

\* The seconds that calls have waited for the lock, at the most, and what polls
\* that raised and locked databases have cost together.
Waited == stalls * BusyTimeout - (IF Blocked THEN patience ELSE 0)
Setbacks == failures * PollInterval + Waited

\* The part of the bound that what has happened so far accounts for.
Allowed(e) ==
    Most(PollInterval, Cycle) + (Overtaken(e) - BatchesLeft(e)) * Cycle + Setbacks

\* y seconds into the j-th turn of a batch.
InTurn(j, y) ==
    /\ j = 0 => y = Hold
    /\ Cardinality(Young(y)) <= Most(0, BatchLimit - MaxConcurrent * j)
    /\ \A e \in Events : overdue[e] + Cycle <= Allowed(e) + (j - 1) * Hold + y

WaitInv ==
    /\ WaitsWhenDue
    /\ \A e \in Events : Residual(e) <= Hold
    /\ loop # "gathering" => Busy = {}
    /\ loop = "polling" => \A e \in Events : overdue[e] <= Allowed(e)
    /\ loop = "sleeping" => \A e \in Events : overdue[e] + sleep <= Allowed(e)
    /\ loop = "gathering" => \E j \in 0..Turns, y \in 1..Hold : InTurn(j, y)

-----------------------------------------------------------------------------
(* Numbers.                                                                *)

\* The smaller and the larger of two numbers.
LEMMA LeastAndMost ==
    ASSUME NEW a \in Int, NEW b \in Int
    PROVE  /\ Least(a, b) \in {a, b} /\ Least(a, b) <= a /\ Least(a, b) <= b
           /\ Most(a, b) \in {a, b} /\ Most(a, b) >= a /\ Most(a, b) >= b
BY DEF Least, Most

\* The powers of two that the backoff is built from are the sizes of power sets.
LEMMA PowersOfTwo == \A n \in Nat : 2 ^ n \in Nat
<1>. SUFFICES ASSUME NEW n \in Nat PROVE 2 ^ n \in Nat
  OBVIOUS
<1>1. 1 \in Int /\ n \in Int
  OBVIOUS
<1>2. IsFiniteSet(1..n) /\ Cardinality(1..n) = n
  BY <1>1, FS_Interval
<1>3. IsFiniteSet(SUBSET (1..n)) /\ Cardinality(SUBSET (1..n)) = 2 ^ n
  BY <1>2, FS_SUBSET
<1>. QED  BY <1>3, FS_CardinalityType

\* The delay of a retry is a number of seconds.
LEMMA DelayIsNat == ASSUME TypeOK, NEW e \in Events PROVE Delay(e) \in Nat
<1>1. retryCount[e] \in Nat /\ retryAfter[e] \in RetryAfters \union {NoHeader}
  BY TimingAssumption DEF TypeOK
<1>2. 2 ^ retryCount[e] \in Nat
  BY <1>1, PowersOfTwo
<1>3. BaseDelay * 2 ^ retryCount[e] \in Nat
  <2>. DEFINE p == 2 ^ retryCount[e]
  <2>1. p \in Nat
    BY <1>2
  <2>. HIDE DEF p
  <2>2. BaseDelay * p \in Nat
    BY <2>1, TimingAssumption
  <2>. QED  BY <2>2 DEF p
<1>4. \A n \in Nat : Least(MaxDelay, n) \in Nat
  BY TimingAssumption DEF Least
<1>5. retryAfter[e] # NoHeader => Most(retryAfter[e], BaseDelay) \in Nat
  BY <1>1, TimingAssumption DEF Most
<1>. QED  BY <1>3, <1>4, <1>5 DEF Delay

\* What a 429 asks for is in the delay it gets.
LEMMA DelayKeepsPause ==
    ASSUME TypeOK, NEW e \in Events, retryAfter[e] # NoHeader
    PROVE  Least(MaxDelay, retryAfter[e]) <= Delay(e)
<1>1. retryAfter[e] \in Nat
  BY TimingAssumption DEF TypeOK
<1>. QED  BY <1>1, TimingAssumption DEF Delay, Least, Most

\* A second lowers each timer that has not run down by one.
LEMMA CountDownTyped ==
    ASSUME NEW timer \in [Events -> Nat]
    PROVE  /\ CountDown(timer) \in [Events -> Nat]
           /\ \A e \in Events : CountDown(timer)[e] = IF timer[e] = 0 THEN 0 ELSE timer[e] - 1
BY DEF CountDown, Most

\* A clock of the signatures counts seconds.
LEMMA CountUpTyped ==
    ASSUME NEW clock \in [Events -> Nat]
    PROVE  CountUp(clock) \in [Events -> Nat]
BY DEF CountUp

\* A second keeps the types of what it changes in the rows.
LEMMA SecondTyped ==
    ASSUME TypeOK, SecondPasses
    PROVE  /\ wait' \in [Events -> Nat] /\ pause' \in [Events -> Nat]
           /\ age' \in [Events -> Nat] /\ overdue' \in [Events -> Nat]
BY CountDownTyped, CountUpTyped DEF TypeOK, SecondPasses

-----------------------------------------------------------------------------
(* The types, the pauses and the age of a signature.                       *)

\* Every step keeps the types.
LEMMA NextTypeOK == ASSUME TypeOK, [Next]_vars PROVE TypeOK'
<1>. USE TimingAssumption DEF TypeOK, rows, tasks, db, history, AfterPost, Blocked, CallReturns
<1>1. ASSUME NEW e \in Events, Enqueue(e) PROVE TypeOK'
  BY <1>1 DEF Enqueue
<1>2. ASSUME NEW e \in Events, SendPost(e) PROVE TypeOK'
  BY <1>2 DEF SendPost
<1>3. ASSUME NEW e \in Events, PostIsFinal(e) PROVE TypeOK'
  BY <1>3 DEF PostIsFinal
<1>4. ASSUME NEW e \in Events, PostIsTransient(e) PROVE TypeOK'
  BY <1>4 DEF PostIsTransient
<1>5. ASSUME NEW e \in Events, NEW seconds \in RetryAfters, PostIsThrottled(e, seconds) PROVE TypeOK'
  <2>1. Least(MaxDelay, seconds) \in Nat
    BY DEF Least
  <2>2. pause' \in [Events -> Nat]
    BY <1>5, <2>1 DEF PostIsThrottled
  <2>. QED  BY <1>5, <2>2 DEF PostIsThrottled
<1>6. ASSUME NEW e \in Events, NotifyReturns(e) PROVE TypeOK'
  BY <1>6 DEF NotifyReturns
<1>7. ASSUME NEW e \in Events, Settle(e) PROVE TypeOK'
  <2>1. ASSUME NEW jitter \in 0..1, ScheduleRetry(e, jitter)
        PROVE  /\ status' \in [Events -> {"ABSENT", "PENDING", "PROCESSING", "SETTLED"}]
               /\ retryCount' \in [Events -> 0..MaxRetries] /\ wait' \in [Events -> Nat]
    <3>1. Delay(e) + jitter \in Nat
      BY DelayIsNat
    <3>2. wait' \in [Events -> Nat]
      BY <2>1, <3>1 DEF ScheduleRetry
    <3>3. retryCount[e] + 1 \in 0..MaxRetries
      BY <2>1 DEF ScheduleRetry
    <3>. QED  BY <2>1, <3>2, <3>3 DEF ScheduleRetry
  <2>2. Conclude(e) => /\ status' \in [Events -> {"ABSENT", "PENDING", "PROCESSING", "SETTLED"}]
                       /\ retryCount' \in [Events -> 0..MaxRetries] /\ wait' \in [Events -> Nat]
    BY DEF Conclude
  <2>3. /\ status' \in [Events -> {"ABSENT", "PENDING", "PROCESSING", "SETTLED"}]
        /\ retryCount' \in [Events -> 0..MaxRetries] /\ wait' \in [Events -> Nat]
    BY <1>7, <2>1, <2>2 DEF Settle
  <2>4. CoroutineEnds(e)
    BY <1>7 DEF Settle
  <2>. QED  BY <2>3, <2>4 DEF CoroutineEnds
<1>8. Claim => TypeOK'
  BY DEF Claim
<1>9. PollFindsNothing => TypeOK'
  BY DEF PollFindsNothing, Sleep
<1>10. PollFails => TypeOK'
  BY DEF PollFails, Sleep
<1>11. WakeUp => TypeOK'
  BY DEF WakeUp
<1>12. GatherReturns => TypeOK'
  BY DEF GatherReturns
<1>13. ASSUME Tick PROVE TypeOK'
  <2>1. sleep' \in 0..PollInterval
    BY <1>13 DEF Tick, Most
  <2>2. left' \in [Events -> Nat]
    BY <1>13, CountDownTyped DEF Tick
  <2>. QED  BY <1>13, <2>1, <2>2, SecondTyped DEF Tick
<1>14. UNCHANGED vars => TypeOK'
  BY DEF vars
<1>15. ASSUME NEW e \in Events, SettleFails(e) PROVE TypeOK'
  BY <1>15 DEF SettleFails, CoroutineEnds
<1>16. ASSUME LockTick PROVE TypeOK'
  <2>1. patience' \in 0..BusyTimeout /\ stalls' \in 0..MaxStalls /\ stalls' # 0
    BY <1>16 DEF LockTick
  <2>2. late' \in SUBSET Events /\ stalled' \in [Events -> Nat]
    BY <1>16, CountUpTyped DEF LockTick
  <2>. QED  BY <1>16, <2>1, <2>2, SecondTyped DEF LockTick
<1>. QED  BY <1>1, <1>2, <1>3, <1>4, <1>5, <1>6, <1>7, <1>8, <1>9, <1>10, <1>11, <1>12,
             <1>13, <1>14, <1>15, <1>16 DEF Next

\* The claim gives a row to a coroutine, and a row leaves PROCESSING as its
\* coroutine ends.
LEMMA NextOwned == ASSUME TypeOK, Owned, [Next]_vars PROVE Owned'
<1>. USE DEF TypeOK, Owned, rows, tasks, AfterPost, CoroutineEnds
<1>1. ASSUME NEW e \in Events, Enqueue(e) PROVE Owned'
  BY <1>1 DEF Enqueue
<1>2. ASSUME NEW e \in Events, SendPost(e) PROVE Owned'
  BY <1>2 DEF SendPost
<1>3. ASSUME NEW e \in Events, PostIsFinal(e) PROVE Owned'
  BY <1>3 DEF PostIsFinal
<1>4. ASSUME NEW e \in Events, PostIsTransient(e) PROVE Owned'
  BY <1>4 DEF PostIsTransient
<1>5. ASSUME NEW e \in Events, NEW seconds \in RetryAfters, PostIsThrottled(e, seconds) PROVE Owned'
  BY <1>5 DEF PostIsThrottled
<1>6. ASSUME NEW e \in Events, NotifyReturns(e) PROVE Owned'
  BY <1>6 DEF NotifyReturns
<1>7. ASSUME NEW e \in Events, Settle(e) PROVE Owned'
  BY <1>7 DEF Settle, ScheduleRetry, Conclude
<1>8. Claim => Owned'
  BY DEF Claim
<1>12. ASSUME NEW e \in Events, SettleFails(e) PROVE Owned'
  BY <1>12 DEF SettleFails
<1>9. PollFindsNothing \/ PollFails => Owned'
  BY DEF PollFindsNothing, PollFails, Sleep
<1>10. WakeUp \/ GatherReturns => Owned'
  BY DEF WakeUp, GatherReturns
<1>11. Tick \/ LockTick \/ UNCHANGED vars => Owned'
  BY DEF Tick, LockTick, vars
<1>. QED  BY <1>1, <1>2, <1>3, <1>4, <1>5, <1>6, <1>7, <1>8, <1>9, <1>10, <1>11, <1>12 DEF Next

\* The pause goes from the answer to next_retry_at and runs down with it.
LEMMA NextPauseInv == ASSUME TypeOK, Owned, PauseInv, [Next]_vars PROVE PauseInv'
<1>. USE TimingAssumption DEF TypeOK, Owned, PauseInv, rows, tasks, history, AfterPost, CoroutineEnds
<1>1. ASSUME NEW e \in Events, Enqueue(e) PROVE PauseInv'
  BY <1>1 DEF Enqueue
<1>2. ASSUME NEW e \in Events, SendPost(e) PROVE PauseInv'
  BY <1>2 DEF SendPost
<1>3. ASSUME NEW e \in Events, PostIsFinal(e) PROVE PauseInv'
  BY <1>3 DEF PostIsFinal
<1>4. ASSUME NEW e \in Events, PostIsTransient(e) PROVE PauseInv'
  BY <1>4 DEF PostIsTransient
<1>5. ASSUME NEW e \in Events, NEW seconds \in RetryAfters, PostIsThrottled(e, seconds) PROVE PauseInv'
  <2>1. status[e] = "PROCESSING" /\ seconds # NoHeader
    BY <1>5 DEF PostIsThrottled, NoHeader
  <2>2. /\ pause' = [pause EXCEPT ![e] = Least(MaxDelay, seconds)]
        /\ retryAfter' = [retryAfter EXCEPT ![e] = seconds]
    BY <1>5 DEF PostIsThrottled
  <2>3. pause'[e] <= Least(MaxDelay, retryAfter'[e])
    BY <2>2 DEF Least
  <2>. QED  BY <1>5, <2>1, <2>2, <2>3 DEF PostIsThrottled
<1>6. ASSUME NEW e \in Events, NotifyReturns(e) PROVE PauseInv'
  BY <1>6 DEF NotifyReturns
<1>7. ASSUME NEW e \in Events, Settle(e) PROVE PauseInv'
  <2>1. retryAfter'[e] = NoHeader /\ task'[e] = "idle" /\ pause'[e] = pause[e]
    BY <1>7 DEF Settle
  <2>2. Conclude(e) => status'[e] = "SETTLED"
    BY DEF Conclude
  <2>3. ASSUME NEW jitter \in 0..1, ScheduleRetry(e, jitter)
        PROVE  status'[e] = "PENDING" /\ pause[e] <= wait'[e]
    <3>1. wait'[e] = Delay(e) + jitter /\ status'[e] = "PENDING"
      BY <2>3 DEF ScheduleRetry
    <3>2. Delay(e) \in Nat
      BY DelayIsNat
    <3>3. pause[e] <= Delay(e)
      <4>1. CASE retryAfter[e] = NoHeader
        BY <1>7, <3>2, <4>1 DEF Settle
      <4>2. CASE retryAfter[e] # NoHeader
        <5>1. pause[e] <= Least(MaxDelay, retryAfter[e])
          BY <1>7, <4>2 DEF Settle
        <5>2. Least(MaxDelay, retryAfter[e]) <= Delay(e)
          BY <4>2, DelayKeepsPause
        <5>3. Least(MaxDelay, retryAfter[e]) \in Int
          <6>1. retryAfter[e] \in Nat /\ MaxDelay \in Nat
            BY <4>2
          <6>. QED  BY <6>1 DEF Least
        <5>. QED  BY <3>2, <5>1, <5>2, <5>3
      <4>. QED  BY <4>1, <4>2
    <3>. QED  BY <3>1, <3>2, <3>3
  <2>4. status'[e] = "SETTLED" \/ (status'[e] = "PENDING" /\ pause[e] <= wait'[e])
    BY <1>7, <2>2, <2>3 DEF Settle
  <2>5. \A f \in Events \ {e} : status'[f] = status[f] /\ wait'[f] = wait[f]
    BY <1>7 DEF Settle, ScheduleRetry, Conclude
  <2>. QED  BY <1>7, <2>1, <2>4, <2>5 DEF Settle
<1>8. Claim => PauseInv'
  BY DEF Claim, Selectable, Due, FirstById
<1>13. ASSUME NEW e \in Events, SettleFails(e) PROVE PauseInv'
  BY <1>13 DEF SettleFails
<1>9. PollFindsNothing \/ PollFails => PauseInv'
  BY DEF PollFindsNothing, PollFails, Sleep
<1>10. WakeUp \/ GatherReturns => PauseInv'
  BY DEF WakeUp, GatherReturns
<1>11. ASSUME Tick \/ LockTick PROVE PauseInv'
  <2>1. \A e \in Events : /\ pause'[e] = (IF pause[e] = 0 THEN 0 ELSE pause[e] - 1)
                          /\ wait'[e] = (IF wait[e] = 0 THEN 0 ELSE wait[e] - 1)
    BY <1>11, CountDownTyped DEF Tick, LockTick, SecondPasses
  <2>2. UNCHANGED <<status, task, retryAfter>>
    BY <1>11 DEF Tick, LockTick
  <2>3. \A e \in Events : retryAfter[e] # NoHeader => Least(MaxDelay, retryAfter[e]) \in Nat
    BY DEF Least
  <2>. QED  BY <2>1, <2>2, <2>3
<1>12. UNCHANGED vars => PauseInv'
  BY DEF vars
<1>. QED  BY <1>1, <1>2, <1>3, <1>4, <1>5, <1>6, <1>7, <1>8, <1>9, <1>10, <1>11, <1>12, <1>13 DEF Next

\* The signature is made when the request is sent, and both clocks run alike.
LEMMA NextFreshInv == ASSUME TypeOK, Owned, FreshInv, [Next]_vars PROVE FreshInv'
<1>. USE TimingAssumption DEF TypeOK, Owned, FreshInv, rows, tasks, history, AfterPost, CoroutineEnds
<1>1. ASSUME NEW e \in Events, SendPost(e) PROVE FreshInv'
  BY <1>1 DEF SendPost
<1>2. ASSUME NEW e \in Events, PostIsFinal(e) PROVE FreshInv'
  BY <1>2 DEF PostIsFinal
<1>3. ASSUME NEW e \in Events, PostIsTransient(e) PROVE FreshInv'
  BY <1>3 DEF PostIsTransient
<1>4. ASSUME NEW e \in Events, NEW seconds \in RetryAfters, PostIsThrottled(e, seconds) PROVE FreshInv'
  BY <1>4 DEF PostIsThrottled
<1>5. ASSUME NEW e \in Events, NotifyReturns(e) PROVE FreshInv'
  BY <1>5 DEF NotifyReturns
<1>6. ASSUME NEW e \in Events, Settle(e) PROVE FreshInv'
  BY <1>6 DEF Settle
<1>7. Claim => FreshInv'
  BY DEF Claim, Selectable, Due, FirstById
<1>10. ASSUME NEW e \in Events, SettleFails(e) PROVE FreshInv'
  BY <1>10 DEF SettleFails
<1>11. LockTick => FreshInv'
  BY DEF LockTick, SecondPasses, CountUp
<1>8. ASSUME Tick PROVE FreshInv'
  <2>1. \A e \in Events : left'[e] = IF left[e] = 0 THEN 0 ELSE left[e] - 1
    BY <1>8, CountDownTyped DEF Tick
  <2>2. \A e \in Events : task[e] = "posting" => left[e] # 0
    BY <1>8 DEF Tick, Urgent
  <2>. QED  BY <1>8, <2>1, <2>2 DEF Tick, SecondPasses, CountUp
<1>9. (\E e \in Events : Enqueue(e)) \/ PollFindsNothing \/ PollFails \/ WakeUp
         \/ GatherReturns \/ UNCHANGED vars => FreshInv'
  BY DEF Enqueue, PollFindsNothing, PollFails, Sleep, WakeUp, GatherReturns, vars
<1>. QED  BY <1>1, <1>2, <1>3, <1>4, <1>5, <1>6, <1>7, <1>8, <1>9, <1>10, <1>11 DEF Next

\* A poll that waits reads the clock once, and leaves nothing of it behind.
LEMMA NextLateInv == ASSUME TypeOK, WaitInv, LateInv, [Next]_vars PROVE LateInv'
<1>. USE DEF LateInv, Blocked
<1>1. late = {} \/ (loop = "polling" /\ Busy = {})
  BY DEF WaitInv
<1>2. ASSUME NEW e \in Events,
             SendPost(e) \/ PostIsFinal(e) \/ PostIsTransient(e) \/ NotifyReturns(e) \/ Settle(e)
                \/ SettleFails(e) \/ \E seconds \in RetryAfters : PostIsThrottled(e, seconds)
      PROVE  LateInv'
  <2>1. e \in Busy /\ late' = late
    BY <1>2 DEF Busy, SendPost, PostIsFinal, PostIsTransient, PostIsThrottled, NotifyReturns, Settle,
                SettleFails, CoroutineEnds, db
  <2>. QED  BY <1>1, <2>1
<1>3. ASSUME NEW e \in Events, Enqueue(e) PROVE LateInv'
  BY <1>3 DEF Enqueue, db, history
<1>4. Claim \/ PollFindsNothing \/ PollFails => LateInv'
  BY DEF Claim, PollFindsNothing, PollFails, Sleep
<1>5. WakeUp \/ GatherReturns => LateInv'
  BY <1>1 DEF WakeUp, GatherReturns, db
<1>6. Tick => LateInv'
  BY <1>1 DEF Tick, Urgent, CallsDatabase, db
<1>7. ASSUME LockTick PROVE LateInv'
  <2>1. patience' = patience - 1 /\ patience \in 1..BusyTimeout /\ BusyTimeout \in Nat /\ loop' = loop
    BY <1>7, TimingAssumption DEF LockTick, TypeOK
  <2>2. \A e \in Events : /\ overdue[e] \in Nat /\ overdue'[e] \in Nat /\ overdue'[e] <= overdue[e] + 1
                          /\ e \notin Due => overdue[e] = 0 /\ overdue'[e] = 0
    BY <1>7 DEF LockTick, SecondPasses, TypeOK, WaitInv, WaitsWhenDue
  <2>3. \A e \in late' : e \in Events /\ (e \in late \/ e \notin Due)
    BY <1>7 DEF LockTick, Due, TypeOK
  <2>4. late' # {} => loop = "polling"
    BY <1>7 DEF LockTick
  <2>5. ASSUME NEW e \in late' PROVE overdue'[e] <= BusyTimeout - patience'
    <3>1. e \in Events /\ overdue[e] \in Nat /\ overdue'[e] \in Nat
      BY <2>2, <2>3 DEF WaitInv
    <3>2. CASE e \in late
      <4>1. overdue[e] <= BusyTimeout - patience /\ overdue'[e] <= overdue[e] + 1
        BY <2>2, <3>1, <3>2
      <4>. QED  BY <2>1, <3>1, <4>1
    <3>3. CASE e \notin Due
      <4>1. overdue'[e] = 0
        BY <2>2, <3>1, <3>3
      <4>. QED  BY <2>1, <4>1
    <3>. QED  BY <2>3, <3>2, <3>3
  <2>6. Blocked'
    BY <2>1
  <2>. QED  BY <2>1, <2>4, <2>5, <2>6
<1>8. UNCHANGED vars => LateInv'
  BY DEF vars
<1>. QED  BY <1>2, <1>3, <1>4, <1>5, <1>6, <1>7, <1>8 DEF Next

-----------------------------------------------------------------------------
(* Products and quotients.                                                 *)

\* Multiplication by a number that is not negative is monotonic.
LEMMA ProductsGrow ==
    ASSUME NEW a \in Int, NEW b \in Int, NEW k \in Nat, a <= b
    PROVE  a * k <= b * k /\ k * a <= k * b
<1>1. b - a \in Nat
  OBVIOUS
<1>2. k * (b - a) >= 0
  BY <1>1
<1>3. k * (b - a) = k * b - k * a /\ k * a = a * k /\ k * b = b * k
  OBVIOUS
<1>4. k * a \in Int /\ k * b \in Int
  OBVIOUS
<1>. QED  BY <1>2, <1>3, <1>4

\* A product of natural numbers is one, and one factor more adds the other.
LEMMA ProductIsNat ==
    ASSUME NEW a \in Nat, NEW b \in Nat
    PROVE  a * b \in Nat /\ (a + 1) * b = a * b + b
OBVIOUS

\* Sums grow with their terms.
LEMMA SumsGrow ==
    ASSUME NEW a \in Nat, NEW b \in Nat, NEW c \in Nat, NEW d \in Nat, NEW n \in Nat, a + n <= b, c <= d
    PROVE  a + c \in Nat /\ b + d \in Nat /\ a + c + n <= b + d /\ c + a + n <= d + b
OBVIOUS

\* Division with remainder.
LEMMA QuotientOf ==
    ASSUME NEW a \in Nat, NEW d \in Nat \ {0}
    PROVE  a \div d \in Nat /\ d * (a \div d) <= a /\ a < d * (a \div d) + d
OBVIOUS

\* Division is monotonic, and one divisor more makes the quotient one larger.
LEMMA QuotientsGrow ==
    ASSUME NEW a \in Nat, NEW b \in Nat, NEW d \in Nat \ {0}
    PROVE  /\ a <= b => a \div d <= b \div d
           /\ a + d <= b => a \div d + 1 <= b \div d
<1>. DEFINE p == a \div d
            q == b \div d
<1>1. p \in Nat /\ d * p <= a /\ q \in Nat /\ b < d * q + d
  BY QuotientOf
<1>. HIDE DEF p, q
<1>2. d * p \in Nat /\ d * q \in Nat
  BY <1>1
<1>3. ASSUME a <= b PROVE p <= q
  <2>1. CASE p >= q + 1
    <3>1. d * (q + 1) <= d * p
      BY <1>1, <2>1, ProductsGrow
    <3>2. d * (q + 1) = d * q + d
      BY <1>1
    <3>. QED  BY <1>1, <1>2, <1>3, <3>1, <3>2
  <2>. QED  BY <1>1, <2>1
<1>4. ASSUME a + d <= b PROVE p + 1 <= q
  <2>1. CASE p >= q
    <3>1. d * q <= d * p
      BY <1>1, <2>1, ProductsGrow
    <3>. QED  BY <1>1, <1>2, <1>4, <3>1
  <2>. QED  BY <1>1, <2>1
<1>. QED  BY <1>3, <1>4 DEF p, q

\* The bounds are numbers, and after Turns turns the largest batch has had its
\* permits.
LEMMA Bounds ==
    /\ Hold \in Nat \ {0} /\ Turns \in Nat \ {0} /\ Cycle \in Nat /\ Cycle = Hold * Turns
    /\ \A e \in Events : Overtaken(e) \in Nat
    /\ Most(PollInterval, Cycle) \in Nat
    /\ Most(PollInterval, Cycle) >= PollInterval /\ Most(PollInterval, Cycle) >= Cycle
    /\ \A j \in Nat : BatchLimit - MaxConcurrent * j > 0 => j < Turns
<1>. USE TimingAssumption
<1>1. Hold \in Nat \ {0}
  BY DEF Hold
<1>. DEFINE n == BatchLimit + MaxConcurrent - 1
<1>2. n \in Nat /\ n >= MaxConcurrent /\ n >= BatchLimit
  OBVIOUS
<1>. HIDE DEF n
<1>3. Turns = n \div MaxConcurrent
  BY DEF Turns, n
<1>4. Turns \in Nat /\ n < MaxConcurrent * Turns + MaxConcurrent
  BY <1>2, <1>3, QuotientOf
<1>5. Turns # 0
  BY <1>2, <1>4
<1>6. Cycle = Hold * Turns
  BY <1>3 DEF Cycle, n
<1>7. Cycle \in Nat
  BY <1>1, <1>4, <1>6
<1>8. ASSUME NEW e \in Events PROVE Overtaken(e) \in Nat
  <2>1. e - 1 \in Nat /\ MaxRetries + 1 \in Nat
    BY DEF Events
  <2>2. (e - 1) * (MaxRetries + 1) \in Nat
    BY <2>1
  <2>. QED  BY <2>2, QuotientOf DEF Overtaken
<1>9. ASSUME NEW j \in Nat, BatchLimit - MaxConcurrent * j > 0 PROVE j < Turns
  <2>1. CASE j >= Turns
    <3>1. MaxConcurrent * Turns <= MaxConcurrent * j
      BY <1>4, <2>1, ProductsGrow
    <3>2. MaxConcurrent * Turns \in Nat /\ MaxConcurrent * j \in Nat
      BY <1>4
    <3>3. n = BatchLimit + MaxConcurrent - 1
      BY DEF n
    <3>. QED  BY <1>4, <1>9, <3>1, <3>2, <3>3
  <2>. QED  BY <1>4, <2>1
<1>10. /\ Most(PollInterval, Cycle) \in Nat
       /\ Most(PollInterval, Cycle) >= PollInterval /\ Most(PollInterval, Cycle) >= Cycle
  BY <1>7 DEF Most
<1>. QED  BY <1>1, <1>4, <1>5, <1>6, <1>7, <1>8, <1>9, <1>10

-----------------------------------------------------------------------------
(* The order of the claims.                                                *)

\* Every set of natural numbers that is not empty has a least element: among the
\* intervals that start at 0 and end in it, one contains no other.
LEMMA LeastElement ==
    ASSUME NEW S \in SUBSET Nat, S # {}
    PROVE  \E m \in S : \A k \in S : ~ (k < m)
<1>. DEFINE T == {0..s : s \in S}
            R == StrictSubsetOrdering(Nat)
<1>1. T # {}
  OBVIOUS
<1>2. \A s \in S : 0..s \in SUBSET Nat /\ IsFiniteSet(0..s)
  BY FS_Interval
<1>3. T \subseteq FiniteSubsetsOf(Nat)
  BY <1>2 DEF FiniteSubsetsOf
<1>4. IsWellFoundedOn(R, FiniteSubsetsOf(Nat))
  BY FS_StrictSubsetOrderingWellFounded
<1>. HIDE DEF R
<1>5. \E x \in T : \A y \in T : ~ (<<y, x>> \in R)
  BY <1>1, <1>3, <1>4, WFMin
<1>6. PICK m \in S : \A y \in T : ~ (<<y, 0..m>> \in R)
  BY <1>5
<1>7. ASSUME NEW k \in S, k < m PROVE FALSE
  <2>1. 0..k \subseteq 0..m /\ 0..k # 0..m /\ 0..k \in SUBSET Nat /\ 0..m \in SUBSET Nat
    BY <1>7
  <2>2. <<0..k, 0..m>> \in R
    BY <2>1 DEF R, StrictSubsetOrdering
  <2>. QED  BY <2>2, <1>6
<1>. QED  BY <1>7

\* Any set of events is finite and has a size.
LEMMA EventsFinite ==
    /\ Events \in SUBSET Nat /\ IsFiniteSet(Events)
    /\ \A S \in SUBSET Events : IsFiniteSet(S) /\ Cardinality(S) \in Nat
<1>1. 1 \in Int /\ NumEvents \in Int
  BY TimingAssumption
<1>2. IsFiniteSet(Events) /\ Events \in SUBSET Nat
  BY <1>1, FS_Interval DEF Events
<1>. QED  BY <1>2, FS_Subset, FS_CardinalityType

\* LIMIT: a batch is no larger than batch_limit.
LEMMA BatchIsLimited ==
    ASSUME NEW S \in SUBSET Events
    PROVE  Cardinality(FirstById(S)) <= BatchLimit
<1>. DEFINE B == FirstById(S)
            Below(e) == {f \in S : f < e}
<1>1. B \in SUBSET Events /\ \A e \in B : e \in S /\ Cardinality(Below(e)) < BatchLimit
  BY DEF FirstById
<1>2. CASE B = {}
  BY <1>2, FS_EmptySet, TimingAssumption
<1>3. CASE B # {}
  <2>. DEFINE R == {NumEvents - e : e \in B}
  <2>1. R \in SUBSET Nat /\ R # {}
    BY <1>1, <1>3, TimingAssumption DEF Events
  <2>2. PICK m \in R : \A k \in R : ~ (k < m)
    BY <2>1, LeastElement
  <2>3. PICK u \in B : m = NumEvents - u
    BY <2>2
  <2>4. \A e \in B : e <= u
    <3>. SUFFICES ASSUME NEW e \in B PROVE e <= u
      OBVIOUS
    <3>1. e \in Int /\ u \in Int /\ NumEvents \in Int
      BY <1>1, TimingAssumption DEF Events
    <3>2. NumEvents - e \in R
      OBVIOUS
    <3>3. ~ (NumEvents - e < NumEvents - u)
      BY <2>2, <2>3, <3>2
    <3>. QED  BY <3>1, <3>3
  <2>5. B \subseteq Below(u) \union {u}
    <3>. SUFFICES ASSUME NEW e \in B, e # u PROVE e \in Below(u)
      OBVIOUS
    <3>1. e \in S
      BY DEF FirstById
    <3>2. e \in Int /\ u \in Int
      BY <1>1, TimingAssumption DEF Events
    <3>3. e <= u
      BY <2>4
    <3>. QED  BY <3>1, <3>2, <3>3
  <2>6. Below(u) \in SUBSET Events /\ IsFiniteSet(Below(u)) /\ Cardinality(Below(u)) \in Nat
    BY EventsFinite
  <2>7. IsFiniteSet(Below(u) \union {u})
    BY <2>6, FS_AddElement
  <2>8. Cardinality(Below(u) \union {u}) = Cardinality(Below(u)) + 1
    <3>1. u \notin Below(u)
      BY <1>1 DEF Events
    <3>. QED  BY <2>6, <3>1, FS_AddElement
  <2>9. Cardinality(B) <= Cardinality(Below(u) \union {u})
    BY <2>5, <2>7, FS_Subset
  <2>10. Cardinality(B) \in Nat /\ Cardinality(Below(u)) < BatchLimit
    BY <1>1, EventsFinite
  <2>. QED  BY <2>6, <2>8, <2>9, <2>10, TimingAssumption
<1>. QED  BY <1>2, <1>3

\* ORDER BY id: an event is passed over for a full batch of older ones.
LEMMA OlderFillTheBatch ==
    ASSUME NEW S \in SUBSET Events, NEW e \in S, e \notin FirstById(S)
    PROVE  BatchLimit <= Cardinality({f \in FirstById(S) : f < e})
<1>. DEFINE Below(x) == {f \in S : f < x}
            Late == {f \in S : ~ (Cardinality(Below(f)) < BatchLimit)}
            older == {f \in FirstById(S) : f < e}
<1>1. Late \in SUBSET Nat /\ e \in Late
  BY EventsFinite DEF FirstById
<1>2. PICK t \in Late : \A k \in Late : ~ (k < t)
  BY <1>1, LeastElement
<1>3. t <= e /\ t \in S
  BY <1>1, <1>2
<1>4. \A f \in Below(t) : f \in FirstById(S) /\ f < e
  <2>. SUFFICES ASSUME NEW f \in Below(t) PROVE f \in FirstById(S) /\ f < e
    OBVIOUS
  <2>1. f \in S /\ f < t /\ f \notin Late
    BY <1>2
  <2>2. f \in FirstById(S)
    BY <2>1 DEF FirstById
  <2>. QED  BY <1>3, <2>1, <2>2 DEF Events
<1>5. Below(t) \in SUBSET older
  BY <1>4
<1>6. IsFiniteSet(older) /\ Cardinality(older) \in Nat /\ Cardinality(Below(t)) \in Nat
  BY EventsFinite DEF FirstById
<1>7. Cardinality(Below(t)) <= Cardinality(older)
  BY <1>5, <1>6, FS_Subset
<1>8. ~ (Cardinality(Below(t)) < BatchLimit)
  BY <1>2
<1>. QED  BY <1>6, <1>7, <1>8, TimingAssumption

-----------------------------------------------------------------------------
(* The claims that older rows can still make.                              *)

\* A row has made a number of claims.
LEMMA UsedIsNat == ASSUME TypeOK, NEW f \in Events PROVE Used(f) \in Nat
BY TimingAssumption DEF TypeOK, Used

\* A row can be overtaken by finitely many batches, Overtaken at first.
LEMMA ClaimsAreFinite ==
    ASSUME NEW e \in Events
    PROVE  /\ IsFiniteSet(ClaimsLeft(e)) /\ Cardinality(ClaimsLeft(e)) \in Nat
           /\ BatchesLeft(e) \in Nat /\ BatchesLeft(e) <= Overtaken(e)
<1>. DEFINE older == 1..(e - 1)
            times == 0..MaxRetries
<1>1. e \in Nat /\ e - 1 \in Nat /\ MaxRetries + 1 \in Nat
  BY TimingAssumption DEF Events
<1>2. IsFiniteSet(older) /\ Cardinality(older) = e - 1
  <2>1. 1 \in Int /\ e - 1 \in Int
    BY <1>1
  <2>2. IsFiniteSet(older) /\ Cardinality(older) = IF 1 > e - 1 THEN 0 ELSE (e - 1) - 1 + 1
    BY <2>1, FS_Interval
  <2>. QED  BY <1>1, <2>2
<1>3. IsFiniteSet(times) /\ Cardinality(times) = MaxRetries + 1
  <2>1. 0 \in Int /\ MaxRetries \in Int
    BY TimingAssumption
  <2>2. IsFiniteSet(times) /\ Cardinality(times) = IF 0 > MaxRetries THEN 0 ELSE MaxRetries - 0 + 1
    BY <2>1, FS_Interval
  <2>. QED  BY <2>2, TimingAssumption
<1>. HIDE DEF older, times
<1>4. IsFiniteSet(older \X times) /\ Cardinality(older \X times) = (e - 1) * (MaxRetries + 1)
  BY <1>2, <1>3, FS_Product
<1>5. ClaimsLeft(e) \in SUBSET (older \X times)
  BY DEF ClaimsLeft, older, times
<1>6. /\ IsFiniteSet(ClaimsLeft(e))
      /\ Cardinality(ClaimsLeft(e)) <= (e - 1) * (MaxRetries + 1)
  BY <1>4, <1>5, FS_Subset
<1>7. Cardinality(ClaimsLeft(e)) \in Nat
  BY <1>6, FS_CardinalityType
<1>8. (e - 1) * (MaxRetries + 1) \in Nat
  BY <1>1
<1>9. BatchesLeft(e) \in Nat
  BY <1>7, QuotientOf, TimingAssumption DEF BatchesLeft
<1>10. BatchesLeft(e) <= Overtaken(e)
  BY <1>6, <1>7, <1>8, QuotientsGrow, TimingAssumption DEF BatchesLeft, Overtaken
<1>. QED  BY <1>6, <1>7, <1>9, <1>10

\* No claim is taken back.
LEMMA ClaimsShrink ==
    ASSUME TypeOK, TypeOK', \A f \in Events : Used(f) <= Used(f)', NEW e \in Events
    PROVE  /\ ClaimsLeft(e)' \subseteq ClaimsLeft(e)
           /\ BatchesLeft(e)' \in Nat /\ BatchesLeft(e)' <= BatchesLeft(e)
<1>1. ClaimsLeft(e)' \subseteq ClaimsLeft(e)
  <2>. SUFFICES ASSUME NEW c \in (1..(e - 1)) \X (0..MaxRetries), c[2] >= Used(c[1])'
                PROVE  c[2] >= Used(c[1])
    BY DEF ClaimsLeft
  <2>1. c[1] \in Events /\ c[2] \in Nat
    BY TimingAssumption DEF Events
  <2>2. Used(c[1]) \in Nat /\ Used(c[1])' \in Nat /\ Used(c[1]) <= Used(c[1])'
    <3>1. \A f \in Events : Used(f)' \in Nat
      BY TimingAssumption DEF TypeOK, Used
    <3>. QED  BY <2>1, <3>1, UsedIsNat
  <2>. QED  BY <2>1, <2>2
<1>2. IsFiniteSet(ClaimsLeft(e)) /\ Cardinality(ClaimsLeft(e)) \in Nat
  BY ClaimsAreFinite
<1>3. IsFiniteSet(ClaimsLeft(e)') /\ Cardinality(ClaimsLeft(e)') <= Cardinality(ClaimsLeft(e))
  BY <1>1, <1>2, FS_Subset
<1>4. Cardinality(ClaimsLeft(e)') \in Nat
  BY <1>3, FS_CardinalityType
<1>5. Cardinality(ClaimsLeft(e)') \div BatchLimit <= Cardinality(ClaimsLeft(e)) \div BatchLimit
  BY <1>2, <1>3, <1>4, QuotientsGrow, TimingAssumption
<1>6. Cardinality(ClaimsLeft(e)') \div BatchLimit \in Nat
  BY <1>4, QuotientOf, TimingAssumption
<1>. QED  BY <1>1, <1>5, <1>6 DEF BatchesLeft

\* A step of one coroutine, or of none, takes no claim back.
LEMMA ClaimsOfOthers ==
    ASSUME TypeOK, Owned, [Next]_vars, ~ Claim
    PROVE  \A f \in Events : Used(f) <= Used(f)'
<1>. USE TimingAssumption DEF TypeOK, Owned, Used, rows, tasks, history, AfterPost, CoroutineEnds
<1>1. ASSUME NEW e \in Events, Enqueue(e) PROVE \A f \in Events : Used(f) <= Used(f)'
  BY <1>1 DEF Enqueue
<1>2. ASSUME NEW e \in Events, Settle(e) PROVE \A f \in Events : Used(f) <= Used(f)'
  <2>1. status[e] = "PROCESSING" /\ Used(e) = retryCount[e] + 1
    BY <1>2 DEF Settle
  <2>2. Conclude(e) => /\ status'[e] = "SETTLED" /\ retryCount'[e] = retryCount[e]
                       /\ \A f \in Events \ {e} : status'[f] = status[f] /\ retryCount'[f] = retryCount[f]
    BY DEF Conclude
  <2>3. ASSUME NEW jitter \in 0..1, ScheduleRetry(e, jitter)
        PROVE  /\ status'[e] = "PENDING" /\ retryCount'[e] = retryCount[e] + 1
               /\ \A f \in Events \ {e} : status'[f] = status[f] /\ retryCount'[f] = retryCount[f]
    BY <2>3 DEF ScheduleRetry
  <2>4. /\ \A f \in Events \ {e} : status'[f] = status[f] /\ retryCount'[f] = retryCount[f]
        /\ \/ status'[e] = "SETTLED"
           \/ status'[e] = "PENDING" /\ retryCount'[e] = retryCount[e] + 1
    BY <1>2, <2>2, <2>3 DEF Settle
  <2>5. Used(e) <= Used(e)'
    BY <2>1, <2>4
  <2>. QED  BY <2>4, <2>5
<1>3. ASSUME UNCHANGED <<status, retryCount>> PROVE \A f \in Events : Used(f) <= Used(f)'
  BY <1>3
<1>4. (\E e \in Events : \/ SendPost(e) \/ PostIsFinal(e) \/ PostIsTransient(e) \/ NotifyReturns(e)
                         \/ SettleFails(e) \/ \E seconds \in RetryAfters : PostIsThrottled(e, seconds))
        => UNCHANGED <<status, retryCount>>
  BY DEF SendPost, PostIsFinal, PostIsTransient, NotifyReturns, PostIsThrottled, SettleFails
<1>5. PollFindsNothing \/ PollFails \/ WakeUp \/ GatherReturns \/ Tick \/ LockTick \/ UNCHANGED vars
        => UNCHANGED <<status, retryCount>>
  BY DEF PollFindsNothing, PollFails, Sleep, WakeUp, GatherReturns, Tick, LockTick, vars
<1>. QED  BY <1>1, <1>2, <1>3, <1>4, <1>5 DEF Next

\* A batch that passes e over makes a full batch of the claims of older rows.
LEMMA BatchMakesClaims ==
    ASSUME TypeOK, TypeOK', Claim, NEW e \in Selectable, e \notin FirstById(Selectable)
    PROVE  BatchesLeft(e)' + 1 <= BatchesLeft(e)
<1>. DEFINE batch == FirstById(Selectable)
            older == {f \in batch : f < e}
            made == {<<f, retryCount[f]>> : f \in older}
            pair == [f \in older |-> <<f, retryCount[f]>>]
<1>1. /\ Selectable \in SUBSET Events /\ batch \in SUBSET Selectable
      /\ e \in Events /\ older \in SUBSET Events
  BY DEF Selectable, Due, FirstById
<1>2. /\ \A f \in batch : status[f] = "PENDING" /\ status'[f] = "PROCESSING"
      /\ \A f \in Events \ batch : status'[f] = status[f]
      /\ retryCount' = retryCount
  BY <1>1 DEF Claim, Selectable, Due, TypeOK
<1>3. BatchLimit <= Cardinality(older)
  BY <1>1, OlderFillTheBatch
<1>4. \A f \in Events : Used(f) <= Used(f)'
  BY <1>2, TimingAssumption DEF Used, TypeOK
<1>5. ClaimsLeft(e)' \subseteq ClaimsLeft(e)
  BY <1>1, <1>4, ClaimsShrink
<1>6. made \subseteq ClaimsLeft(e)
  <2>. SUFFICES ASSUME NEW f \in older PROVE <<f, retryCount[f]>> \in ClaimsLeft(e)
    OBVIOUS
  <2>1. f \in batch /\ f \in Events /\ f < e
    BY <1>1
  <2>2. f \in 1..(e - 1) /\ retryCount[f] \in 0..MaxRetries
    BY <1>1, <2>1, TimingAssumption DEF Events, TypeOK
  <2>3. Used(f) = retryCount[f]
    BY <1>2, <2>1 DEF Used
  <2>. QED  BY <2>2, <2>3 DEF ClaimsLeft
<1>7. made \intersect ClaimsLeft(e)' = {}
  <2>. SUFFICES ASSUME NEW f \in older, <<f, retryCount[f]>> \in ClaimsLeft(e)' PROVE FALSE
    OBVIOUS
  <2>1. retryCount[f] >= Used(f)'
    BY DEF ClaimsLeft
  <2>2. f \in batch /\ f \in Events
    BY <1>1
  <2>3. Used(f)' = retryCount[f] + 1 /\ retryCount[f] \in Nat
    BY <1>2, <2>2, TimingAssumption DEF Used, TypeOK
  <2>. QED  BY <2>1, <2>3
<1>8. IsFiniteSet(ClaimsLeft(e)) /\ Cardinality(ClaimsLeft(e)) \in Nat
  BY <1>1, ClaimsAreFinite
<1>9. IsFiniteSet(made) /\ Cardinality(made) \in Nat
  BY <1>6, <1>8, FS_Subset, FS_CardinalityType
<1>10. IsFiniteSet(ClaimsLeft(e)') /\ Cardinality(ClaimsLeft(e)') \in Nat
  BY <1>5, <1>8, FS_Subset, FS_CardinalityType
<1>11. pair \in Injection(older, made)
  <2>1. pair \in [older -> made]
    OBVIOUS
  <2>2. \A f, g \in older : pair[f] = pair[g] => f = g
    OBVIOUS
  <2>. QED  BY <2>1, <2>2 DEF Injection, IsInjective
<1>12. Cardinality(older) <= Cardinality(made)
  BY <1>9, <1>11, FS_Injection
<1>13. Cardinality(older) \in Nat
  BY <1>1, EventsFinite
<1>14. Cardinality(made) + Cardinality(ClaimsLeft(e)') <= Cardinality(ClaimsLeft(e))
  <2>. DEFINE both == made \union ClaimsLeft(e)'
  <2>1. both \in SUBSET ClaimsLeft(e)
    BY <1>5, <1>6
  <2>2. Cardinality(both) <= Cardinality(ClaimsLeft(e))
    BY <1>8, <2>1, FS_Subset
  <2>3. Cardinality(both) = Cardinality(made) + Cardinality(ClaimsLeft(e)')
                            - Cardinality(made \intersect ClaimsLeft(e)')
    BY <1>9, <1>10, FS_Union
  <2>4. Cardinality(made \intersect ClaimsLeft(e)') = 0
    BY <1>7, FS_EmptySet
  <2>. QED  BY <1>9, <1>10, <2>2, <2>3, <2>4
<1>. HIDE DEF older, made, pair
<1>15. Cardinality(ClaimsLeft(e)') + BatchLimit <= Cardinality(ClaimsLeft(e))
  BY <1>3, <1>8, <1>9, <1>10, <1>12, <1>13, <1>14, TimingAssumption
<1>. QED  BY <1>8, <1>10, <1>15, QuotientsGrow, TimingAssumption DEF BatchesLeft

\* The seconds lost to the lock are a number, no more than the calls that met it
\* may wait.
LEMMA WaitedIsNat ==
    ASSUME TypeOK
    PROVE  /\ Waited \in Nat /\ stalls * BusyTimeout \in Nat /\ Waited <= stalls * BusyTimeout
           /\ Blocked => BusyTimeout <= stalls * BusyTimeout
<1>1. stalls \in Nat /\ BusyTimeout \in Nat /\ patience \in Nat /\ patience <= BusyTimeout
  BY TimingAssumption DEF TypeOK
<1>2. stalls * BusyTimeout \in Nat
  BY <1>1
<1>3. Blocked => BusyTimeout <= stalls * BusyTimeout
  <2>. SUFFICES ASSUME Blocked PROVE BusyTimeout <= stalls * BusyTimeout
    OBVIOUS
  <2>1. 1 <= stalls
    BY <1>1 DEF TypeOK
  <2>2. 1 * BusyTimeout <= stalls * BusyTimeout
    BY <1>1, <2>1, ProductsGrow
  <2>. QED  BY <1>1, <2>2
<1>. DEFINE product == stalls * BusyTimeout
<1>4. Waited = product - (IF Blocked THEN patience ELSE 0)
  BY DEF Waited
<1>. HIDE DEF product
<1>5. Waited \in Nat /\ Waited <= product
  BY <1>1, <1>2, <1>3, <1>4 DEF product
<1>. QED  BY <1>2, <1>3, <1>5 DEF product

\* No second of waiting is taken back, and LockTick is one more.
LEMMA WaitedGrows ==
    ASSUME TypeOK, TypeOK', [Next]_vars
    PROVE  Waited' \in Nat /\ Waited <= Waited' /\ (LockTick => Waited' = Waited + 1)
<1>1. /\ stalls \in Nat /\ BusyTimeout \in Nat /\ patience \in Nat /\ patience <= BusyTimeout
      /\ stalls' \in Nat /\ patience' \in Nat /\ patience' <= BusyTimeout
  BY TimingAssumption DEF TypeOK
<1>2. stalls * BusyTimeout \in Nat /\ (stalls + 1) * BusyTimeout = stalls * BusyTimeout + BusyTimeout
  BY <1>1
<1>3. stalls' * BusyTimeout \in Nat
  BY <1>1, ProductIsNat
<1>4. /\ Waited = stalls * BusyTimeout - (IF patience < BusyTimeout THEN patience ELSE 0)
      /\ Waited' = stalls' * BusyTimeout - (IF patience' < BusyTimeout THEN patience' ELSE 0)
  BY DEF Waited, Blocked
<1>5. ASSUME LockTick PROVE Waited' = Waited + 1
  <2>1. patience' = patience - 1 /\ patience > 0
    BY <1>5 DEF LockTick
  <2>2. CASE Blocked
    <3>1. stalls' = stalls /\ patience < BusyTimeout
      BY <1>5, <2>2 DEF LockTick, Blocked
    <3>. QED  BY <1>1, <1>2, <1>4, <2>1, <3>1
  <2>3. CASE ~ Blocked
    <3>1. stalls' = stalls + 1 /\ patience = BusyTimeout
      BY <1>1, <1>5, <2>3 DEF LockTick, Blocked
    <3>. QED  BY <1>1, <1>2, <1>4, <2>1, <3>1
  <2>. QED  BY <2>2, <2>3
<1>6. LockTick \/ (stalls' = stalls /\ (patience' = patience \/ patience' = BusyTimeout))
  BY DEF Next, Enqueue, SendPost, PostIsFinal, PostIsTransient, PostIsThrottled, NotifyReturns, Settle,
         SettleFails, CoroutineEnds, CallReturns, Claim, PollFindsNothing, PollFails, Sleep, WakeUp,
         GatherReturns, Tick, vars, db
<1>7. CASE stalls' = stalls /\ (patience' = patience \/ patience' = BusyTimeout)
  <2>1. PICK product \in Nat :
              /\ Waited = product - (IF patience < BusyTimeout THEN patience ELSE 0)
              /\ Waited' = product - (IF patience' < BusyTimeout THEN patience' ELSE 0)
    BY <1>2, <1>4, <1>7
  <2>2. Waited \in Nat /\ Waited' \in Int
    BY <1>1, <2>1, WaitedIsNat
  <2>3. CASE patience' = patience
    BY <1>1, <1>5, <2>1, <2>2, <2>3
  <2>4. CASE patience' = BusyTimeout
    <3>1. Waited' = product
      BY <1>1, <2>1, <2>4
    <3>2. PICK pending \in Nat : Waited = product - pending
      BY <1>1, <2>1
    <3>. QED  BY <1>5, <2>2, <3>1, <3>2
  <2>. QED  BY <1>7, <2>3, <2>4
<1>8. CASE LockTick
  BY <1>5, <1>8, WaitedIsNat
<1>. QED  BY <1>5, <1>6, <1>7, <1>8

\* Setbacks add up: one pause for a poll that fails, one second for a locked
\* database.
LEMMA SetbacksGrow ==
    ASSUME TypeOK, TypeOK', [Next]_vars
    PROVE  /\ Setbacks \in Nat /\ Setbacks' \in Nat /\ Setbacks <= Setbacks'
           /\ PollFails => Setbacks + PollInterval <= Setbacks'
           /\ LockTick => Setbacks + 1 <= Setbacks'
<1>1. failures \in Nat /\ failures' \in Nat /\ PollInterval \in Nat
  BY TimingAssumption DEF TypeOK
<1>2. failures' = failures \/ failures' = failures + 1
  BY <1>1 DEF Next, Enqueue, SendPost, PostIsFinal, PostIsTransient, PostIsThrottled, NotifyReturns, Settle,
         SettleFails, CoroutineEnds, Claim, PollFindsNothing, PollFails, WakeUp,
         GatherReturns, Tick, LockTick, vars
<1>3. /\ failures * PollInterval \in Nat /\ failures' * PollInterval \in Nat
      /\ (failures + 1) * PollInterval = failures * PollInterval + PollInterval
  BY <1>1, ProductIsNat
<1>4. failures * PollInterval <= failures' * PollInterval
  <2>1. CASE failures' = failures
    BY <1>3, <2>1
  <2>2. CASE failures' = failures + 1
    BY <1>1, <1>3, <2>2
  <2>. QED  BY <1>2, <2>1, <2>2
<1>5. PollFails => failures' * PollInterval = failures * PollInterval + PollInterval
  BY <1>3 DEF PollFails
<1>6. Waited \in Nat /\ Waited' \in Nat /\ Waited <= Waited'
  BY WaitedIsNat, WaitedGrows
<1>7. Setbacks \in Nat /\ Setbacks' \in Nat /\ Setbacks <= Setbacks'
  <2>1. failures * PollInterval + 0 <= failures' * PollInterval
    BY <1>3, <1>4
  <2>2. Setbacks \in Nat /\ Setbacks' \in Nat /\ Setbacks + 0 <= Setbacks'
    BY <1>3, <1>6, <2>1, SumsGrow DEF Setbacks
  <2>. QED  BY <2>2
<1>8. ASSUME PollFails PROVE Setbacks + PollInterval <= Setbacks'
  <2>1. failures * PollInterval + PollInterval <= failures' * PollInterval
    BY <1>3, <1>5, <1>8
  <2>. QED  BY <1>1, <1>3, <1>6, <2>1, SumsGrow DEF Setbacks
<1>9. ASSUME LockTick PROVE Setbacks + 1 <= Setbacks'
  <2>1. Waited + 1 <= Waited'
    BY <1>6, <1>9, WaitedGrows
  <2>. QED  BY <1>3, <1>4, <1>6, <2>1, SumsGrow DEF Setbacks
<1>. QED  BY <1>7, <1>8, <1>9

\* What the bound allows is a number that never falls, and that a batch raises for
\* whom it passes over.
LEMMA AllowedIsNat ==
    ASSUME TypeOK, NEW e \in Events
    PROVE  Allowed(e) \in Nat /\ Allowed(e) >= PollInterval /\ Allowed(e) >= Cycle
<1>. DEFINE k == Overtaken(e) - BatchesLeft(e)
<1>1. k \in Nat
  BY Bounds, ClaimsAreFinite
<1>. HIDE DEF k
<1>2. k * Cycle \in Nat
  BY <1>1, Bounds
<1>3. Setbacks \in Nat
  <2>1. failures * PollInterval \in Nat
    BY TimingAssumption DEF TypeOK
  <2>. QED  BY <2>1, WaitedIsNat DEF Setbacks
<1>4. Allowed(e) = Most(PollInterval, Cycle) + k * Cycle + Setbacks
  BY DEF Allowed, k
<1>. HIDE DEF Allowed
<1>. QED  BY <1>2, <1>3, <1>4, Bounds, TimingAssumption

\* n batches fewer in front and m seconds of setbacks more raise what is allowed
\* by their time.
LEMMA AllowedGrows ==
    ASSUME TypeOK, NEW e \in Events, NEW n \in Nat, NEW m \in Nat,
           BatchesLeft(e)' \in Nat, BatchesLeft(e)' + n <= BatchesLeft(e),
           Setbacks \in Nat, Setbacks' \in Nat, Setbacks + m <= Setbacks'
    PROVE  Allowed(e)' \in Int /\ Allowed(e) + n * Cycle + m <= Allowed(e)'
<1>. DEFINE k == Overtaken(e) - BatchesLeft(e)
            l == Overtaken(e) - BatchesLeft(e)'
            base == Most(PollInterval, Cycle)
            before == Setbacks
            after == Setbacks'
<1>1. k \in Nat /\ l \in Nat /\ k + n <= l
  BY Bounds, ClaimsAreFinite
<1>2. Allowed(e) = base + k * Cycle + before
  BY DEF Allowed
<1>3. Allowed(e)' = base + l * Cycle + after
  BY DEF Allowed, Overtaken, Cycle, Hold, Most
<1>4. base \in Nat /\ Cycle \in Nat /\ before \in Nat /\ after \in Nat /\ before + m <= after
  BY Bounds
<1>. HIDE DEF k, l, base, before, after
<1>5. (k + n) * Cycle <= l * Cycle
  BY <1>1, <1>4, ProductsGrow
<1>6. (k + n) * Cycle = k * Cycle + n * Cycle /\ k * Cycle \in Nat /\ n * Cycle \in Nat /\ l * Cycle \in Nat
  BY <1>1, <1>4
<1>. QED  BY <1>2, <1>3, <1>4, <1>5, <1>6

\* Who is in the way of e: nobody gets in front of it by a step that is no claim.
LEMMA AllowedStays ==
    ASSUME TypeOK, TypeOK', Owned, [Next]_vars, ~ Claim, NEW e \in Events,
           NEW m \in Nat, Setbacks + m <= Setbacks'
    PROVE  Allowed(e)' \in Int /\ Allowed(e) + m <= Allowed(e)'
<1>1. BatchesLeft(e)' \in Nat /\ BatchesLeft(e)' <= BatchesLeft(e)
  BY ClaimsShrink, ClaimsOfOthers
<1>2. BatchesLeft(e) \in Nat /\ Setbacks \in Nat /\ Setbacks' \in Nat
  BY ClaimsAreFinite, SetbacksGrow
<1>3. Allowed(e)' \in Int /\ Allowed(e) + 0 * Cycle + m <= Allowed(e)'
  BY <1>1, <1>2, AllowedGrows
<1>4. 0 * Cycle = 0 /\ Allowed(e) \in Nat
  BY Bounds, AllowedIsNat
<1>. QED  BY <1>3, <1>4

\* A step that is no claim does not lower what is allowed.
LEMMA Unfailing ==
    ASSUME TypeOK, TypeOK', Owned, [Next]_vars, ~ Claim, NEW e \in Events
    PROVE  Allowed(e)' \in Int /\ Allowed(e) <= Allowed(e)'
<1>1. Setbacks \in Nat /\ Setbacks + 0 <= Setbacks'
  BY SetbacksGrow
<1>2. Allowed(e)' \in Int /\ Allowed(e) + 0 <= Allowed(e)'
  BY <1>1, AllowedStays
<1>. QED  BY <1>2, AllowedIsNat

\* A retry that came due while the poll waited is allowed that wait, beyond the
\* pause or the batch that comes next.
LEMMA LateIsAllowed ==
    ASSUME TypeOK, TypeOK', LateInv, [Next]_vars, NEW e \in late, patience' = BusyTimeout,
           stalls' = stalls, BatchesLeft(e)' \in Nat, BatchesLeft(e)' <= BatchesLeft(e)
    PROVE  /\ overdue[e] + PollInterval <= Allowed(e)' /\ overdue[e] + Cycle <= Allowed(e)'
<1>. DEFINE l == Overtaken(e) - BatchesLeft(e)'
            base == Most(PollInterval, Cycle)
            product == stalls * BusyTimeout
            lost == failures' * PollInterval
<1>1. e \in Events /\ overdue[e] \in Nat /\ overdue[e] <= BusyTimeout - patience
      /\ patience \in Nat /\ BusyTimeout \in Nat /\ PollInterval \in Nat
  BY TimingAssumption DEF LateInv, TypeOK
<1>2. BusyTimeout <= product /\ product \in Nat
  BY WaitedIsNat DEF LateInv
<1>3. l \in Nat
  <2>1. BatchesLeft(e) \in Nat /\ BatchesLeft(e) <= Overtaken(e) /\ Overtaken(e) \in Nat
    BY <1>1, Bounds, ClaimsAreFinite
  <2>. QED  BY <2>1
<1>4. base \in Nat /\ Cycle \in Nat /\ base >= Cycle /\ base >= PollInterval
  BY Bounds
<1>5. lost \in Nat
  <2>1. failures' \in Nat /\ PollInterval \in Nat
    BY TimingAssumption DEF TypeOK
  <2>. QED  BY <2>1, ProductIsNat
<1>6. Waited' = product
  <2>1. ~ Blocked'
    BY <1>1 DEF Blocked
  <2>2. Waited' = stalls' * BusyTimeout - 0
    BY <2>1 DEF Waited
  <2>. QED  BY <1>2, <2>2
<1>7. Allowed(e)' = base + l * Cycle + (lost + Waited')
  BY DEF Allowed, Setbacks, Overtaken, Cycle, Hold, Most
<1>. HIDE DEF l, base, product, lost
<1>8. l * Cycle \in Nat
  BY <1>3, <1>4
<1>. QED  BY <1>1, <1>2, <1>4, <1>5, <1>6, <1>7, <1>8

-----------------------------------------------------------------------------
(* The turns at the semaphore.                                             *)

\* The coroutines of a batch are finitely many.
LEMMA CoroutinesFinite ==
    /\ \A S \in SUBSET Events : IsFiniteSet(S) /\ Cardinality(S) \in Nat
    /\ Busy \in SUBSET Events /\ HoldsPermit \in SUBSET Events
    /\ \A y : Young(y) \in SUBSET Events
BY EventsFinite DEF Busy, HoldsPermit, Young

\* A turn leaves no more than it found.
LEMMA FewerYoung ==
    ASSUME NEW y, NEW z, Young(z)' \subseteq Young(y)
    PROVE  Cardinality(Young(z)') \in Nat /\ Cardinality(Young(z)') <= Cardinality(Young(y))
<1>1. IsFiniteSet(Young(y)) /\ IsFiniteSet(Young(z)') /\ Cardinality(Young(z)') \in Nat
  BY EventsFinite DEF Young, Busy
<1>. QED  BY <1>1, FS_Subset

\* The seconds of the turns add up to those of a batch.
LEMMA SecondsOfTurn ==
    ASSUME NEW j \in 0..Turns, NEW y \in 1..Hold
    PROVE  /\ (j - 1) * Hold + y \in Int /\ (j - 1) * Hold + y <= Cycle
           /\ j * Hold + 1 = (j - 1) * Hold + Hold + 1
<1>1. j \in Int /\ y \in Int /\ Hold \in Nat /\ Turns \in Nat /\ j <= Turns /\ y <= Hold
  BY Bounds
<1>2. Cycle = Hold * Turns
  BY Bounds
<1>. HIDE DEF Hold, Turns, Cycle
<1>3. (j - 1) * Hold = j * Hold - Hold /\ j * Hold \in Int /\ Hold * Turns = Turns * Hold
  BY <1>1
<1>4. j * Hold <= Turns * Hold
  BY <1>1, ProductsGrow
<1>. QED  BY <1>1, <1>2, <1>3, <1>4

\* What a coroutine does while no second passes.
LEMMA QuietStep ==
    ASSUME TypeOK, TypeOK', Owned, WaitInv, [Next]_vars, ~ Claim,
           UNCHANGED <<loop, sleep, overdue>>, Due \subseteq Due', Busy' \subseteq Busy,
           \A e \in Events : Residual(e)' <= Hold, \A y \in 1..Hold : Young(y)' \subseteq Young(y)
    PROVE  WaitInv'
<1>. USE DEF WaitInv
<1>1. \A e \in Events : Allowed(e) <= Allowed(e)' /\ Allowed(e) \in Int /\ Allowed(e)' \in Int
  BY Unfailing, AllowedIsNat
<1>2. \A e \in Events : overdue[e] \in Nat /\ overdue'[e] = overdue[e] /\ sleep \in Nat
  BY TimingAssumption DEF TypeOK
<1>3. WaitsWhenDue'
  BY <1>2 DEF WaitsWhenDue
<1>4. \A e \in Events : Residual(e)' <= Hold'
  BY DEF Hold
<1>5. loop' # "gathering" => Busy' = {}
  OBVIOUS
<1>6. loop' = "polling" => \A e \in Events : overdue'[e] <= Allowed(e)'
  BY <1>1, <1>2
<1>7. loop' = "sleeping" => \A e \in Events : overdue'[e] + sleep' <= Allowed(e)'
  BY <1>1, <1>2
<1>8. ASSUME loop' = "gathering" PROVE \E j \in 0..Turns, y \in 1..Hold : InTurn(j, y)'
  <2>1. PICK j \in 0..Turns, y \in 1..Hold : InTurn(j, y)
    BY <1>8
  <2>2. Cardinality(Young(y)') \in Nat /\ Cardinality(Young(y)') <= Cardinality(Young(y))
    BY FewerYoung
  <2>3. Cardinality(Young(y)) \in Nat
    BY CoroutinesFinite
  <2>4. Most(0, BatchLimit - MaxConcurrent * j) \in Nat
    <3>1. BatchLimit - MaxConcurrent * j \in Int
      BY Bounds, TimingAssumption
    <3>. QED  BY <3>1 DEF Most
  <2>5. Cardinality(Young(y)') <= Most(0, BatchLimit - MaxConcurrent * j)
    BY <2>1, <2>2, <2>3, <2>4 DEF InTurn
  <2>6. \A e \in Events : overdue'[e] + Cycle <= Allowed(e)' + (j - 1) * Hold + y
    <3>1. (j - 1) * Hold + y \in Int /\ Cycle \in Int /\ (j - 1) * Hold \in Int /\ y \in Int
      BY SecondsOfTurn, Bounds
    <3>2. \A e \in Events : overdue[e] + Cycle <= Allowed(e) + (j - 1) * Hold + y
      BY <2>1 DEF InTurn
    <3>. HIDE DEF Hold, Cycle
    <3>. QED  BY <1>1, <1>2, <3>1, <3>2
  <2>. QED  BY <2>1, <2>5, <2>6 DEF InTurn, Hold, Cycle, Most
<1>. QED  BY <1>3, <1>4, <1>5, <1>6, <1>7, <1>8 DEF Turns, Hold

\* A new row is the youngest, and is due for no time yet.
LEMMA EnqueueKeepsWait ==
    ASSUME TypeOK, TypeOK', Owned, WaitInv, NEW e \in Events, Enqueue(e) PROVE WaitInv'
<1>1. UNCHANGED <<loop, sleep, overdue, task, left>>
  BY DEF Enqueue, tasks, history
<1>2. Due \subseteq Due'
  BY DEF Enqueue, Due, TypeOK
<1>3. /\ Busy' \subseteq Busy /\ \A f \in Events : Residual(f)' <= Hold
      /\ \A y \in 1..Hold : Young(y)' \subseteq Young(y)
  BY <1>1 DEF WaitInv, Busy, Residual, Young, Hold
<1>4. [Next]_vars /\ ~ Claim
  BY <1>1 DEF Next, Claim, Enqueue
<1>. QED  BY <1>1, <1>2, <1>3, <1>4, QuietStep

\* A coroutine that moves on keeps its permit no longer than it might have.
LEMMA CoroutineKeepsWait ==
    ASSUME TypeOK, TypeOK', Owned, WaitInv, [Next]_vars, NEW e \in Busy,
           UNCHANGED <<loop, sleep, overdue, status, wait>>,
           \A f \in Events \ {e} : task'[f] = task[f] /\ left'[f] = left[f],
           task'[e] # "queued",
           task[e] = "queued" \/ Residual(e)' <= Residual(e),
           Residual(e)' <= Hold
    PROVE  WaitInv'
<1>1. Due \subseteq Due'
  BY DEF Due
<1>2. Busy' \subseteq Busy
  BY DEF Busy
<1>3. \A f \in Events \ {e} : Residual(f)' = Residual(f)
  BY DEF Residual
<1>4. \A f \in Events : Residual(f)' <= Hold
  BY <1>3 DEF WaitInv
<1>5. e \in Events /\ Residual(e) \in Int /\ Residual(e)' \in Int /\ Hold \in Int
  BY Bounds, TimingAssumption DEF Busy, Residual, TypeOK
<1>6. \A y \in 1..Hold : Young(y)' \subseteq Young(y)
  <2>. SUFFICES ASSUME NEW y \in 1..Hold, NEW f \in Young(y)' PROVE f \in Young(y)
    OBVIOUS
  <2>1. f \in Events /\ f \in Busy
    BY <1>2 DEF Young, Busy
  <2>2. task'[f] = "queued" \/ Residual(f)' > Hold - y
    BY DEF Young, Hold
  <2>3. CASE f = e
    BY <1>5, <2>1, <2>2, <2>3 DEF Young
  <2>4. CASE f # e
    BY <1>3, <2>1, <2>2, <2>4 DEF Young
  <2>. QED  BY <2>3, <2>4
<1>7. ~ Claim
  BY Bounds DEF Claim, WaitInv, Busy
<1>. QED  BY <1>1, <1>2, <1>4, <1>6, <1>7, QuietStep

\* A coroutine that gets its permit in a turn is not done before it ends, but
\* no later than the next.
LEMMA SendKeepsWait ==
    ASSUME TypeOK, TypeOK', Owned, WaitInv, NEW e \in Events, SendPost(e) PROVE WaitInv'
<1>. USE DEF SendPost, rows, TypeOK
<1>1. e \in Busy /\ [Next]_vars
  BY DEF Busy, Next
<1>2. task'[e] = "posting" /\ left'[e] = PostLimit
  OBVIOUS
<1>3. Residual(e)' <= Hold
  BY <1>2, TimingAssumption DEF Residual, Hold
<1>4. \A f \in Events \ {e} : task'[f] = task[f] /\ left'[f] = left[f]
  OBVIOUS
<1>. QED  BY <1>1, <1>2, <1>3, <1>4, CoroutineKeepsWait

\* An answer leaves the coroutine its notification, or nothing to wait for.
LEMMA AnswerKeepsWait ==
    ASSUME TypeOK, TypeOK', Owned, WaitInv, [Next]_vars, NEW e \in Events, task[e] = "posting",
           AfterPost(e), UNCHANGED <<loop, sleep, overdue, status, wait>>
    PROVE  WaitInv'
<1>. USE DEF AfterPost, TypeOK
<1>1. e \in Busy
  BY DEF Busy
<1>2. /\ task'[e] = (IF e \in AlertEvents THEN "notifying" ELSE "settling")
      /\ left'[e] = (IF e \in AlertEvents THEN NotifyLimit ELSE 0)
  OBVIOUS
<1>3. Residual(e)' = (IF e \in AlertEvents THEN NotifyLimit ELSE 0)
  BY <1>2 DEF Residual
<1>4. Residual(e) = left[e] + (IF e \in AlertEvents THEN NotifyLimit ELSE 0) /\ left[e] \in Nat
  BY DEF Residual
<1>5. Residual(e)' <= Residual(e) /\ Residual(e)' <= Hold
  <2>1. e \in AlertEvents => AlertEvents # {}
    OBVIOUS
  <2>. QED  BY <1>3, <1>4, <2>1, TimingAssumption DEF Hold
<1>6. \A f \in Events \ {e} : task'[f] = task[f] /\ left'[f] = left[f]
  OBVIOUS
<1>. QED  BY <1>1, <1>2, <1>5, <1>6, CoroutineKeepsWait

\* After its notification a coroutine has nothing to wait for.
LEMMA NotifyKeepsWait ==
    ASSUME TypeOK, TypeOK', Owned, WaitInv, NEW e \in Events, NotifyReturns(e) PROVE WaitInv'
<1>. USE DEF NotifyReturns, rows, history, TypeOK
<1>1. e \in Busy /\ [Next]_vars
  BY DEF Busy, Next
<1>2. task'[e] = "settling" /\ Residual(e)' = 0
  BY DEF Residual
<1>3. Residual(e) \in Nat /\ Hold \in Nat
  BY Bounds DEF Residual
<1>4. \A f \in Events \ {e} : task'[f] = task[f] /\ left'[f] = left[f]
  OBVIOUS
<1>. QED  BY <1>1, <1>2, <1>3, <1>4, CoroutineKeepsWait

\* A settlement gives the permit back, whether it commits or raises, and a retry
\* is due later.
LEMMA SettleKeepsWait ==
    ASSUME TypeOK, TypeOK', Owned, WaitInv, NEW e \in Events, Settle(e) \/ SettleFails(e)
    PROVE  WaitInv'
<1>1. /\ UNCHANGED <<loop, sleep, overdue, left>> /\ task[e] = "settling"
      /\ task' = [task EXCEPT ![e] = "idle"]
  BY DEF Settle, SettleFails, CoroutineEnds
<1>2. e \notin Due
  BY <1>1 DEF Owned, Due
<1>3. \A f \in Events \ {e} : status'[f] = status[f] /\ wait'[f] = wait[f]
  BY DEF Settle, SettleFails, rows, ScheduleRetry, Conclude, TypeOK
<1>4. Due \subseteq Due'
  BY <1>2, <1>3 DEF Due
<1>5. Busy' \subseteq Busy /\ \A f \in Events : task'[f] = task[f] \/ task'[f] = "idle"
  BY <1>1 DEF Busy, TypeOK
<1>6. \A f \in Events : Residual(f)' = Residual(f) \/ (task'[f] = "idle" /\ Residual(f)' = 0)
  BY <1>1, <1>5 DEF Residual
<1>7. \A f \in Events : Residual(f)' <= Hold
  BY <1>6, Bounds DEF WaitInv
<1>8. \A y \in 1..Hold : Young(y)' \subseteq Young(y)
  BY <1>1, <1>5, <1>6 DEF Young, Hold, Busy
<1>9. [Next]_vars /\ ~ Claim
  <2>1. ~ Claim
    BY <1>1 DEF Claim, WaitInv, Busy
  <2>. QED  BY <2>1 DEF Next
<1>. QED  BY <1>1, <1>4, <1>5, <1>7, <1>8, <1>9, QuietStep

\* A batch starts with the first turn, and whom it passes over is allowed one
\* batch more.
LEMMA ClaimKeepsWait == ASSUME TypeOK, TypeOK', WaitInv, LateInv, Claim PROVE WaitInv'
<1>. DEFINE batch == FirstById(Selectable)
<1>. USE DEF WaitInv
<1>1. batch \in SUBSET Selectable /\ Selectable = Due \ late /\ Due \in SUBSET Events /\ batch \in SUBSET Events
  BY DEF FirstById, Selectable, Due
<1>2. /\ loop' = "gathering" /\ UNCHANGED <<retryCount, wait, sleep, left, failures>>
      /\ \A e \in batch : status'[e] = "PROCESSING" /\ task'[e] = "queued" /\ overdue'[e] = 0
      /\ \A e \in Events \ batch : status'[e] = status[e] /\ task'[e] = task[e] /\ overdue'[e] = overdue[e]
  BY <1>1 DEF Claim
<1>. HIDE DEF batch
<1>3. Busy = {} /\ \A e \in Events : task[e] = "idle"
  BY DEF Claim, Busy
<1>4. WaitsWhenDue'
  BY <1>2 DEF WaitsWhenDue, Due
<1>5. \A e \in Events : Residual(e)' = 0
  BY <1>2, <1>3 DEF Residual
<1>6. \A e \in Events : Residual(e)' <= Hold'
  BY <1>5, Bounds DEF Hold
<1>7. InTurn(0, Hold)'
  <2>1. Young(Hold)' \subseteq batch
    BY <1>2, <1>3 DEF Young, Busy
  <2>2. Cardinality(batch) <= BatchLimit /\ IsFiniteSet(batch) /\ Cardinality(batch) \in Nat
    BY <1>1, BatchIsLimited, EventsFinite DEF batch, Selectable
  <2>3. Cardinality(Young(Hold)') <= Cardinality(batch) /\ IsFiniteSet(Young(Hold)')
    BY <2>1, <2>2, FS_Subset
  <2>4. Cardinality(Young(Hold)') \in Nat
    BY <2>3, FS_CardinalityType
  <2>5. Cardinality(Young(Hold)') <= Most(0, BatchLimit - MaxConcurrent * 0)
    BY <2>2, <2>3, <2>4, TimingAssumption DEF Most
  <2>6. ASSUME NEW e \in Events
        PROVE  Allowed(e)' \in Int /\ overdue'[e] + Cycle <= Allowed(e)'
    <3>1. /\ Allowed(e) \in Nat /\ Allowed(e) >= Cycle /\ Cycle \in Nat /\ overdue[e] \in Nat
          /\ overdue[e] <= Allowed(e) /\ BatchesLeft(e) \in Nat
      BY AllowedIsNat, Bounds, ClaimsAreFinite DEF Claim, TypeOK
    <3>2. [Next]_vars /\ Setbacks \in Nat /\ Setbacks' \in Nat /\ Setbacks + 0 <= Setbacks'
      BY SetbacksGrow DEF Next
    <3>3. \A f \in Events : Used(f) <= Used(f)'
      BY <1>1, <1>2, TimingAssumption DEF Used, TypeOK, Due
    <3>4. BatchesLeft(e)' \in Nat /\ BatchesLeft(e)' <= BatchesLeft(e)
      BY <3>3, ClaimsShrink
    <3>5. Allowed(e)' \in Int /\ Allowed(e) <= Allowed(e)'
      <4>1. BatchesLeft(e)' + 0 <= BatchesLeft(e)
        BY <3>1, <3>4
      <4>2. Allowed(e)' \in Int /\ Allowed(e) + 0 * Cycle + 0 <= Allowed(e)'
        BY <3>2, <3>4, <4>1, AllowedGrows
      <4>3. 0 * Cycle = 0
        BY <3>1
      <4>. QED  BY <3>1, <4>2, <4>3
    <3>6. CASE e \in Selectable /\ e \notin batch
      <4>1. BatchesLeft(e)' + 1 <= BatchesLeft(e)
        BY <3>6, BatchMakesClaims DEF batch
      <4>2. Allowed(e) + 1 * Cycle + 0 <= Allowed(e)'
        BY <3>2, <3>4, <4>1, AllowedGrows
      <4>3. overdue'[e] = overdue[e]
        BY <1>2, <3>6
      <4>4. 1 * Cycle = Cycle
        BY <3>1
      <4>. QED  BY <3>1, <3>5, <4>2, <4>3, <4>4
    <3>7. CASE e \notin Due \/ e \in batch
      <4>1. overdue'[e] = 0
        BY <1>2, <3>1, <3>7 DEF WaitsWhenDue
      <4>. QED  BY <3>1, <3>5, <4>1
    <3>8. CASE e \in late
      <4>1. e \notin batch /\ overdue'[e] = overdue[e]
        BY <1>1, <1>2, <3>8
      <4>2. overdue[e] + Cycle <= Allowed(e)'
        <5>1. patience' = BusyTimeout /\ stalls' = stalls
          BY DEF Claim, CallReturns
        <5>. QED  BY <3>2, <3>4, <3>8, <5>1, LateIsAllowed
      <4>. QED  BY <3>5, <4>1, <4>2
    <3>. QED  BY <1>1, <3>6, <3>7, <3>8
  <2>7. \A e \in Events : overdue'[e] + Cycle <= Allowed(e)' + (0 - 1) * Hold + Hold
    <3>1. Hold \in Nat
      BY Bounds
    <3>. HIDE DEF Hold
    <3>2. (0 - 1) * Hold = - Hold
      BY <3>1
    <3>. QED  BY <2>6, <3>1, <3>2
  <2>. QED  BY <2>5, <2>7 DEF InTurn, Hold, Cycle, Most
<1>8. \E j \in 0..Turns, y \in 1..Hold : InTurn(j, y)'
  BY <1>7, Bounds
<1>. QED  BY <1>2, <1>4, <1>6, <1>8 DEF Turns, Hold

\* A poll that finds nothing pauses while nobody waits; a poll that fails makes
\* whoever waits wait for one more pause.
LEMMA PauseKeepsWait ==
    ASSUME TypeOK, TypeOK', Owned, WaitInv, LateInv, PollFindsNothing \/ PollFails PROVE WaitInv'
<1>. USE DEF WaitInv
<1>1. /\ loop = "polling" /\ loop' = "sleeping" /\ sleep' = PollInterval
      /\ UNCHANGED <<status, retryCount, wait, task, left, overdue>>
  BY DEF PollFindsNothing, PollFails, Sleep, rows, tasks, history
<1>2. [Next]_vars /\ ~ Claim
  BY <1>1 DEF Next, Claim
<1>3. WaitsWhenDue' /\ Busy' = {} /\ \A e \in Events : Residual(e)' <= Hold'
  BY <1>1 DEF WaitsWhenDue, Due, Busy, Residual, Hold
<1>4. ASSUME NEW e \in Events PROVE overdue'[e] + sleep' <= Allowed(e)'
  <2>1. /\ overdue[e] \in Nat /\ overdue'[e] = overdue[e] /\ PollInterval \in Nat
        /\ Allowed(e) \in Nat /\ Allowed(e) >= PollInterval /\ failures \in Nat
    BY <1>1, AllowedIsNat, TimingAssumption DEF TypeOK
  <2>2. CASE PollFindsNothing
    <3>1. Allowed(e)' \in Int /\ Allowed(e) <= Allowed(e)'
      BY <1>2, Unfailing
    <3>2. CASE e \notin late
      <4>1. overdue[e] = 0
        BY <2>1, <2>2, <3>2 DEF PollFindsNothing, Selectable, WaitsWhenDue
      <4>. QED  BY <1>1, <2>1, <3>1, <4>1
    <3>3. CASE e \in late
      <4>1. patience' = BusyTimeout /\ stalls' = stalls
        BY <2>2 DEF PollFindsNothing, Sleep, CallReturns
      <4>2. BatchesLeft(e)' \in Nat /\ BatchesLeft(e)' <= BatchesLeft(e)
        BY <1>2, ClaimsShrink, ClaimsOfOthers
      <4>3. overdue[e] + PollInterval <= Allowed(e)'
        BY <1>2, <3>3, <4>1, <4>2, LateIsAllowed
      <4>. QED  BY <1>1, <4>3
    <3>. QED  BY <3>2, <3>3
  <2>3. CASE PollFails
    <3>1. Setbacks + PollInterval <= Setbacks'
      BY <1>2, <2>3, SetbacksGrow
    <3>2. Allowed(e)' \in Int /\ Allowed(e) + PollInterval <= Allowed(e)'
      BY <1>2, <2>1, <3>1, AllowedStays
    <3>. QED  BY <1>1, <2>1, <3>2
  <2>. QED  BY <2>2, <2>3
<1>. QED  BY <1>1, <1>3, <1>4

\* A pause is over when its timer is.
LEMMA WakeUpKeepsWait == ASSUME TypeOK, TypeOK', Owned, WaitInv, WakeUp PROVE WaitInv'
<1>. USE DEF WaitInv
<1>1. /\ loop = "sleeping" /\ sleep = 0 /\ loop' = "polling"
      /\ UNCHANGED <<status, retryCount, wait, task, left, overdue, failures>>
  BY DEF WakeUp, rows, tasks, history
<1>2. [Next]_vars /\ ~ Claim
  BY <1>1 DEF Next, Claim
<1>3. WaitsWhenDue' /\ Busy' = {} /\ \A e \in Events : Residual(e)' <= Hold'
  BY <1>1 DEF WaitsWhenDue, Due, Busy, Residual, Hold
<1>4. \A e \in Events : overdue'[e] <= Allowed(e)'
  <2>. SUFFICES ASSUME NEW e \in Events PROVE overdue'[e] <= Allowed(e)'
    OBVIOUS
  <2>1. overdue[e] \in Nat /\ Allowed(e) \in Nat /\ overdue[e] + sleep <= Allowed(e)
    BY <1>1, AllowedIsNat DEF TypeOK
  <2>2. Allowed(e)' \in Int /\ Allowed(e) <= Allowed(e)'
    BY <1>1, <1>2, Unfailing
  <2>. QED  BY <1>1, <2>1, <2>2
<1>. QED  BY <1>1, <1>3, <1>4

\* A batch is over after its last turn.
LEMMA GatherKeepsWait == ASSUME TypeOK, TypeOK', Owned, WaitInv, GatherReturns PROVE WaitInv'
<1>. USE DEF WaitInv
<1>1. /\ loop = "gathering" /\ loop' = "polling" /\ \A e \in Events : task[e] = "idle"
      /\ UNCHANGED <<status, retryCount, wait, task, left, overdue, failures>>
  BY DEF GatherReturns, rows, tasks, history
<1>2. [Next]_vars /\ ~ Claim
  BY <1>1 DEF Next, Claim
<1>3. WaitsWhenDue' /\ Busy' = {} /\ \A e \in Events : Residual(e)' <= Hold'
  BY <1>1 DEF WaitsWhenDue, Due, Busy, Residual, Hold
<1>4. PICK j \in 0..Turns, y \in 1..Hold : InTurn(j, y)
  BY <1>1
<1>5. \A e \in Events : overdue'[e] <= Allowed(e)'
  <2>. SUFFICES ASSUME NEW e \in Events PROVE overdue'[e] <= Allowed(e)'
    OBVIOUS
  <2>1. overdue[e] \in Nat /\ Allowed(e) \in Nat /\ Cycle \in Nat
    BY AllowedIsNat, Bounds DEF TypeOK
  <2>2. overdue[e] + Cycle <= Allowed(e) + (j - 1) * Hold + y
    BY <1>4 DEF InTurn
  <2>3. (j - 1) * Hold + y <= Cycle /\ (j - 1) * Hold \in Int /\ y \in Int
    BY Bounds, SecondsOfTurn
  <2>. HIDE DEF Hold, Cycle
  <2>4. overdue[e] <= Allowed(e)
    BY <2>1, <2>2, <2>3
  <2>5. Allowed(e)' \in Int /\ Allowed(e) <= Allowed(e)'
    BY <1>1, <1>2, Unfailing
  <2>. QED  BY <1>1, <2>1, <2>4, <2>5
<1>. QED  BY <1>1, <1>3, <1>5

\* A second passes.  While the loop sleeps, the pause that is left shrinks as the
\* wait grows; while a batch is in flight its turn goes on, and after Hold seconds
\* whoever had a permit when the turn began is done.
LEMMA TickKeepsWait == ASSUME TypeOK, TypeOK', Owned, WaitInv, Tick PROVE WaitInv'
<1>. USE DEF WaitInv
<1>1. /\ ~ Urgent /\ UNCHANGED <<status, retryCount, loop, task>>
      /\ sleep' = Most(sleep - 1, 0)
      /\ \A e \in Events : /\ left'[e] = (IF left[e] = 0 THEN 0 ELSE left[e] - 1)
                           /\ wait'[e] = (IF wait[e] = 0 THEN 0 ELSE wait[e] - 1)
                           /\ overdue'[e] = (IF e \in Due THEN overdue[e] + 1 ELSE overdue[e])
  BY CountDownTyped DEF Tick, SecondPasses, TypeOK
<1>2. [Next]_vars /\ ~ Claim
  BY <1>1 DEF Next, Claim
<1>3. \A e \in Events : /\ Allowed(e) \in Nat /\ Allowed(e)' \in Int /\ Allowed(e) <= Allowed(e)'
                        /\ overdue[e] \in Nat /\ overdue'[e] \in Nat /\ overdue'[e] <= overdue[e] + 1
  BY <1>1, <1>2, Unfailing, AllowedIsNat DEF TypeOK
<1>4. WaitsWhenDue'
  BY <1>1 DEF WaitsWhenDue, Due, TypeOK
<1>5. /\ loop # "polling" /\ Busy' = Busy
      /\ loop = "sleeping" => sleep # 0
      /\ loop = "gathering" => Busy # {}
      /\ \A e \in Events : task[e] # "settling"
      /\ \A e \in Events : task[e] \in {"posting", "notifying"} => left[e] # 0
      /\ \A e \in Events : task[e] = "queued" => ~ (Cardinality(HoldsPermit) < MaxConcurrent)
  BY <1>1 DEF Urgent, CallsDatabase, Busy
<1>6. ASSUME NEW e \in Events
      PROVE  /\ Residual(e) \in Nat /\ Residual(e)' \in Nat
             /\ e \in HoldsPermit => Residual(e)' = Residual(e) - 1
             /\ e \notin HoldsPermit => Residual(e)' = 0
  <2>1. task[e] \in {"idle", "queued", "posting", "notifying"} /\ task'[e] = task[e] /\ left[e] \in Nat
    BY <1>1, <1>5 DEF TypeOK
  <2>2. task[e] \in {"posting", "notifying"} => left'[e] = left[e] - 1 /\ left[e] - 1 \in Nat
    BY <1>1, <1>5, <2>1
  <2>3. CASE task[e] = "posting"
    BY <2>1, <2>2, <2>3, TimingAssumption DEF Residual, HoldsPermit
  <2>4. CASE task[e] = "notifying"
    BY <2>1, <2>2, <2>4 DEF Residual, HoldsPermit
  <2>5. CASE task[e] \in {"idle", "queued"}
    BY <2>1, <2>5 DEF Residual, HoldsPermit
  <2>. QED  BY <2>1, <2>3, <2>4, <2>5
<1>7. \A e \in Events : Residual(e)' <= Hold'
  <2>1. Hold' = Hold /\ Hold \in Nat
    BY Bounds DEF Hold
  <2>. QED  BY <1>6, <2>1
<1>8. loop' = "sleeping" => \A e \in Events : overdue'[e] + sleep' <= Allowed(e)'
  <2>1. loop = "sleeping" => sleep' = sleep - 1 /\ sleep \in Nat
    BY <1>1, <1>5, TimingAssumption DEF Most, TypeOK
  <2>. QED  BY <1>1, <1>3, <2>1
<1>9. ASSUME loop = "gathering" PROVE \E k \in 0..Turns, z \in 1..Hold : InTurn(k, z)'
  <2>1. PICK j \in 0..Turns, y \in 1..Hold : InTurn(j, y)
    BY <1>9
  <2>2. j \in Nat /\ y \in Nat /\ y <= Hold /\ Hold \in Nat \ {0} /\ Turns \in Nat /\ Cycle \in Nat
    BY Bounds
  <2>3. /\ \A e \in Events : overdue[e] + Cycle <= Allowed(e) + (j - 1) * Hold + y
        /\ Cardinality(Young(y)) <= Most(0, BatchLimit - MaxConcurrent * j)
    BY <2>1 DEF InTurn
  <2>4. \A e \in Events : overdue'[e] + Cycle <= Allowed(e)' + (j - 1) * Hold + y + 1
    <3>1. (j - 1) * Hold \in Int
      BY <2>2
    <3>. HIDE DEF Hold, Cycle
    <3>. QED  BY <1>3, <2>2, <2>3, <3>1
  <2>5. CASE y < Hold
    <3>1. y + 1 \in 1..Hold /\ j # 0
      BY <2>1, <2>2, <2>5 DEF InTurn
    <3>2. Young(y + 1)' \subseteq Young(y)
      <4>. SUFFICES ASSUME NEW e \in Young(y + 1)', task[e] # "queued" PROVE e \in Young(y)
        BY <1>1, <1>5 DEF Young, Busy
      <4>1. e \in HoldsPermit /\ e \in Busy /\ Residual(e)' > Hold - (y + 1)
        BY <1>1, <1>5 DEF Young, HoldsPermit, Busy, Hold
      <4>2. e \in Events
        BY <4>1 DEF Busy
      <4>3. Residual(e) > Hold - y
        BY <1>6, <2>2, <4>1, <4>2
      <4>. QED  BY <4>1, <4>3 DEF Young
    <3>3. Cardinality(Young(y + 1)') \in Nat /\ Cardinality(Young(y + 1)') <= Cardinality(Young(y))
      BY <3>2, FewerYoung
    <3>4. Cardinality(Young(y)) \in Nat /\ Most(0, BatchLimit - MaxConcurrent * j) \in Int
      <4>1. BatchLimit - MaxConcurrent * j \in Int
        BY <2>2, TimingAssumption
      <4>. QED  BY <4>1, CoroutinesFinite DEF Most
    <3>5. Cardinality(Young(y + 1)') <= Most(0, BatchLimit - MaxConcurrent * j)
      BY <2>3, <3>3, <3>4
    <3>6. \A e \in Events : overdue'[e] + Cycle <= Allowed(e)' + (j - 1) * Hold + (y + 1)
      <4>1. (j - 1) * Hold \in Int
        BY <2>2
      <4>. HIDE DEF Hold, Cycle
      <4>. QED  BY <1>3, <2>2, <2>4, <4>1
    <3>7. InTurn(j, y + 1)'
      BY <3>1, <3>5, <3>6 DEF InTurn, Hold, Cycle, Most
    <3>. QED  BY <3>1, <3>7
  <2>6. CASE y = Hold
    <3>. DEFINE queued == {e \in Events : task[e] = "queued"}
                room == BatchLimit - MaxConcurrent * j
    <3>1. Busy \subseteq Young(Hold)
      <4>. SUFFICES ASSUME NEW e \in Busy, task[e] # "queued" PROVE Residual(e) > 0
        BY <2>2 DEF Young
      <4>1. e \in Events /\ e \in HoldsPermit
        BY DEF Busy, HoldsPermit
      <4>. QED  BY <1>6, <4>1
    <3>2. /\ IsFiniteSet(Busy) /\ Cardinality(Busy) \in Nat /\ Cardinality(HoldsPermit) \in Nat
          /\ IsFiniteSet(HoldsPermit) /\ IsFiniteSet(Young(Hold)) /\ Cardinality(Young(Hold)) \in Nat
      BY CoroutinesFinite
    <3>3. Cardinality(Busy) <= Cardinality(Young(Hold))
      BY <3>1, <3>2, FS_Subset
    <3>4. Cardinality(Busy) # 0
      BY <1>5, <1>9, <3>2, FS_EmptySet
    <3>5. room \in Int
      BY <2>2, TimingAssumption
    <3>. HIDE DEF room
    <3>6. room > 0 /\ Cardinality(Busy) <= room
      <4>1. Cardinality(Busy) <= Most(0, room)
        <5>1. Most(0, room) \in Int
          BY <3>5 DEF Most
        <5>. QED  BY <2>3, <2>6, <3>2, <3>3, <5>1 DEF room
      <4>. QED  BY <3>2, <3>4, <3>5, <4>1 DEF Most
    <3>7. j < Turns /\ j + 1 \in 0..Turns /\ 1 \in 1..Hold
      <4>1. j < Turns
        BY <2>2, <3>6, Bounds DEF room
      <4>. QED  BY <2>2, <4>1
    <3>8. Young(1)' \subseteq queued
      <4>. SUFFICES ASSUME NEW e \in Young(1)', task[e] # "queued" PROVE FALSE
        BY DEF Young, Busy
      <4>1. e \in Events /\ e \in HoldsPermit /\ Residual(e)' > Hold - 1
        BY <1>1, <1>5 DEF Young, HoldsPermit, Busy, Hold
      <4>2. Residual(e) <= Hold
        BY <4>1
      <4>. QED  BY <1>6, <2>2, <4>1, <4>2
    <3>9. IsFiniteSet(queued) /\ Cardinality(queued) \in Nat
      BY EventsFinite
    <3>10. Cardinality(Young(1)') \in Nat /\ Cardinality(Young(1)') <= Cardinality(queued)
      <4>1. IsFiniteSet(Young(1)') /\ Cardinality(Young(1)') <= Cardinality(queued)
        BY <3>8, <3>9, FS_Subset
      <4>. QED  BY <4>1, FS_CardinalityType
    <3>11. Cardinality(queued) <= Most(0, room - MaxConcurrent)
      <4>1. CASE queued = {}
        BY <3>5, <4>1, FS_EmptySet, TimingAssumption DEF Most
      <4>2. CASE queued # {}
        <5>1. ~ (Cardinality(HoldsPermit) < MaxConcurrent)
          BY <1>5, <4>2
        <5>2. HoldsPermit \union queued = Busy /\ HoldsPermit \intersect queued = {}
          BY DEF HoldsPermit, Busy
        <5>3. Cardinality(HoldsPermit \union queued)
                = Cardinality(HoldsPermit) + Cardinality(queued) - Cardinality(HoldsPermit \intersect queued)
          BY <3>2, <3>9, FS_Union
        <5>4. Cardinality(Busy) = Cardinality(HoldsPermit) + Cardinality(queued)
          <6>1. Cardinality(HoldsPermit \intersect queued) = 0
            BY <5>2, FS_EmptySet
          <6>2. Cardinality(HoldsPermit \union queued) = Cardinality(Busy)
            BY <5>2
          <6>. HIDE DEF queued
          <6>. QED  BY <3>2, <3>9, <5>3, <6>1, <6>2
        <5>. QED  BY <3>2, <3>5, <3>6, <3>9, <5>1, <5>4, TimingAssumption DEF Most
      <4>. QED  BY <4>1, <4>2
    <3>12. MaxConcurrent * (j + 1) = MaxConcurrent * j + MaxConcurrent /\ MaxConcurrent * j \in Int
      BY <2>2, TimingAssumption
    <3>13. Cardinality(Young(1)') <= Most(0, BatchLimit - MaxConcurrent * (j + 1))
      <4>1. room - MaxConcurrent = BatchLimit - MaxConcurrent * (j + 1)
        BY <3>12, TimingAssumption DEF room
      <4>2. Most(0, room - MaxConcurrent) \in Int
        BY <3>5, TimingAssumption DEF Most
      <4>. QED  BY <3>9, <3>10, <3>11, <4>1, <4>2
    <3>14. \A e \in Events : overdue'[e] + Cycle <= Allowed(e)' + ((j + 1) - 1) * Hold + 1
      <4>1. (j - 1) * Hold \in Int /\ j * Hold \in Int /\ j * Hold = (j - 1) * Hold + Hold /\ (j + 1) - 1 = j
        BY <2>2
      <4>. HIDE DEF Hold, Cycle
      <4>. QED  BY <1>3, <2>2, <2>4, <2>6, <4>1
    <3>15. InTurn(j + 1, 1)'
      BY <2>2, <3>13, <3>14 DEF InTurn, Hold, Cycle, Most
    <3>. QED  BY <3>7, <3>15
  <2>. QED  BY <2>2, <2>5, <2>6
<1>10. loop' # "gathering" => Busy' = {}
  BY <1>1, <1>5
<1>. QED  BY <1>1, <1>4, <1>5, <1>7, <1>8, <1>9, <1>10 DEF Turns, Hold

\* A second in which a call waits for the lock costs everyone that second, and
\* leaves the turn of the batch where it was.
LEMMA LockTickKeepsWait == ASSUME TypeOK, TypeOK', Owned, WaitInv, LockTick PROVE WaitInv'
<1>. USE DEF WaitInv
<1>1. /\ UNCHANGED <<status, retryCount, loop, sleep, task, left>>
      /\ \A e \in Events : /\ wait'[e] = (IF wait[e] = 0 THEN 0 ELSE wait[e] - 1)
                           /\ overdue'[e] = (IF e \in Due THEN overdue[e] + 1 ELSE overdue[e])
  BY CountDownTyped DEF LockTick, SecondPasses, TypeOK, tasks
<1>2. [Next]_vars /\ ~ Claim
  BY <1>1 DEF Next, Claim
<1>3. \A e \in Events : /\ Allowed(e) \in Nat /\ Allowed(e)' \in Int /\ Allowed(e) + 1 <= Allowed(e)'
                        /\ overdue[e] \in Nat /\ overdue'[e] \in Nat /\ overdue'[e] <= overdue[e] + 1
  <2>1. Setbacks + 1 <= Setbacks'
    BY <1>2, SetbacksGrow
  <2>2. \A e \in Events : Allowed(e)' \in Int /\ Allowed(e) + 1 <= Allowed(e)'
    BY <1>2, <2>1, AllowedStays
  <2>. QED  BY <1>1, <2>2, AllowedIsNat DEF TypeOK
<1>4. WaitsWhenDue'
  BY <1>1 DEF WaitsWhenDue, Due, TypeOK
<1>5. Busy' = Busy /\ \A e \in Events : Residual(e)' = Residual(e)
  BY <1>1 DEF Busy, Residual
<1>6. \A y : Young(y)' = Young(y)
  BY <1>1 DEF Young, Busy, Residual, Hold
<1>7. loop \in {"polling", "gathering"}
  BY DEF LockTick, CallsDatabase, Busy, TypeOK
<1>8. loop = "polling" => \A e \in Events : overdue'[e] <= Allowed(e)'
  BY <1>3
<1>9. ASSUME loop = "gathering" PROVE \E j \in 0..Turns, y \in 1..Hold : InTurn(j, y)'
  <2>1. PICK j \in 0..Turns, y \in 1..Hold : InTurn(j, y)
    BY <1>9
  <2>2. \A e \in Events : overdue'[e] + Cycle <= Allowed(e)' + (j - 1) * Hold + y
    <3>1. (j - 1) * Hold \in Int /\ y \in Int /\ Cycle \in Int
      BY Bounds, SecondsOfTurn
    <3>2. \A e \in Events : overdue[e] + Cycle <= Allowed(e) + (j - 1) * Hold + y
      BY <2>1 DEF InTurn
    <3>. HIDE DEF Hold, Cycle
    <3>. QED  BY <1>3, <3>1, <3>2
  <2>3. InTurn(j, y)'
    BY <1>6, <2>1, <2>2 DEF InTurn, Hold, Cycle, Most
  <2>. QED  BY <2>3
<1>. QED  BY <1>1, <1>4, <1>5, <1>7, <1>8, <1>9 DEF Turns, Hold

-----------------------------------------------------------------------------
(* The theorems.                                                           *)

\* The table is empty and no timer runs.
LEMMA InitTiming == Init => TypeOK /\ Owned /\ PauseInv /\ FreshInv /\ WaitInv /\ LateInv
<1>. SUFFICES ASSUME Init PROVE TypeOK /\ Owned /\ PauseInv /\ FreshInv /\ WaitInv /\ LateInv
  OBVIOUS
<1>. USE DEF Init
<1>1. TypeOK
  BY TimingAssumption DEF TypeOK, Blocked
<1>2. Owned /\ PauseInv /\ FreshInv /\ LateInv
  BY DEF Owned, PauseInv, FreshInv, LateInv
<1>3. \A e \in Events : overdue[e] = 0 /\ Residual(e) = 0 /\ task[e] = "idle"
  BY DEF Residual
<1>4. WaitsWhenDue /\ Busy = {}
  BY <1>3 DEF WaitsWhenDue, Busy
<1>5. \A e \in Events : overdue[e] <= Allowed(e) /\ Residual(e) <= Hold
  BY <1>1, <1>3, AllowedIsNat, Bounds
<1>. QED  BY <1>1, <1>2, <1>4, <1>5 DEF WaitInv

\* The invariant of the waits is inductive.
LEMMA NextWaitInv == ASSUME TypeOK, TypeOK', Owned, WaitInv, LateInv, [Next]_vars PROVE WaitInv'
<1>1. ASSUME NEW e \in Events, PostIsFinal(e) \/ PostIsTransient(e) PROVE WaitInv'
  BY <1>1, AnswerKeepsWait DEF PostIsFinal, PostIsTransient, rows, history
<1>2. ASSUME NEW e \in Events, NEW seconds \in RetryAfters, PostIsThrottled(e, seconds) PROVE WaitInv'
  BY <1>2, AnswerKeepsWait DEF PostIsThrottled, rows
<1>3. ASSUME UNCHANGED vars PROVE WaitInv'
  <2>1. ~ Claim
    BY <1>3 DEF vars, Claim
  <2>2. UNCHANGED <<loop, sleep, overdue, task, left, status, wait>>
    BY <1>3 DEF vars
  <2>3. Due \subseteq Due' /\ Busy' \subseteq Busy
    BY <2>2 DEF Due, Busy
  <2>4. /\ \A e \in Events : Residual(e)' <= Hold
        /\ \A y \in 1..Hold : Young(y)' \subseteq Young(y)
    BY <2>2 DEF WaitInv, Residual, Young, Busy, Hold
  <2>. QED  BY <2>1, <2>2, <2>3, <2>4, QuietStep
<1>. QED  BY <1>1, <1>2, <1>3, EnqueueKeepsWait, SendKeepsWait, NotifyKeepsWait, SettleKeepsWait,
             ClaimKeepsWait, PauseKeepsWait, WakeUpKeepsWait, GatherKeepsWait, TickKeepsWait, LockTickKeepsWait DEF Next

\* Types, ownership, pauses, ages and waits together are inductive, with every
\* call of the database waiting for the lock as long as it may.
THEOREM TimingInvariant == Spec => [](TypeOK /\ Owned /\ PauseInv /\ FreshInv /\ WaitInv /\ LateInv)
<1>1. Init => TypeOK /\ Owned /\ PauseInv /\ FreshInv /\ WaitInv /\ LateInv
  BY InitTiming
<1>2. TypeOK /\ Owned /\ PauseInv /\ FreshInv /\ WaitInv /\ LateInv /\ [Next]_vars
        => (TypeOK /\ Owned /\ PauseInv /\ FreshInv /\ WaitInv /\ LateInv)'
  BY NextTypeOK, NextOwned, NextPauseInv, NextFreshInv, NextWaitInv, NextLateInv
<1>. QED  BY <1>1, <1>2, PTL DEF Spec

\* The ERP that asked for a pause with a 429 is left alone for that event until the
\* pause is over, whatever it asked for and whatever the backoff would have been.
THEOREM PauseIsKeptHolds == Spec => []PauseIsKept
<1>1. PauseInv => PauseIsKept
  BY DEF PauseInv, PauseIsKept
<1>. QED  BY <1>1, TimingInvariant, PTL

\* However long an event queues for a permit, its signature is no older than the
\* tolerance of the receiver, but for the seconds that the database stopped the
\* event loop.
THEOREM FreshOnArrivalHolds == Spec => []FreshOnArrival
<1>1. TypeOK /\ FreshInv => FreshOnArrival
  BY TimingAssumption DEF TypeOK, FreshInv, FreshOnArrival
<1>. QED  BY <1>1, TimingInvariant, PTL

\* A due event is claimed within the bound, for every backlog, batch size, number of
\* permits, retries, polls that fail and calls that find the database locked.
THEOREM WaitIsBoundedHolds == Spec => []WaitIsBounded
<1>1. ASSUME TypeOK, WaitInv, NEW e \in Events
      PROVE  overdue[e] <= Most(PollInterval, Cycle) + Overtaken(e) * Cycle
                             + failures * PollInterval + stalls * BusyTimeout
  <2>1. overdue[e] <= Allowed(e)
    <3>1. overdue[e] \in Nat /\ sleep \in Nat /\ Allowed(e) \in Nat /\ Cycle \in Nat
      BY <1>1, AllowedIsNat, Bounds, TimingAssumption DEF TypeOK
    <3>2. CASE loop = "polling"
      BY <1>1, <3>2 DEF WaitInv
    <3>3. CASE loop = "sleeping"
      BY <1>1, <3>1, <3>3 DEF WaitInv
    <3>4. CASE loop = "gathering"
      <4>1. PICK j \in 0..Turns, y \in 1..Hold : InTurn(j, y)
        BY <1>1, <3>4 DEF WaitInv
      <4>2. (j - 1) * Hold \in Int /\ y \in Int /\ (j - 1) * Hold + y <= Cycle
        BY Bounds, SecondsOfTurn
      <4>3. overdue[e] + Cycle <= Allowed(e) + (j - 1) * Hold + y
        BY <4>1 DEF InTurn
      <4>. HIDE DEF Hold, Cycle
      <4>. QED  BY <3>1, <4>2, <4>3
    <3>. QED  BY <1>1, <3>2, <3>3, <3>4 DEF TypeOK
  <2>. DEFINE k == Overtaken(e) - BatchesLeft(e)
  <2>2. k \in Nat /\ k <= Overtaken(e) /\ Overtaken(e) \in Nat
    BY Bounds, ClaimsAreFinite
  <2>3. Allowed(e) = Most(PollInterval, Cycle) + k * Cycle + Setbacks
    BY DEF Allowed
  <2>4. /\ Cycle \in Nat /\ Most(PollInterval, Cycle) \in Nat /\ overdue[e] \in Nat
        /\ failures * PollInterval \in Nat
    BY <1>1, Bounds, TimingAssumption DEF TypeOK
  <2>5. /\ Setbacks \in Nat /\ stalls * BusyTimeout \in Nat
        /\ Setbacks <= failures * PollInterval + stalls * BusyTimeout
    BY <1>1, <2>4, WaitedIsNat DEF Setbacks
  <2>. HIDE DEF k
  <2>6. k * Cycle <= Overtaken(e) * Cycle /\ k * Cycle \in Nat /\ Overtaken(e) * Cycle \in Nat
    BY <2>2, <2>4, ProductsGrow
  <2>. QED  BY <2>1, <2>3, <2>4, <2>5, <2>6
<1>2. TypeOK /\ WaitInv => WaitIsBounded
  BY <1>1 DEF WaitIsBounded
<1>. QED  BY <1>2, TimingInvariant, PTL
=============================================================================
