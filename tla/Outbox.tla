------------------------------- MODULE Outbox -------------------------------
(***************************************************************************)
(* The outbox_events table and the processes that read and write it:       *)
(* OutboxDispatcher (dispatcher.py), the dead letter commands of           *)
(* cajaclara-admin (cli_admin.py) and the ERP behind the webhook.          *)
(*                                                                         *)
(* A dispatcher claims a batch in one BEGIN IMMEDIATE transaction, posts   *)
(* the events of the batch concurrently outside any transaction, and       *)
(* settles each of them in a transaction of its own.  Between the claim    *)
(* and the settlement everything else may run: the other dispatchers, the  *)
(* administrator, a signal, a crash.                                       *)
(*                                                                         *)
(* Time is abstracted: next_retry_at is the membership of an event in due  *)
(* (NULL or not later than now).                                           *)
(***************************************************************************)
EXTENDS Integers, FiniteSets

CONSTANTS
    NumEvents,      \* rows that will be enqueued; ids are 1..NumEvents
    Dispatchers,    \* dispatcher processes on the same database
    AlertEvents,    \* events whose event_type starts with "fiscal.alert"
    BatchLimit,     \* limit of process_batch (25)
    MaxConcurrent,  \* permits of the semaphore (5)
    MaxRetries,     \* max_retries (5)
    AdminBatch,     \* batch_size of replay_all_dead_letters (100)
    MaxCount        \* bound: receptions and notifications are counted up to here

Events == 1..NumEvents

ASSUME OutboxAssumption ==
    /\ NumEvents \in Nat
    /\ AlertEvents \subseteq Events
    /\ BatchLimit \in Nat \ {0}
    /\ MaxConcurrent \in Nat \ {0}
    /\ MaxRetries \in Nat
    /\ AdminBatch \in Nat \ {0}
    /\ MaxCount \in Nat \ {0}

VARIABLES
    status,      \* OutboxEvent.status, "ABSENT" before the row exists
    retryCount,  \* OutboxEvent.retry_count
    due,         \* events whose next_retry_at is NULL or not in the future
    proc,        \* each dispatcher process: down, running, or stopping
    pc,          \* pc[d][e]: where the _dispatch_event coroutine of d for e is
    claimed,     \* claimed[d][e]: the retry_count that d read when it claimed e
    outcome,     \* outcome[d][e]: how the POST of d for e ended
    late,        \* events with a request the client gave up on, still travelling
    attempts,    \* history: POSTs of an event since it was enqueued or replayed
    received,    \* history: how often the ERP accepted the event
    alerted      \* history: notifications attempted for the event

rows == <<status, retryCount, due>>
tasks == <<pc, claimed, outcome>>
vars == <<status, retryCount, due, proc, pc, claimed, outcome, late, attempts, received, alerted>>

Statuses == {"ABSENT", "PENDING", "PROCESSING", "DELIVERED", "DEAD_LETTER"}
Outcomes == {"success", "fatal", "transient"}
Steps == {"idle", "queued", "posting", "answered", "notifying", "settling"}

TypeOK ==
    /\ status \in [Events -> Statuses]
    /\ retryCount \in [Events -> 0..MaxRetries]
    /\ due \subseteq Events
    /\ proc \in [Dispatchers -> {"down", "running", "stopping"}]
    /\ pc \in [Dispatchers -> [Events -> Steps]]
    /\ claimed \in [Dispatchers -> [Events -> 0..MaxRetries]]
    /\ outcome \in [Dispatchers -> [Events -> Outcomes \union {"none"}]]
    /\ late \subseteq Events
    /\ attempts \in [Events -> 0..(MaxRetries + 2)]
    /\ received \in [Events -> 0..MaxCount]
    /\ alerted \in [Events -> 0..MaxCount]

Init ==
    /\ status = [e \in Events |-> "ABSENT"]
    /\ retryCount = [e \in Events |-> 0]
    /\ due = {}
    /\ proc = [d \in Dispatchers |-> "down"]
    /\ pc = [d \in Dispatchers |-> [e \in Events |-> "idle"]]
    /\ claimed = [d \in Dispatchers |-> [e \in Events |-> 0]]
    /\ outcome = [d \in Dispatchers |-> [e \in Events |-> "none"]]
    /\ late = {}
    /\ attempts = [e \in Events |-> 0]
    /\ received = [e \in Events |-> 0]
    /\ alerted = [e \in Events |-> 0]

-----------------------------------------------------------------------------
(* Counting with a cap.                                                    *)

Count(n, cap) == IF n < cap THEN n + 1 ELSE cap
Accepted(e) == received' = [received EXCEPT ![e] = Count(@, MaxCount)]

-----------------------------------------------------------------------------
(* The producer.  An ingestion transaction commits a new row: status       *)
(* PENDING, retry_count 0, next_retry_at NULL; ids grow.                   *)

Enqueue(e) ==
    /\ status[e] = "ABSENT"
    /\ \A f \in Events : f < e => status[f] # "ABSENT"
    /\ status' = [status EXCEPT ![e] = "PENDING"]
    /\ due' = due \union {e}
    /\ UNCHANGED <<retryCount, proc, tasks, late, attempts, received, alerted>>

\* The clock reaches next_retry_at.
BackoffElapses(e) ==
    /\ e \notin due
    /\ status[e] # "ABSENT"
    /\ due' = due \union {e}
    /\ UNCHANGED <<status, retryCount, proc, tasks, late, attempts, received, alerted>>

-----------------------------------------------------------------------------
(* The life of a dispatcher process.                                       *)

Busy(d) == {e \in Events : pc[d][e] # "idle"}

Start(d) ==
    /\ proc[d] = "down"
    /\ proc' = [proc EXCEPT ![d] = "running"]
    /\ UNCHANGED <<rows, tasks, late, attempts, received, alerted>>

\* SIGTERM or SIGINT sets the shutdown event; the batch in flight goes on.
Signal(d) ==
    /\ proc[d] = "running"
    /\ proc' = [proc EXCEPT ![d] = "stopping"]
    /\ UNCHANGED <<rows, tasks, late, attempts, received, alerted>>

\* Variant: the shutdown cancels the coroutines in flight.
ExitAtOnce(d) ==
    /\ proc[d] = "stopping"
    /\ proc' = [proc EXCEPT ![d] = "down"]
    /\ pc' = [pc EXCEPT ![d] = [e \in Events |-> "idle"]]
    /\ claimed' = [claimed EXCEPT ![d] = [e \in Events |-> 0]]
    /\ outcome' = [outcome EXCEPT ![d] = [e \in Events |-> "none"]]
    /\ UNCHANGED <<rows, late, attempts, received, alerted>>

\* run_forever sees the shutdown event after process_batch has returned.
Exit(d) ==
    /\ proc[d] = "stopping"
    /\ Busy(d) = {}
    /\ proc' = [proc EXCEPT ![d] = "down"]
    /\ UNCHANGED <<rows, tasks, late, attempts, received, alerted>>

\* The process is killed: its coroutines are gone, its rows stay as they are,
\* and the requests it had sent may still reach the ERP.
Crash(d) ==
    /\ proc[d] # "down"
    /\ proc' = [proc EXCEPT ![d] = "down"]
    /\ pc' = [pc EXCEPT ![d] = [e \in Events |-> "idle"]]
    /\ claimed' = [claimed EXCEPT ![d] = [e \in Events |-> 0]]
    /\ outcome' = [outcome EXCEPT ![d] = [e \in Events |-> "none"]]
    /\ \E S \in SUBSET {e \in Events : pc[d][e] = "posting"} : late' = late \union S
    /\ UNCHANGED <<rows, attempts, received, alerted>>

-----------------------------------------------------------------------------
(* process_batch, phase 1: the claim.                                      *)

\* Variant: the claim does not filter on the status.
DueAtAnyStatus == {e \in due : status[e] # "ABSENT"}

\* Variant: the claim passes over rows whose retries are used up, as if the
\* last one had been made already.
EligibleWithRetriesLeft == {e \in due : status[e] = "PENDING" /\ retryCount[e] < MaxRetries}

Eligible == {e \in due : status[e] = "PENDING"}

\* ORDER BY id ASC LIMIT BatchLimit
FirstById(S) == {e \in S : Cardinality({f \in S : f < e}) < BatchLimit}

\* The loop calls process_batch again only when gather has returned.
Claim(d) ==
    /\ proc[d] = "running"
    /\ Busy(d) = {}
    /\ Eligible # {}
    /\ LET batch == FirstById(Eligible) IN
       /\ status' = [e \in Events |-> IF e \in batch THEN "PROCESSING" ELSE status[e]]
       /\ pc' = [pc EXCEPT ![d] = [e \in Events |-> IF e \in batch THEN "queued" ELSE "idle"]]
       /\ claimed' = [claimed EXCEPT ![d] = [e \in Events |-> IF e \in batch THEN retryCount[e] ELSE 0]]
    /\ UNCHANGED <<retryCount, due, proc, outcome, late, attempts, received, alerted>>

-----------------------------------------------------------------------------
(* process_batch, phase 2: one coroutine per claimed event.                *)

HoldsPermit(d) == {e \in Events : pc[d][e] \notin {"idle", "queued"}}

\* async with self.semaphore, then the POST is sent.
SendPost(d, e) ==
    /\ pc[d][e] = "queued"
    /\ Cardinality(HoldsPermit(d)) < MaxConcurrent
    /\ pc' = [pc EXCEPT ![d][e] = "posting"]
    /\ attempts' = [attempts EXCEPT ![e] = Count(@, MaxRetries + 2)]
    /\ UNCHANGED <<rows, proc, claimed, outcome, late, received, alerted>>

\* The ERP handles the request and its answer is on the way: 2xx after it
\* accepted the event, a 4xx other than 429 when it refused it; with a 5xx or
\* a 429 it may or may not have accepted it.
ErpAnswers(d, e, verdict) ==
    /\ pc[d][e] = "posting"
    /\ pc' = [pc EXCEPT ![d][e] = "answered"]
    /\ outcome' = [outcome EXCEPT ![d][e] = verdict]
    /\ \/ verdict # "fatal" /\ Accepted(e)
       \/ verdict # "success" /\ UNCHANGED received
    /\ UNCHANGED <<rows, proc, claimed, late, attempts, alerted>>

\* A request the client gave up on reaches the ERP after all.
ErpReceivesLate(e) ==
    /\ e \in late
    /\ late' = late \ {e}
    /\ Accepted(e) \/ UNCHANGED received
    /\ UNCHANGED <<rows, proc, tasks, attempts, alerted>>

AfterPost(e) == IF e \in AlertEvents THEN "notifying" ELSE "settling"

\* Variant: alerts are announced only when the POST raises.
PostReturnsUnannounced(d, e) ==
    /\ pc[d][e] = "answered"
    /\ pc' = [pc EXCEPT ![d][e] = "settling"]
    /\ UNCHANGED <<rows, proc, claimed, outcome, late, attempts, received, alerted>>

\* The answer arrives: status_result, is_fatal and is_transient are set.
PostReturns(d, e) ==
    /\ pc[d][e] = "answered"
    /\ pc' = [pc EXCEPT ![d][e] = AfterPost(e)]
    /\ UNCHANGED <<rows, proc, claimed, outcome, late, attempts, received, alerted>>

\* except Exception: a timeout or a transport error, before or after the ERP
\* handled the request.  Bound: at most one abandoned request of an event
\* travels at a time, a further one is lost.
PostRaises(d, e) ==
    /\ pc[d][e] \in {"posting", "answered"}
    /\ pc' = [pc EXCEPT ![d][e] = AfterPost(e)]
    /\ outcome' = [outcome EXCEPT ![d][e] = "transient"]
    /\ \/ UNCHANGED late
       \/ pc[d][e] = "posting" /\ late' = late \union {e}
    /\ UNCHANGED <<rows, proc, claimed, attempts, received, alerted>>

\* Alerts go to Telegram after every attempt, whatever its outcome; a failure
\* of the channel is swallowed.
Notify(d, e) ==
    /\ pc[d][e] = "notifying"
    /\ pc' = [pc EXCEPT ![d][e] = "settling"]
    /\ alerted' = [alerted EXCEPT ![e] = Count(@, MaxCount)]
    /\ UNCHANGED <<rows, proc, claimed, outcome, late, attempts, received>>

-----------------------------------------------------------------------------
(* process_batch, phase 3: the settlement, one transaction per event.  The *)
(* row is read again, but only to be overwritten: neither its status nor   *)
(* its retry_count is compared with what was claimed.                      *)

\* The coroutine returns and its local variables are gone.
Done(d, e) ==
    /\ pc' = [pc EXCEPT ![d][e] = "idle"]
    /\ claimed' = [claimed EXCEPT ![d][e] = 0]
    /\ outcome' = [outcome EXCEPT ![d][e] = "none"]

\* Variant: a timeout counts as a delivery.
SettleUnlessFatal(d, e) ==
    /\ outcome[d][e] # "fatal"
    /\ status' = [status EXCEPT ![e] = "DELIVERED"]
    /\ UNCHANGED <<retryCount, due>>

SettleSuccess(d, e) ==
    /\ outcome[d][e] = "success"
    /\ status' = [status EXCEPT ![e] = "DELIVERED"]
    /\ UNCHANGED <<retryCount, due>>

SettleFatal(d, e) ==
    /\ outcome[d][e] = "fatal"
    /\ status' = [status EXCEPT ![e] = "DEAD_LETTER"]
    /\ UNCHANGED <<retryCount, due>>

\* Variant: a retry is not counted.
ScheduleRetryUncounted(d, e) ==
    /\ outcome[d][e] = "transient"
    /\ status' = [status EXCEPT ![e] = "PENDING"]
    /\ due' = due \ {e}
    /\ UNCHANGED retryCount

\* The delay is at least base_delay, so the event is not due at once.
ScheduleRetry(d, e) ==
    /\ outcome[d][e] = "transient"
    /\ claimed[d][e] + 1 <= MaxRetries
    /\ status' = [status EXCEPT ![e] = "PENDING"]
    /\ retryCount' = [retryCount EXCEPT ![e] = claimed[d][e] + 1]
    /\ due' = due \ {e}

\* Variant: the last retry is not made.
ExhaustRetriesEarly(d, e) ==
    /\ outcome[d][e] = "transient"
    /\ claimed[d][e] + 1 >= MaxRetries
    /\ status' = [status EXCEPT ![e] = "DEAD_LETTER"]
    /\ UNCHANGED <<retryCount, due>>

ExhaustRetries(d, e) ==
    /\ outcome[d][e] = "transient"
    /\ claimed[d][e] + 1 > MaxRetries
    /\ status' = [status EXCEPT ![e] = "DEAD_LETTER"]
    /\ UNCHANGED <<retryCount, due>>

Settle(d, e) ==
    /\ pc[d][e] = "settling"
    /\ \/ SettleSuccess(d, e)
       \/ SettleFatal(d, e)
       \/ ScheduleRetry(d, e)
       \/ ExhaustRetries(d, e)
    /\ Done(d, e)
    /\ UNCHANGED <<proc, late, attempts, received, alerted>>

\* The settlement transaction raises (the database stays locked past the busy
\* timeout, the disk is full): gather keeps the exception and nobody reads it.
SettleRaises(d, e) ==
    /\ pc[d][e] = "settling"
    /\ Done(d, e)
    /\ UNCHANGED <<rows, proc, late, attempts, received, alerted>>

-----------------------------------------------------------------------------
(* The dead letter commands of the administrator.                          *)

\* Variant: delivered events can be replayed.
FinishedEvents == {e \in Events : status[e] \in {"DEAD_LETTER", "DELIVERED"}}

DeadLetters == {e \in Events : status[e] = "DEAD_LETTER"}

\* What replaying does to the rows of S.
Requeue(S) ==
    /\ status' = [e \in Events |-> IF e \in S THEN "PENDING" ELSE status[e]]
    /\ retryCount' = [e \in Events |-> IF e \in S THEN 0 ELSE retryCount[e]]
    /\ due' = due \union S
    /\ attempts' = [e \in Events |-> IF e \in S THEN 0 ELSE attempts[e]]
    /\ UNCHANGED <<proc, tasks, late, received, alerted>>

\* Variant: replay does not look at the status.
ReplayUnchecked(e) ==
    /\ status[e] # "ABSENT"
    /\ Requeue({e})

\* cajaclara-admin replay <id>: refused unless the event is a dead letter.
ReplayOutboxEvent(e) ==
    /\ status[e] = "DEAD_LETTER"
    /\ Requeue({e})

\* One transaction of cajaclara-admin replay-all: up to AdminBatch dead
\* letters in no particular order, of any type or of the type asked for.
ReplayDeadLetters(S, ofType) ==
    /\ S # {}
    /\ S \subseteq DeadLetters \intersect ofType
    /\ Cardinality(S) <= AdminBatch
    /\ Cardinality(S) = AdminBatch \/ S = DeadLetters \intersect ofType
    /\ Requeue(S)

TypeFilters == {Events, AlertEvents, Events \ AlertEvents}

Administer ==
    \/ \E e \in Events : ReplayOutboxEvent(e)
    \/ \E S \in SUBSET Events, ofType \in TypeFilters : ReplayDeadLetters(S, ofType)

-----------------------------------------------------------------------------
(* The system as deployed: recover_stuck_events exists but nothing calls   *)
(* it (OutboxSweeper adds it).                                             *)

Dispatch(d, e) ==
    \/ SendPost(d, e)
    \/ \E verdict \in Outcomes : ErpAnswers(d, e, verdict)
    \/ PostReturns(d, e)
    \/ PostRaises(d, e)
    \/ Notify(d, e)
    \/ Settle(d, e)

Healthy ==
    \/ \E e \in Events : Enqueue(e) \/ BackoffElapses(e) \/ ErpReceivesLate(e)
    \/ \E d \in Dispatchers : Start(d) \/ Signal(d) \/ Exit(d) \/ Claim(d)
    \/ \E d \in Dispatchers, e \in Events : Dispatch(d, e)
    \/ Administer

Faults ==
    \/ \E d \in Dispatchers : Crash(d)
    \/ \E d \in Dispatchers, e \in Events : SettleRaises(d, e)

Next == Healthy \/ Faults

Spec == Init /\ [][Next]_vars

\* asyncio runs every coroutine that can run, an await on the client ends
\* within its timeout, clocks advance, and systemd restarts the service.
Fairness ==
    /\ \A d \in Dispatchers : WF_vars(Start(d)) /\ WF_vars(Exit(d)) /\ WF_vars(Claim(d))
    /\ \A d \in Dispatchers, e \in Events :
          /\ WF_vars(SendPost(d, e))
          /\ WF_vars(PostReturns(d, e) \/ PostRaises(d, e))
          /\ WF_vars(Notify(d, e))
          /\ WF_vars(Settle(d, e))
    /\ \A e \in Events : WF_vars(BackoffElapses(e))

HealthySpec == Init /\ [][Healthy]_vars
FairHealthySpec == HealthySpec /\ Fairness
FairSpec == Spec /\ Fairness

-----------------------------------------------------------------------------
(* Safety.                                                                 *)

Live(d, e) == pc[d][e] # "idle"

\* While a coroutine holds an event (claim at dispatcher.py:70-88, settlement
\* at 175-212) nobody else does and the row stays PROCESSING: two dispatchers
\* or a replay never act on it between the claim and the settlement.
ExclusiveClaim ==
    \A d \in Dispatchers, e \in Events : Live(d, e) =>
        /\ status[e] = "PROCESSING"
        /\ \A other \in Dispatchers : Live(other, e) => other = d

\* The retry_count that dispatcher.py:192 increments was read before the
\* await of the POST; it is still the one in the row when it is used.
ClaimIsCurrent ==
    \A d \in Dispatchers, e \in Events :
        Live(d, e) => claimed[d][e] = retryCount[e]

\* An event is recorded as DELIVERED only if the ERP accepted it: no
\* acknowledgement is invented by a timeout, a crash or a retry.
DeliveredWasReceived ==
    \A e \in Events : status[e] = "DELIVERED" => received[e] > 0

\* max_retries bounds the requests of an event: one first attempt and at most
\* MaxRetries retries per life of the event, whoever dispatches it.
RetryBudget ==
    \A e \in Events : attempts[e] <= MaxRetries + 1

\* An alert that left the queue, delivered or buried, was announced on the
\* notification channel (dispatcher.py:160-173 runs before the settlement).
AlertAnnounced ==
    \A e \in AlertEvents : status[e] \in {"DELIVERED", "DEAD_LETTER"} => alerted[e] > 0

-----------------------------------------------------------------------------
(* Why they hold: the conjuncts that make them inductive.                  *)

\* retry_count counts the requests sent: it is behind by exactly one from the
\* moment a request leaves until its failure is settled.
AttemptsMatchRetryCount ==
    \A e \in Events :
        /\ attempts[e] <= retryCount[e] + 1
        /\ status[e] \in {"ABSENT", "PENDING"} => attempts[e] = retryCount[e]
        /\ \A d \in Dispatchers :
              /\ pc[d][e] = "queued" => attempts[e] = retryCount[e]
              /\ pc[d][e] \notin {"idle", "queued"} => attempts[e] = retryCount[e] + 1

OutcomesAreReal ==
    \A d \in Dispatchers, e \in Events :
        /\ pc[d][e] \in {"answered", "notifying", "settling"} => outcome[d][e] \in Outcomes
        /\ outcome[d][e] = "success" => received[e] > 0

AlertsPrecedeSettlement ==
    \A d \in Dispatchers, e \in AlertEvents : pc[d][e] = "settling" => alerted[e] > 0

OnlyCommittedTravel == \A e \in late : status[e] # "ABSENT"

IInv ==
    /\ TypeOK
    /\ ExclusiveClaim
    /\ ClaimIsCurrent
    /\ AttemptsMatchRetryCount
    /\ OutcomesAreReal
    /\ DeliveredWasReceived
    /\ AlertsPrecedeSettlement
    /\ AlertAnnounced
    /\ OnlyCommittedTravel

-----------------------------------------------------------------------------
(* What no step may do.                                                    *)

\* DELIVERED is final: no late settlement, retry or replay reopens it.
DeliveredIsFinal ==
    [][\A e \in Events : status[e] = "DELIVERED" => status'[e] = "DELIVERED"]_vars

\* A transient failure buries an event only when its whole budget of
\* MaxRetries + 1 requests was used (dispatcher.py:192-193, 206-208).
BuriedOnlyWhenSpent ==
    [][\A d \in Dispatchers, e \in Events :
          /\ pc[d][e] = "settling"
          /\ outcome[d][e] = "transient"
          /\ status'[e] = "DEAD_LETTER"
          => attempts[e] = MaxRetries + 1]_vars

-----------------------------------------------------------------------------
(* Liveness.                                                               *)

\* Every event that is committed gets out of the queue: it is delivered or it
\* becomes a dead letter an operator can see.
EventuallySettled ==
    \A e \in Events : (status[e] = "PENDING") ~> (status[e] \in {"DELIVERED", "DEAD_LETTER"})

\* The same, promised once the dispatchers stay up and replays have ended.
SettledWhenStable ==
    (/\ <>[](\A d \in Dispatchers : proc[d] = "running")
     /\ <>[][~ Administer]_vars) => EventuallySettled

-----------------------------------------------------------------------------
(* The outbox implements OutboxAbs.                                        *)

PhaseOf(s) ==
    CASE s = "ABSENT" -> "absent"
      [] s = "PENDING" -> "queued"
      [] s = "PROCESSING" -> "queued"
      [] s = "DELIVERED" -> "delivered"
      [] OTHER -> "dead"

Abs == INSTANCE OutboxAbs WITH phase <- [e \in Events |-> PhaseOf(status[e])]

Implements == Abs!AbsSpec
=============================================================================
