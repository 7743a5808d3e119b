--------------------------- MODULE OutboxSweeper ---------------------------
(***************************************************************************)
(* The outbox together with OutboxDispatcher.recover_stuck_events          *)
(* (dispatcher.py).  No code of the repository calls it outside the tests: *)
(* the behaviours in which swept is FALSE are the system as deployed, the  *)
(* others the system with the sweeper put to work by a timer or a person;  *)
(* in the ones in which faulty is FALSE no process dies by violence and    *)
(* every settlement commits.                                               *)
(***************************************************************************)
EXTENDS Outbox

VARIABLES
    aged,    \* rows whose created_at is at least timeout_minutes old
    swept,   \* whether anything calls recover_stuck_events
    faulty   \* whether crashes and failed settlements happen

\* Chosen at the start and never changed.
setting == <<swept, faulty>>

sweeperVars == <<status, retryCount, due, proc, pc, claimed, outcome, late,
                 attempts, received, alerted, aged, setting>>

SweeperInit == Init /\ aged = {} /\ swept \in BOOLEAN /\ faulty \in BOOLEAN

\* The clock passes created_at + timeout_minutes.
GrowOld(e) ==
    /\ status[e] # "ABSENT"
    /\ e \notin aged
    /\ aged' = aged \union {e}
    /\ UNCHANGED <<status, retryCount, due, proc, pc, claimed, outcome, late,
                   attempts, received, alerted, setting>>

\* Variant: only next_retry_at is compared, which is NULL until the first retry.
StuckWithRetryTime == {e \in aged : status[e] = "PROCESSING" /\ retryCount[e] > 0}

\* next_retry_at is never earlier than created_at, so the second alternative
\* of the query, next_retry_at <= cutoff, selects no row the first leaves out.
Stuck == {e \in aged : status[e] = "PROCESSING"}

RecoverStuckEvents ==
    /\ swept
    /\ Stuck # {}
    /\ status' = [e \in Events |-> IF e \in Stuck THEN "PENDING" ELSE status[e]]
    /\ due' = due \union Stuck
    /\ UNCHANGED <<retryCount, proc, tasks, late, attempts, received, alerted, aged, setting>>

SweeperNext ==
    \/ Healthy /\ UNCHANGED <<aged, setting>>
    \/ faulty /\ Faults /\ UNCHANGED <<aged, setting>>
    \/ \E e \in Events : GrowOld(e)
    \/ RecoverStuckEvents

SweeperSpec == SweeperInit /\ [][SweeperNext]_sweeperVars

SweeperFairness ==
    /\ Fairness
    /\ \A e \in Events : WF_sweeperVars(GrowOld(e))
    /\ WF_sweeperVars(RecoverStuckEvents)

FairSweeperSpec == SweeperSpec /\ SweeperFairness

-----------------------------------------------------------------------------
\* A row that says PROCESSING and belongs to no coroutine waits for a sweep.
Orphan(e) == status[e] = "PROCESSING" /\ \A d \in Dispatchers : ~ Live(d, e)

\* Only a kill or a failed settlement leaves such a row: a graceful shutdown
\* with a batch in flight (dispatcher.py:231-243, 250-260), a retry, a replay
\* and even a sweep that takes an event from its coroutine lose none.
OwnedWithoutFaults == ~ faulty => \A e \in Events : ~ Orphan(e)

\* With a sweeper, once dispatchers stay up and crashes, failed settlements
\* and replays have ended, every event is settled, the ones that a dead
\* process had claimed included (dispatcher.py:214-236).
SettledAfterFaults ==
    (/\ swept
     /\ <>[](\A d \in Dispatchers : proc[d] = "running")
     /\ <>[][~ Administer /\ ~ Faults]_vars) => EventuallySettled

\* As deployed, however many settlements fail, a committed event leaves the
\* queue in one of three ways: the ERP has it, an operator can see it among
\* the dead letters, or a coroutine died with it (dispatcher.py:61-94,
\* 175-212).  Nothing waits for ever in the queue.
SettledUnlessOrphaned ==
    (/\ ~ swept
     /\ <>[](\A d \in Dispatchers : proc[d] = "running")
     /\ <>[][~ Administer]_vars) =>
        \A e \in Events : (status[e] = "PENDING") ~>
            (status[e] \in {"DELIVERED", "DEAD_LETTER"} \/ Orphan(e))

\* The sweeper recovers the events "que quedaron en PROCESSING tras un crash
\* o reinicio abrupto" (dispatcher.py:215): it takes none from a coroutine.
SweepsOnlyOrphans ==
    [][RecoverStuckEvents => \A e \in Stuck : Orphan(e)]_sweeperVars
=============================================================================
