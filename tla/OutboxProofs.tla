---------------------------- MODULE OutboxProofs ----------------------------
(***************************************************************************)
(* Theorems about Outbox and OutboxSweeper, for any number of events and   *)
(* dispatchers and any limits.  IInv (in Outbox) is the inductive          *)
(* invariant of the outbox as deployed, SweptIInv that of the outbox with  *)
(* recover_stuck_events at work, where claims are no longer exclusive.     *)
(***************************************************************************)
EXTENDS OutboxSweeper, TLAPS

\* The actions of Next, as one disjunction to split on.
LEMMA NextCases ==
    ASSUME Next
    PROVE  \/ \E e \in Events : Enqueue(e) \/ BackoffElapses(e) \/ ErpReceivesLate(e)
           \/ \E d \in Dispatchers : Start(d) \/ Signal(d) \/ Exit(d) \/ Claim(d) \/ Crash(d)
           \/ \E d \in Dispatchers, e \in Events :
                 \/ SendPost(d, e)
                 \/ \E verdict \in Outcomes : ErpAnswers(d, e, verdict)
                 \/ PostReturns(d, e) \/ PostRaises(d, e) \/ Notify(d, e)
                 \/ Settle(d, e) \/ SettleRaises(d, e)
           \/ \E S \in SUBSET Events : S \subseteq DeadLetters /\ Requeue(S)
<1>1. CASE \E e \in Events : ReplayOutboxEvent(e)
  <2>. PICK e \in Events : ReplayOutboxEvent(e)  BY <1>1
  <2>. QED  BY {e} \in SUBSET Events DEF ReplayOutboxEvent, DeadLetters
<1>2. CASE \E S \in SUBSET Events, ofType \in TypeFilters : ReplayDeadLetters(S, ofType)
  BY <1>2 DEF ReplayDeadLetters
<1>. QED
  BY <1>1, <1>2 DEF Next, Healthy, Faults, Dispatch, Administer

-----------------------------------------------------------------------------
\* The table is empty and every dispatcher is down.
LEMMA InitTypeOK == Init => TypeOK
<1>. SUFFICES ASSUME Init  PROVE TypeOK
  OBVIOUS
<1>. USE OutboxAssumption DEF Init, TypeOK
<1>1. status \in [Events -> Statuses] /\ proc \in [Dispatchers -> {"down", "running", "stopping"}]
  BY DEF Statuses
<1>2. retryCount \in [Events -> 0..MaxRetries] /\ claimed \in [Dispatchers -> [Events -> 0..MaxRetries]]
  OBVIOUS
<1>3. pc \in [Dispatchers -> [Events -> Steps]]
  BY DEF Steps
<1>4. outcome \in [Dispatchers -> [Events -> Outcomes \union {"none"}]]
  OBVIOUS
<1>5. /\ attempts \in [Events -> 0..(MaxRetries + 2)]
      /\ received \in [Events -> 0..MaxCount]
      /\ alerted \in [Events -> 0..MaxCount]
  OBVIOUS
<1>. QED  BY <1>1, <1>2, <1>3, <1>4, <1>5

\* A counter stays below its cap.
LEMMA CountTyped ==
    ASSUME NEW cap \in Nat, NEW n \in 0..cap
    PROVE  Count(n, cap) \in 0..cap
BY DEF Count

\* A reception keeps the type of the reception counters.
LEMMA AcceptedTyped ==
    ASSUME TypeOK, NEW e \in Events, Accepted(e)
    PROVE  received' \in [Events -> 0..MaxCount]
BY OutboxAssumption, CountTyped DEF TypeOK, Accepted

\* Overwriting the local state of one coroutine keeps its type.
LEMMA TaskTyped ==
    ASSUME TypeOK, NEW d \in Dispatchers, NEW e \in Events
    PROVE  /\ \A s \in Steps : [pc EXCEPT ![d][e] = s] \in [Dispatchers -> [Events -> Steps]]
           /\ \A v \in Outcomes \union {"none"} :
                 [outcome EXCEPT ![d][e] = v] \in [Dispatchers -> [Events -> Outcomes \union {"none"}]]
           /\ [claimed EXCEPT ![d][e] = 0] \in [Dispatchers -> [Events -> 0..MaxRetries]]
<1>1. \A s \in Steps : [pc EXCEPT ![d][e] = s] \in [Dispatchers -> [Events -> Steps]]
  BY DEF TypeOK
<1>2. \A v \in Outcomes \union {"none"} :
         [outcome EXCEPT ![d][e] = v] \in [Dispatchers -> [Events -> Outcomes \union {"none"}]]
  BY DEF TypeOK
<1>3. [claimed EXCEPT ![d][e] = 0] \in [Dispatchers -> [Events -> 0..MaxRetries]]
  BY OutboxAssumption DEF TypeOK
<1>. QED  BY <1>1, <1>2, <1>3

\* So does the end of a coroutine.
LEMMA DoneTyped ==
    ASSUME TypeOK, NEW d \in Dispatchers, NEW e \in Events, Done(d, e)
    PROVE  /\ pc' \in [Dispatchers -> [Events -> Steps]]
           /\ claimed' \in [Dispatchers -> [Events -> 0..MaxRetries]]
           /\ outcome' \in [Dispatchers -> [Events -> Outcomes \union {"none"}]]
BY TaskTyped DEF Done, Steps

\* Every step keeps the types.
LEMMA NextTypeOK == TypeOK /\ [Next]_vars => TypeOK'
<1>. SUFFICES ASSUME TypeOK, [Next]_vars  PROVE TypeOK'
  OBVIOUS
<1>. USE OutboxAssumption DEF TypeOK, rows, tasks
<1>1. ASSUME NEW e \in Events, Enqueue(e)  PROVE TypeOK'
  <2>1. status' \in [Events -> Statuses]
    BY <1>1 DEF Enqueue, Statuses
  <2>. QED  BY <1>1, <2>1 DEF Enqueue
<1>2. ASSUME NEW e \in Events, BackoffElapses(e)  PROVE TypeOK'
  BY <1>2 DEF BackoffElapses
<1>3. ASSUME NEW e \in Events, ErpReceivesLate(e)  PROVE TypeOK'
  <2>1. received' \in [Events -> 0..MaxCount]
    BY <1>3, AcceptedTyped DEF ErpReceivesLate
  <2>. QED  BY <1>3, <2>1 DEF ErpReceivesLate
<1>4. ASSUME NEW d \in Dispatchers, Start(d) \/ Signal(d) \/ Exit(d)  PROVE TypeOK'
  BY <1>4 DEF Start, Signal, Exit
<1>5. ASSUME NEW d \in Dispatchers, Claim(d)  PROVE TypeOK'
  <2>1. status' \in [Events -> Statuses]
    BY <1>5 DEF Claim, Statuses
  <2>2. pc' \in [Dispatchers -> [Events -> Steps]]
    BY <1>5 DEF Claim, Steps
  <2>3. claimed' \in [Dispatchers -> [Events -> 0..MaxRetries]]
    BY <1>5 DEF Claim
  <2>. QED  BY <1>5, <2>1, <2>2, <2>3 DEF Claim
<1>6. ASSUME NEW d \in Dispatchers, Crash(d)  PROVE TypeOK'
  <2>1. pc' \in [Dispatchers -> [Events -> Steps]]
    BY <1>6 DEF Crash, Steps
  <2>2. claimed' \in [Dispatchers -> [Events -> 0..MaxRetries]]
    BY <1>6 DEF Crash
  <2>3. outcome' \in [Dispatchers -> [Events -> Outcomes \union {"none"}]]
    BY <1>6 DEF Crash
  <2>4. late' \subseteq Events /\ proc' \in [Dispatchers -> {"down", "running", "stopping"}]
    BY <1>6 DEF Crash
  <2>. QED  BY <1>6, <2>1, <2>2, <2>3, <2>4 DEF Crash
<1>7. ASSUME NEW d \in Dispatchers, NEW e \in Events, SendPost(d, e)  PROVE TypeOK'
  <2>1. pc' \in [Dispatchers -> [Events -> Steps]]
    BY <1>7, TaskTyped DEF SendPost, Steps
  <2>2. attempts' \in [Events -> 0..(MaxRetries + 2)]
    BY <1>7, CountTyped DEF SendPost
  <2>. QED  BY <1>7, <2>1, <2>2 DEF SendPost
<1>8. ASSUME NEW d \in Dispatchers, NEW e \in Events, NEW v \in Outcomes, ErpAnswers(d, e, v)
      PROVE TypeOK'
  <2>1. pc' \in [Dispatchers -> [Events -> Steps]]
    BY <1>8, TaskTyped DEF ErpAnswers, Steps
  <2>2. outcome' \in [Dispatchers -> [Events -> Outcomes \union {"none"}]]
    BY <1>8, TaskTyped DEF ErpAnswers
  <2>3. received' \in [Events -> 0..MaxCount]
    BY <1>8, AcceptedTyped DEF ErpAnswers
  <2>. QED  BY <1>8, <2>1, <2>2, <2>3 DEF ErpAnswers
<1>9. ASSUME NEW d \in Dispatchers, NEW e \in Events, PostReturns(d, e) \/ PostRaises(d, e)
      PROVE TypeOK'
  <2>1. AfterPost(e) \in Steps
    BY DEF AfterPost, Steps
  <2>2. CASE PostReturns(d, e)
    BY <2>1, <2>2, TaskTyped DEF PostReturns
  <2>3. CASE PostRaises(d, e)
    <3>1. pc' \in [Dispatchers -> [Events -> Steps]]
      BY <2>1, <2>3, TaskTyped DEF PostRaises
    <3>2. outcome' \in [Dispatchers -> [Events -> Outcomes \union {"none"}]]
      BY <2>3, TaskTyped DEF PostRaises, Outcomes
    <3>3. late' \subseteq Events
      BY <2>3 DEF PostRaises
    <3>. QED  BY <2>3, <3>1, <3>2, <3>3 DEF PostRaises
  <2>. QED  BY <1>9, <2>2, <2>3
<1>10. ASSUME NEW d \in Dispatchers, NEW e \in Events, Notify(d, e)  PROVE TypeOK'
  <2>1. pc' \in [Dispatchers -> [Events -> Steps]]
    BY <1>10, TaskTyped DEF Notify, Steps
  <2>2. alerted' \in [Events -> 0..MaxCount]
    BY <1>10, CountTyped DEF Notify
  <2>. QED  BY <1>10, <2>1, <2>2 DEF Notify
<1>11. ASSUME NEW d \in Dispatchers, NEW e \in Events, Settle(d, e)  PROVE TypeOK'
  <2>. USE DEF SettleSuccess, SettleFatal, ScheduleRetry, ExhaustRetries
  <2>1. status' \in [Events -> Statuses]
    BY <1>11 DEF Settle, Statuses
  <2>2. retryCount' \in [Events -> 0..MaxRetries]
    BY <1>11 DEF Settle
  <2>3. due' \subseteq Events
    BY <1>11 DEF Settle
  <2>. QED  BY <1>11, <2>1, <2>2, <2>3, DoneTyped DEF Settle
<1>12. ASSUME NEW d \in Dispatchers, NEW e \in Events, SettleRaises(d, e)  PROVE TypeOK'
  BY <1>12, DoneTyped DEF SettleRaises
<1>13. ASSUME NEW S \in SUBSET Events, Requeue(S)  PROVE TypeOK'
  <2>1. status' \in [Events -> Statuses]
    BY <1>13 DEF Requeue, Statuses
  <2>2. retryCount' \in [Events -> 0..MaxRetries] /\ attempts' \in [Events -> 0..(MaxRetries + 2)]
    BY <1>13 DEF Requeue
  <2>. QED  BY <1>13, <2>1, <2>2 DEF Requeue
<1>14. ASSUME UNCHANGED vars  PROVE TypeOK'
  BY <1>14 DEF vars
<1>. QED
  BY <1>1, <1>2, <1>3, <1>4, <1>5, <1>6, <1>7, <1>8, <1>9, <1>10, <1>11, <1>12, <1>13, <1>14,
     NextCases

\* Every variable of the outbox always has its type.
THEOREM TypeCorrect == Spec => []TypeOK
BY InitTypeOK, NextTypeOK, PTL DEF Spec

-----------------------------------------------------------------------------
(* The inductive invariant, one conjunct at a time.                        *)

\* Claims stay exclusive: only PENDING rows are claimed, only dead letters are
\* replayed, and a live coroutine keeps its row PROCESSING.
LEMMA ExclusiveStep == TypeOK /\ ExclusiveClaim /\ [Next]_vars => ExclusiveClaim'
<1>. SUFFICES ASSUME TypeOK, ExclusiveClaim, [Next]_vars  PROVE ExclusiveClaim'
  OBVIOUS
<1>. USE DEF TypeOK, ExclusiveClaim, Live, rows, tasks
<1>1. ASSUME NEW e \in Events, Enqueue(e)  PROVE ExclusiveClaim'
  BY <1>1 DEF Enqueue
<1>2. ASSUME UNCHANGED <<status, pc>>  PROVE ExclusiveClaim'
  BY <1>2
<1>3. ASSUME NEW d \in Dispatchers, Claim(d)  PROVE ExclusiveClaim'
  BY <1>3 DEF Claim, Busy, Eligible, FirstById
<1>4. ASSUME NEW d \in Dispatchers, Crash(d)  PROVE ExclusiveClaim'
  BY <1>4 DEF Crash
<1>5. ASSUME NEW d \in Dispatchers, NEW e \in Events, NEW s \in Steps, Live(d, e),
             pc' = [pc EXCEPT ![d][e] = s], UNCHANGED status
      PROVE  ExclusiveClaim'
  BY <1>5
<1>6. ASSUME NEW d \in Dispatchers, NEW e \in Events, Live(d, e), Done(d, e),
             NEW s \in Statuses, status' = [status EXCEPT ![e] = s]
      PROVE  ExclusiveClaim'
  BY <1>6 DEF Done
<1>7. ASSUME NEW S \in SUBSET Events, S \subseteq DeadLetters, Requeue(S)  PROVE ExclusiveClaim'
  BY <1>7 DEF Requeue, DeadLetters
<1>8. ASSUME NEW d \in Dispatchers, NEW e \in Events,
             \/ SendPost(d, e) \/ PostReturns(d, e) \/ PostRaises(d, e) \/ Notify(d, e)
             \/ SettleRaises(d, e) \/ \E v \in Outcomes : ErpAnswers(d, e, v)
      PROVE  ExclusiveClaim'
  <2>1. UNCHANGED status /\ Live(d, e)
    BY <1>8 DEF SendPost, PostReturns, PostRaises, Notify, SettleRaises, ErpAnswers
  <2>2. PICK s \in Steps : pc' = [pc EXCEPT ![d][e] = s]
    BY <1>8 DEF SendPost, PostReturns, PostRaises, Notify, SettleRaises, ErpAnswers, AfterPost, Done, Steps
  <2>. QED  BY <1>5, <2>1, <2>2
<1>9. ASSUME NEW d \in Dispatchers, NEW e \in Events, Settle(d, e)  PROVE ExclusiveClaim'
  <2>1. Live(d, e) /\ Done(d, e)
    BY <1>9 DEF Settle
  <2>2. PICK s \in Statuses : status' = [status EXCEPT ![e] = s]
    BY <1>9 DEF Settle, SettleSuccess, SettleFatal, ScheduleRetry, ExhaustRetries, Statuses
  <2>. QED  BY <1>6, <2>1, <2>2
<1>10. ASSUME NEW e \in Events, BackoffElapses(e) \/ ErpReceivesLate(e)  PROVE ExclusiveClaim'
  BY <1>2, <1>10 DEF BackoffElapses, ErpReceivesLate
<1>11. ASSUME NEW d \in Dispatchers, Start(d) \/ Signal(d) \/ Exit(d)  PROVE ExclusiveClaim'
  BY <1>2, <1>11 DEF Start, Signal, Exit
<1>12. CASE UNCHANGED vars
  BY <1>2, <1>12 DEF vars
<1>. QED
  BY <1>1, <1>3, <1>4, <1>7, <1>8, <1>9, <1>10, <1>11, <1>12, NextCases

\* retry_count changes only in the settlement of its claimer and in a replay,
\* which finds no live coroutine.
LEMMA CurrentStep == TypeOK /\ ExclusiveClaim /\ ClaimIsCurrent /\ [Next]_vars => ClaimIsCurrent'
<1>. SUFFICES ASSUME TypeOK, ExclusiveClaim, ClaimIsCurrent, [Next]_vars  PROVE ClaimIsCurrent'
  OBVIOUS
<1>. USE DEF TypeOK, ClaimIsCurrent, Live, rows, tasks
<1>1. ASSUME UNCHANGED <<retryCount, pc, claimed>>  PROVE ClaimIsCurrent'
  BY <1>1
<1>2. ASSUME NEW d \in Dispatchers, Claim(d)  PROVE ClaimIsCurrent'
  BY <1>2 DEF Claim, Busy
<1>3. ASSUME NEW d \in Dispatchers, Crash(d)  PROVE ClaimIsCurrent'
  BY <1>3 DEF Crash
<1>4. ASSUME NEW d \in Dispatchers, NEW e \in Events, NEW s \in Steps, Live(d, e),
             pc' = [pc EXCEPT ![d][e] = s], UNCHANGED <<claimed, retryCount>>
      PROVE  ClaimIsCurrent'
  BY <1>4
<1>5. ASSUME NEW d \in Dispatchers, NEW e \in Events, Live(d, e), Done(d, e),
             NEW n \in 0..MaxRetries, retryCount' = [retryCount EXCEPT ![e] = n]
      PROVE  ClaimIsCurrent'
  BY <1>5 DEF Done, ExclusiveClaim
<1>6. ASSUME NEW S \in SUBSET Events, S \subseteq DeadLetters, Requeue(S)  PROVE ClaimIsCurrent'
  BY <1>6 DEF Requeue, DeadLetters, ExclusiveClaim
<1>7. ASSUME NEW d \in Dispatchers, NEW e \in Events,
             \/ SendPost(d, e) \/ PostReturns(d, e) \/ PostRaises(d, e) \/ Notify(d, e)
             \/ \E v \in Outcomes : ErpAnswers(d, e, v)
      PROVE  ClaimIsCurrent'
  <2>1. UNCHANGED <<claimed, retryCount>> /\ Live(d, e)
    BY <1>7 DEF SendPost, PostReturns, PostRaises, Notify, ErpAnswers
  <2>2. PICK s \in Steps : pc' = [pc EXCEPT ![d][e] = s]
    BY <1>7 DEF SendPost, PostReturns, PostRaises, Notify, ErpAnswers, AfterPost, Steps
  <2>. QED  BY <1>4, <2>1, <2>2
<1>8. ASSUME NEW d \in Dispatchers, NEW e \in Events, Settle(d, e) \/ SettleRaises(d, e)
      PROVE  ClaimIsCurrent'
  <2>1. Live(d, e) /\ Done(d, e)
    BY <1>8 DEF Settle, SettleRaises
  <2>2. CASE ScheduleRetry(d, e)
    <3>1. claimed[d][e] + 1 \in 0..MaxRetries
      BY <2>2, OutboxAssumption DEF ScheduleRetry
    <3>. QED  BY <1>5, <2>1, <2>2, <3>1 DEF ScheduleRetry
  <2>3. CASE UNCHANGED retryCount
    BY <1>5, <2>1, <2>3
  <2>. QED
    BY <1>8, <2>2, <2>3 DEF Settle, SettleSuccess, SettleFatal, ExhaustRetries, SettleRaises
<1>9. ASSUME NEW e \in Events, Enqueue(e) \/ BackoffElapses(e) \/ ErpReceivesLate(e)
      PROVE ClaimIsCurrent'
  BY <1>1, <1>9 DEF Enqueue, BackoffElapses, ErpReceivesLate
<1>10. ASSUME NEW d \in Dispatchers, Start(d) \/ Signal(d) \/ Exit(d)  PROVE ClaimIsCurrent'
  BY <1>1, <1>10 DEF Start, Signal, Exit
<1>11. CASE UNCHANGED vars
  BY <1>1, <1>11 DEF vars
<1>. QED
  BY <1>2, <1>3, <1>6, <1>7, <1>8, <1>9, <1>10, <1>11, NextCases

\* A request adds one attempt, the settlement of its failure one to retry_count.
LEMMA AttemptsStep ==
    /\ TypeOK /\ ExclusiveClaim /\ ClaimIsCurrent /\ AttemptsMatchRetryCount /\ [Next]_vars
    => AttemptsMatchRetryCount'
<1>. SUFFICES ASSUME TypeOK, ExclusiveClaim, ClaimIsCurrent, AttemptsMatchRetryCount, [Next]_vars
              PROVE AttemptsMatchRetryCount'
  OBVIOUS
<1>. USE OutboxAssumption DEF TypeOK, AttemptsMatchRetryCount, rows, tasks
<1>1. ASSUME UNCHANGED <<status, retryCount, pc, attempts>>  PROVE AttemptsMatchRetryCount'
  BY <1>1
<1>2. ASSUME NEW e \in Events, Enqueue(e)  PROVE AttemptsMatchRetryCount'
  BY <1>2 DEF Enqueue
<1>3. ASSUME NEW d \in Dispatchers, Claim(d)  PROVE AttemptsMatchRetryCount'
  <2>. DEFINE batch == FirstById(Eligible)
  <2>1. batch \subseteq Events /\ \A f \in batch : status[f] = "PENDING"
    BY DEF FirstById, Eligible
  <2>2. /\ status' = [e \in Events |-> IF e \in batch THEN "PROCESSING" ELSE status[e]]
        /\ pc' = [pc EXCEPT ![d] = [e \in Events |-> IF e \in batch THEN "queued" ELSE "idle"]]
        /\ UNCHANGED <<retryCount, attempts>>
    BY <1>3 DEF Claim
  <2>. HIDE DEF batch
  <2>. QED  BY <2>1, <2>2
<1>4. ASSUME NEW d \in Dispatchers, Crash(d)  PROVE AttemptsMatchRetryCount'
  BY <1>4 DEF Crash
<1>5. ASSUME NEW d \in Dispatchers, NEW e \in Events, SendPost(d, e)
      PROVE AttemptsMatchRetryCount'
  <2>1. attempts[e] = retryCount[e] /\ status[e] = "PROCESSING"
    BY <1>5 DEF SendPost, ExclusiveClaim, Live
  <2>2. attempts' = [attempts EXCEPT ![e] = retryCount[e] + 1]
    <3>1. retryCount[e] \in Nat /\ retryCount[e] < MaxRetries + 2
      OBVIOUS
    <3>2. Count(attempts[e], MaxRetries + 2) = retryCount[e] + 1
      BY <2>1, <3>1 DEF Count
    <3>3. attempts' = [attempts EXCEPT ![e] = Count(attempts[e], MaxRetries + 2)]
      BY <1>5 DEF SendPost
    <3>. QED  BY <3>2, <3>3
  <2>3. \A x \in Dispatchers : x # d => pc[x][e] = "idle"
    BY <1>5 DEF SendPost, ExclusiveClaim, Live
  <2>. QED  BY <1>5, <2>1, <2>2, <2>3 DEF SendPost
<1>6. ASSUME NEW d \in Dispatchers, NEW e \in Events,
             \/ PostReturns(d, e) \/ PostRaises(d, e) \/ Notify(d, e) \/ SettleRaises(d, e)
             \/ \E v \in Outcomes : ErpAnswers(d, e, v)
      PROVE  AttemptsMatchRetryCount'
  <2>1. UNCHANGED <<status, retryCount, attempts>> /\ pc[d][e] \notin {"idle", "queued"}
    BY <1>6 DEF PostReturns, PostRaises, Notify, SettleRaises, ErpAnswers
  <2>2. PICK s \in Steps \ {"queued"} : pc' = [pc EXCEPT ![d][e] = s]
    BY <1>6 DEF PostReturns, PostRaises, Notify, SettleRaises, ErpAnswers, AfterPost, Done, Steps
  <2>. QED  BY <2>1, <2>2
<1>7. ASSUME NEW d \in Dispatchers, NEW e \in Events, Settle(d, e)
      PROVE AttemptsMatchRetryCount'
  <2>1. /\ attempts[e] = retryCount[e] + 1
        /\ claimed[d][e] = retryCount[e]
        /\ \A x \in Dispatchers : x # d => pc[x][e] = "idle"
    BY <1>7 DEF Settle, ClaimIsCurrent, ExclusiveClaim, Live
  <2>2. pc' = [pc EXCEPT ![d][e] = "idle"] /\ UNCHANGED attempts
    BY <1>7 DEF Settle, Done
  <2>3. CASE ScheduleRetry(d, e)
    BY <2>1, <2>2, <2>3 DEF ScheduleRetry
  <2>4. CASE SettleSuccess(d, e) \/ SettleFatal(d, e) \/ ExhaustRetries(d, e)
    BY <2>1, <2>2, <2>4 DEF SettleSuccess, SettleFatal, ExhaustRetries
  <2>. QED  BY <1>7, <2>3, <2>4 DEF Settle
<1>8. ASSUME NEW S \in SUBSET Events, S \subseteq DeadLetters, Requeue(S)
      PROVE AttemptsMatchRetryCount'
  <2>1. \A e \in S, d \in Dispatchers : pc[d][e] = "idle"
    BY <1>8 DEF DeadLetters, ExclusiveClaim, Live
  <2>. QED  BY <1>8, <2>1 DEF Requeue
<1>9. ASSUME NEW e \in Events, BackoffElapses(e) \/ ErpReceivesLate(e)
      PROVE AttemptsMatchRetryCount'
  BY <1>1, <1>9 DEF BackoffElapses, ErpReceivesLate
<1>10. ASSUME NEW d \in Dispatchers, Start(d) \/ Signal(d) \/ Exit(d)
       PROVE AttemptsMatchRetryCount'
  BY <1>1, <1>10 DEF Start, Signal, Exit
<1>11. CASE UNCHANGED vars
  BY <1>1, <1>11 DEF vars
<1>. QED
  BY <1>2, <1>3, <1>4, <1>5, <1>6, <1>7, <1>8, <1>9, <1>10, <1>11, NextCases

\* Receptions and notifications are never forgotten.
LEMMA CountersGrow ==
    ASSUME TypeOK, [Next]_vars
    PROVE  \A e \in Events : /\ received[e] > 0 => received'[e] > 0
                             /\ alerted[e] > 0 => alerted'[e] > 0
<1>. USE OutboxAssumption DEF TypeOK, rows, tasks
<1>1. CASE UNCHANGED <<received, alerted>>
  BY <1>1
<1>2. ASSUME NEW e \in Events, Accepted(e), UNCHANGED alerted
      PROVE \A f \in Events : /\ received[f] > 0 => received'[f] > 0
                              /\ alerted[f] > 0 => alerted'[f] > 0
  BY <1>2 DEF Accepted, Count
<1>3. ASSUME NEW d \in Dispatchers, NEW e \in Events, Notify(d, e)
      PROVE \A f \in Events : /\ received[f] > 0 => received'[f] > 0
                              /\ alerted[f] > 0 => alerted'[f] > 0
  BY <1>3 DEF Notify, Count
<1>4. \/ UNCHANGED <<received, alerted>>
      \/ \E e \in Events : Accepted(e) /\ UNCHANGED alerted
      \/ \E d \in Dispatchers, e \in Events : Notify(d, e)
  <2>1. ASSUME NEW e \in Events, Enqueue(e) \/ BackoffElapses(e)
        PROVE  UNCHANGED <<received, alerted>>
    BY <2>1 DEF Enqueue, BackoffElapses
  <2>2. ASSUME NEW e \in Events, ErpReceivesLate(e)
        PROVE  UNCHANGED <<received, alerted>> \/ (Accepted(e) /\ UNCHANGED alerted)
    BY <2>2 DEF ErpReceivesLate
  <2>3. ASSUME NEW d \in Dispatchers, Start(d) \/ Signal(d) \/ Exit(d) \/ Claim(d) \/ Crash(d)
        PROVE  UNCHANGED <<received, alerted>>
    BY <2>3 DEF Start, Signal, Exit, Claim, Crash
  <2>4. ASSUME NEW d \in Dispatchers, NEW e \in Events,
               \/ SendPost(d, e) \/ PostReturns(d, e) \/ PostRaises(d, e)
               \/ Settle(d, e) \/ SettleRaises(d, e)
        PROVE  UNCHANGED <<received, alerted>>
    BY <2>4 DEF SendPost, PostReturns, PostRaises, Settle, SettleRaises
  <2>5. ASSUME NEW d \in Dispatchers, NEW e \in Events, NEW v \in Outcomes, ErpAnswers(d, e, v)
        PROVE  UNCHANGED <<received, alerted>> \/ (Accepted(e) /\ UNCHANGED alerted)
    BY <2>5 DEF ErpAnswers
  <2>6. ASSUME NEW S \in SUBSET Events, Requeue(S)  PROVE UNCHANGED <<received, alerted>>
    BY <2>6 DEF Requeue
  <2>7. CASE UNCHANGED vars
    BY <2>7 DEF vars
  <2>. QED  BY <2>1, <2>2, <2>3, <2>4, <2>5, <2>6, <2>7, NextCases
<1>. QED  BY <1>1, <1>2, <1>3, <1>4

\* A coroutine holds the outcome success only after the ERP accepted the event.
LEMMA OutcomesStep ==
    TypeOK /\ OutcomesAreReal /\ [Next]_vars => OutcomesAreReal'
<1>. SUFFICES ASSUME TypeOK, OutcomesAreReal, [Next]_vars  PROVE OutcomesAreReal'
  OBVIOUS
<1>. USE CountersGrow, OutboxAssumption DEF TypeOK, OutcomesAreReal, rows, tasks
<1>1. ASSUME UNCHANGED <<pc, outcome>>  PROVE OutcomesAreReal'
  BY <1>1
<1>2. ASSUME NEW d \in Dispatchers, Claim(d)  PROVE OutcomesAreReal'
  BY <1>2 DEF Claim
<1>3. ASSUME NEW d \in Dispatchers, Crash(d)  PROVE OutcomesAreReal'
  BY <1>3 DEF Crash
<1>4. ASSUME NEW d \in Dispatchers, NEW e \in Events, NEW s \in Steps, NEW v,
             pc' = [pc EXCEPT ![d][e] = s], outcome' = [outcome EXCEPT ![d][e] = v],
             s \in {"answered", "notifying", "settling"} => v \in Outcomes,
             v = "success" => received'[e] > 0
      PROVE  OutcomesAreReal'
  BY <1>4
<1>5. ASSUME NEW d \in Dispatchers, NEW e \in Events, NEW v \in Outcomes, ErpAnswers(d, e, v)
      PROVE  OutcomesAreReal'
  <2>1. v = "success" => received'[e] > 0
    BY <1>5 DEF ErpAnswers, Accepted, Count
  <2>. QED  BY <1>4, <1>5, <2>1 DEF ErpAnswers, Steps
<1>6. ASSUME NEW d \in Dispatchers, NEW e \in Events, PostRaises(d, e)  PROVE OutcomesAreReal'
  <2>1. AfterPost(e) \in Steps
    BY DEF AfterPost, Steps
  <2>. QED  BY <1>4, <1>6, <2>1 DEF PostRaises, Outcomes
<1>7. ASSUME NEW d \in Dispatchers, NEW e \in Events, NEW s \in Steps,
             pc[d][e] \in {"answered", "notifying", "settling"} \/ s = "posting",
             pc' = [pc EXCEPT ![d][e] = s], UNCHANGED outcome
      PROVE  OutcomesAreReal'
  BY <1>7
<1>8. ASSUME NEW d \in Dispatchers, NEW e \in Events,
             SendPost(d, e) \/ PostReturns(d, e) \/ Notify(d, e)
      PROVE  OutcomesAreReal'
  <2>1. UNCHANGED outcome
    BY <1>8 DEF SendPost, PostReturns, Notify
  <2>2. \E s \in Steps : /\ pc[d][e] \in {"answered", "notifying", "settling"} \/ s = "posting"
                         /\ pc' = [pc EXCEPT ![d][e] = s]
    BY <1>8 DEF SendPost, PostReturns, Notify, AfterPost, Steps
  <2>. QED  BY <1>7, <2>1, <2>2
<1>9. ASSUME NEW d \in Dispatchers, NEW e \in Events, Settle(d, e) \/ SettleRaises(d, e)
      PROVE  OutcomesAreReal'
  BY <1>4, <1>9 DEF Settle, SettleRaises, Done, Steps
<1>10. ASSUME NEW e \in Events, Enqueue(e) \/ BackoffElapses(e) \/ ErpReceivesLate(e)
       PROVE OutcomesAreReal'
  BY <1>1, <1>10 DEF Enqueue, BackoffElapses, ErpReceivesLate
<1>11. ASSUME NEW d \in Dispatchers, Start(d) \/ Signal(d) \/ Exit(d)  PROVE OutcomesAreReal'
  BY <1>1, <1>11 DEF Start, Signal, Exit
<1>12. ASSUME NEW S \in SUBSET Events, Requeue(S)  PROVE OutcomesAreReal'
  BY <1>1, <1>12 DEF Requeue
<1>13. CASE UNCHANGED vars
  BY <1>1, <1>13 DEF vars
<1>. QED
  BY <1>2, <1>3, <1>5, <1>6, <1>8, <1>9, <1>10, <1>11, <1>12, <1>13, NextCases

\* The only steps that end the life of an event in the queue are settlements.
LEMMA StatusChanges ==
    ASSUME TypeOK, [Next]_vars, NEW f \in Events, status'[f] # status[f]
    PROVE  \/ status[f] = "ABSENT" /\ status'[f] = "PENDING"
           \/ status[f] = "PENDING" /\ status'[f] = "PROCESSING"
           \/ status[f] = "DEAD_LETTER" /\ status'[f] = "PENDING"
           \/ \E d \in Dispatchers :
                 /\ Settle(d, f)
                 /\ \/ SettleSuccess(d, f) /\ status'[f] = "DELIVERED"
                    \/ SettleFatal(d, f) /\ status'[f] = "DEAD_LETTER"
                    \/ ScheduleRetry(d, f) /\ status'[f] = "PENDING"
                    \/ ExhaustRetries(d, f) /\ status'[f] = "DEAD_LETTER"
<1>. DEFINE Goal ==
       \/ status[f] = "ABSENT" /\ status'[f] = "PENDING"
       \/ status[f] = "PENDING" /\ status'[f] = "PROCESSING"
       \/ status[f] = "DEAD_LETTER" /\ status'[f] = "PENDING"
       \/ \E d \in Dispatchers :
             /\ Settle(d, f)
             /\ \/ SettleSuccess(d, f) /\ status'[f] = "DELIVERED"
                \/ SettleFatal(d, f) /\ status'[f] = "DEAD_LETTER"
                \/ ScheduleRetry(d, f) /\ status'[f] = "PENDING"
                \/ ExhaustRetries(d, f) /\ status'[f] = "DEAD_LETTER"
<1>. USE DEF TypeOK, rows, tasks
<1>1. ASSUME NEW e \in Events, Enqueue(e)  PROVE Goal
  BY <1>1 DEF Enqueue
<1>2. ASSUME NEW d \in Dispatchers, Claim(d)  PROVE Goal
  BY <1>2 DEF Claim, FirstById, Eligible
<1>3. ASSUME NEW d \in Dispatchers, NEW e \in Events, Settle(d, e)  PROVE Goal
  <2>1. e = f
    BY <1>3 DEF Settle, SettleSuccess, SettleFatal, ScheduleRetry, ExhaustRetries
  <2>2. CASE SettleSuccess(d, e)
    BY <1>3, <2>1, <2>2 DEF SettleSuccess
  <2>3. CASE SettleFatal(d, e)
    BY <1>3, <2>1, <2>3 DEF SettleFatal
  <2>4. CASE ScheduleRetry(d, e)
    BY <1>3, <2>1, <2>4 DEF ScheduleRetry
  <2>5. CASE ExhaustRetries(d, e)
    BY <1>3, <2>1, <2>5 DEF ExhaustRetries
  <2>. QED  BY <1>3, <2>2, <2>3, <2>4, <2>5 DEF Settle
<1>4. ASSUME NEW S \in SUBSET Events, S \subseteq DeadLetters, Requeue(S)  PROVE Goal
  BY <1>4 DEF Requeue, DeadLetters
<1>5. ASSUME NEW e \in Events, BackoffElapses(e) \/ ErpReceivesLate(e)  PROVE Goal
  BY <1>5 DEF BackoffElapses, ErpReceivesLate
<1>6. ASSUME NEW d \in Dispatchers, Start(d) \/ Signal(d) \/ Exit(d) \/ Crash(d)  PROVE Goal
  BY <1>6 DEF Start, Signal, Exit, Crash
<1>7. ASSUME NEW d \in Dispatchers, NEW e \in Events,
             \/ SendPost(d, e) \/ PostReturns(d, e) \/ PostRaises(d, e) \/ Notify(d, e)
             \/ SettleRaises(d, e) \/ \E v \in Outcomes : ErpAnswers(d, e, v)
      PROVE  Goal
  BY <1>7 DEF SendPost, PostReturns, PostRaises, Notify, SettleRaises, ErpAnswers
<1>8. CASE UNCHANGED vars
  BY <1>8 DEF vars
<1>. QED
  BY <1>1, <1>2, <1>3, <1>4, <1>5, <1>6, <1>7, <1>8, NextCases

\* DELIVERED is written by a settlement with the outcome success.
LEMMA DeliveredStep ==
    TypeOK /\ OutcomesAreReal /\ DeliveredWasReceived /\ [Next]_vars => DeliveredWasReceived'
<1>. SUFFICES ASSUME TypeOK, OutcomesAreReal, DeliveredWasReceived, [Next]_vars,
                     NEW e \in Events, status'[e] = "DELIVERED"
              PROVE  received'[e] > 0
  BY DEF DeliveredWasReceived
<1>1. CASE status[e] = "DELIVERED"
  BY <1>1, CountersGrow DEF DeliveredWasReceived
<1>2. CASE status[e] # "DELIVERED"
  <2>1. PICK d \in Dispatchers : SettleSuccess(d, e)
    BY <1>2, StatusChanges
  <2>. QED  BY <2>1, CountersGrow DEF SettleSuccess, OutcomesAreReal
<1>. QED  BY <1>1, <1>2

\* The coroutine of an alert reaches its settlement through the notification.
LEMMA AlertsStep ==
    TypeOK /\ AlertsPrecedeSettlement /\ [Next]_vars => AlertsPrecedeSettlement'
<1>. SUFFICES ASSUME TypeOK, AlertsPrecedeSettlement, [Next]_vars,
                     NEW x \in Dispatchers, NEW f \in AlertEvents, pc'[x][f] = "settling"
              PROVE  alerted'[f] > 0
  BY DEF AlertsPrecedeSettlement
<1>. USE OutboxAssumption DEF TypeOK, rows, tasks
<1>1. CASE pc[x][f] = "settling"
  BY <1>1, CountersGrow DEF AlertsPrecedeSettlement
<1>2. CASE pc[x][f] # "settling"
  <2>1. Notify(x, f)
    <3>1. ASSUME NEW d \in Dispatchers, Claim(d) \/ Crash(d)  PROVE FALSE
      <4>1. CASE Claim(d)
        BY <1>2, <4>1 DEF Claim
      <4>2. CASE Crash(d)
        BY <1>2, <4>2 DEF Crash
      <4>. QED  BY <3>1, <4>1, <4>2
    <3>2. ASSUME NEW d \in Dispatchers, NEW e \in Events, NEW s \in Steps \ {"settling"},
                 pc' = [pc EXCEPT ![d][e] = s]
          PROVE  FALSE
      BY <1>2, <3>2
    <3>3. ASSUME NEW d \in Dispatchers, NEW e \in Events,
                 \/ SendPost(d, e) \/ Settle(d, e) \/ SettleRaises(d, e)
                 \/ \E v \in Outcomes : ErpAnswers(d, e, v)
          PROVE  FALSE
      BY <3>2, <3>3 DEF SendPost, Settle, SettleRaises, ErpAnswers, Done, Steps
    <3>4. ASSUME NEW d \in Dispatchers, NEW e \in Events, PostReturns(d, e) \/ PostRaises(d, e)
          PROVE  FALSE
      <4>1. pc' = [pc EXCEPT ![d][e] = AfterPost(e)]
        BY <3>4 DEF PostReturns, PostRaises
      <4>2. d = x /\ e = f
        BY <1>2, <4>1
      <4>. QED  BY <3>2, <4>1, <4>2 DEF AfterPost, Steps
    <3>5. ASSUME NEW d \in Dispatchers, NEW e \in Events, Notify(d, e)  PROVE d = x /\ e = f
      BY <1>2, <3>5 DEF Notify
    <3>6. ~ UNCHANGED pc
      BY <1>2
    <3>7. ASSUME NEW e \in Events, Enqueue(e) \/ BackoffElapses(e) \/ ErpReceivesLate(e)
          PROVE  UNCHANGED pc
      BY <3>7 DEF Enqueue, BackoffElapses, ErpReceivesLate
    <3>8. ASSUME NEW d \in Dispatchers, Start(d) \/ Signal(d) \/ Exit(d)  PROVE UNCHANGED pc
      BY <3>8 DEF Start, Signal, Exit
    <3>9. ASSUME NEW S \in SUBSET Events, Requeue(S)  PROVE UNCHANGED pc
      BY <3>9 DEF Requeue
    <3>10. (UNCHANGED vars) => UNCHANGED pc
      BY DEF vars
    <3>. QED  BY <3>1, <3>3, <3>4, <3>5, <3>6, <3>7, <3>8, <3>9, <3>10, NextCases
  <2>. QED  BY <2>1 DEF Notify, Count
<1>. QED  BY <1>1, <1>2

\* An alert leaves the queue in a settlement.
LEMMA AnnouncedStep ==
    TypeOK /\ AlertsPrecedeSettlement /\ AlertAnnounced /\ [Next]_vars => AlertAnnounced'
<1>. SUFFICES ASSUME TypeOK, AlertsPrecedeSettlement, AlertAnnounced, [Next]_vars,
                     NEW e \in AlertEvents, status'[e] \in {"DELIVERED", "DEAD_LETTER"}
              PROVE  alerted'[e] > 0
  BY DEF AlertAnnounced
<1>0. e \in Events
  BY OutboxAssumption
<1>1. CASE status'[e] = status[e]
  BY <1>0, <1>1, CountersGrow DEF AlertAnnounced
<1>2. CASE status'[e] # status[e]
  <2>1. PICK d \in Dispatchers : Settle(d, e)
    BY <1>0, <1>2, StatusChanges
  <2>. QED  BY <1>0, <2>1, CountersGrow DEF Settle, AlertsPrecedeSettlement
<1>. QED  BY <1>1, <1>2

\* Only a coroutine sends a request, and its row is committed.
LEMMA TravelStep ==
    TypeOK /\ ExclusiveClaim /\ OnlyCommittedTravel /\ [Next]_vars => OnlyCommittedTravel'
<1>. SUFFICES ASSUME TypeOK, ExclusiveClaim, OnlyCommittedTravel, [Next]_vars,
                     NEW e \in late'
              PROVE  status'[e] # "ABSENT"
  BY DEF OnlyCommittedTravel
<1>. USE DEF TypeOK, rows, tasks
<1>1. e \in Events
  BY NextTypeOK
<1>2. e \in late \/ \E d \in Dispatchers : Live(d, e)
  <2>1. ASSUME NEW f \in Events, Enqueue(f) \/ BackoffElapses(f) \/ ErpReceivesLate(f)
        PROVE  e \in late
    BY <2>1 DEF Enqueue, BackoffElapses, ErpReceivesLate
  <2>2. ASSUME NEW d \in Dispatchers, Start(d) \/ Signal(d) \/ Exit(d) \/ Claim(d)
        PROVE  e \in late
    BY <2>2 DEF Start, Signal, Exit, Claim
  <2>3. ASSUME NEW d \in Dispatchers, Crash(d)  PROVE e \in late \/ Live(d, e)
    BY <2>3 DEF Crash, Live
  <2>4. ASSUME NEW d \in Dispatchers, NEW f \in Events,
               \/ SendPost(d, f) \/ PostReturns(d, f) \/ Notify(d, f)
               \/ Settle(d, f) \/ SettleRaises(d, f) \/ \E v \in Outcomes : ErpAnswers(d, f, v)
        PROVE  e \in late
    BY <2>4 DEF SendPost, PostReturns, Notify, Settle, SettleRaises, ErpAnswers
  <2>5. ASSUME NEW d \in Dispatchers, NEW f \in Events, PostRaises(d, f)
        PROVE  e \in late \/ Live(d, e)
    BY <2>5 DEF PostRaises, Live
  <2>6. ASSUME NEW S \in SUBSET Events, Requeue(S)  PROVE e \in late
    BY <2>6 DEF Requeue
  <2>7. CASE UNCHANGED vars
    BY <2>7 DEF vars
  <2>. QED  BY <2>1, <2>2, <2>3, <2>4, <2>5, <2>6, <2>7, NextCases
<1>3. status[e] # "ABSENT"
  BY <1>1, <1>2 DEF OnlyCommittedTravel, ExclusiveClaim
<1>. QED  BY <1>1, <1>3, StatusChanges

-----------------------------------------------------------------------------
\* The invariant holds when nothing has happened.
LEMMA InitIInv == Init => IInv
<1>. SUFFICES ASSUME Init  PROVE IInv
  OBVIOUS
<1>1. TypeOK
  BY InitTypeOK
<1>2. ExclusiveClaim /\ ClaimIsCurrent
  BY DEF Init, ExclusiveClaim, ClaimIsCurrent, Live
<1>3. AttemptsMatchRetryCount
  BY DEF Init, AttemptsMatchRetryCount
<1>4. OutcomesAreReal
  BY DEF Init, OutcomesAreReal
<1>5. DeliveredWasReceived /\ OnlyCommittedTravel
  BY DEF Init, DeliveredWasReceived, OnlyCommittedTravel
<1>6. AlertsPrecedeSettlement /\ AlertAnnounced
  BY OutboxAssumption DEF Init, AlertsPrecedeSettlement, AlertAnnounced
<1>. QED  BY <1>1, <1>2, <1>3, <1>4, <1>5, <1>6 DEF IInv

\* The invariant is inductive.
LEMMA NextIInv == IInv /\ [Next]_vars => IInv'
BY NextTypeOK, ExclusiveStep, CurrentStep, AttemptsStep, OutcomesStep, DeliveredStep,
   AlertsStep, AnnouncedStep, TravelStep
   DEF IInv

\* The inductive invariant.
THEOREM InductiveInvariant == Spec => []IInv
BY InitIInv, NextIInv, PTL DEF Spec

\* Two dispatchers, or a dispatcher and a replay, never act on the same event.
THEOREM ExclusiveClaimHolds == Spec => []ExclusiveClaim
<1>1. IInv => ExclusiveClaim
  BY DEF IInv
<1>. QED  BY <1>1, InductiveInvariant, PTL

\* The retry_count a coroutine uses at its settlement is the one in the row.
THEOREM ClaimIsCurrentHolds == Spec => []ClaimIsCurrent
<1>1. IInv => ClaimIsCurrent
  BY DEF IInv
<1>. QED  BY <1>1, InductiveInvariant, PTL

\* Nothing is recorded as DELIVERED that the ERP did not accept.
THEOREM DeliveredWasReceivedHolds == Spec => []DeliveredWasReceived
<1>1. IInv => DeliveredWasReceived
  BY DEF IInv
<1>. QED  BY <1>1, InductiveInvariant, PTL

\* No event is posted more than MaxRetries + 1 times in one life.
THEOREM RetryBudgetHolds == Spec => []RetryBudget
<1>1. IInv => RetryBudget
  <2>. SUFFICES ASSUME IInv, NEW e \in Events  PROVE attempts[e] <= MaxRetries + 1
    BY DEF RetryBudget
  <2>1. attempts[e] \in Nat /\ retryCount[e] \in Nat /\ retryCount[e] <= MaxRetries
    BY OutboxAssumption DEF IInv, TypeOK
  <2>2. attempts[e] <= retryCount[e] + 1
    BY DEF IInv, AttemptsMatchRetryCount
  <2>. QED  BY OutboxAssumption, <2>1, <2>2
<1>. QED  BY <1>1, InductiveInvariant, PTL

\* Every alert that was settled was announced first.
THEOREM AlertAnnouncedHolds == Spec => []AlertAnnounced
<1>1. IInv => AlertAnnounced
  BY DEF IInv
<1>. QED  BY <1>1, InductiveInvariant, PTL

-----------------------------------------------------------------------------
(* Action properties.                                                      *)

\* A settlement finds the row as it was claimed.
LEMMA SettledRow ==
    ASSUME IInv, NEW d \in Dispatchers, NEW e \in Events, Settle(d, e)
    PROVE  status[e] = "PROCESSING"
BY DEF IInv, ExclusiveClaim, Live, Settle

\* DELIVERED is final, whatever the dispatchers and the administrator do.
THEOREM DeliveredIsFinalHolds == Spec => DeliveredIsFinal
<1>1. IInv /\ [Next]_vars
      => [\A e \in Events : status[e] = "DELIVERED" => status'[e] = "DELIVERED"]_vars
  <2>. SUFFICES ASSUME IInv, [Next]_vars, NEW e \in Events, status[e] = "DELIVERED"
                PROVE  status'[e] = "DELIVERED"
    OBVIOUS
  <2>. QED  BY SettledRow, StatusChanges DEF IInv
<1>. QED  BY <1>1, InductiveInvariant, PTL DEF Spec, DeliveredIsFinal

\* A transient failure buries an event only with its budget spent.
THEOREM BuriedOnlyWhenSpentHolds == Spec => BuriedOnlyWhenSpent
<1>. DEFINE Buried ==
       \A d \in Dispatchers, e \in Events :
          /\ pc[d][e] = "settling"
          /\ outcome[d][e] = "transient"
          /\ status'[e] = "DEAD_LETTER"
          => attempts[e] = MaxRetries + 1
<1>1. IInv /\ [Next]_vars => [Buried]_vars
  <2>. SUFFICES ASSUME IInv, [Next]_vars, NEW d \in Dispatchers, NEW e \in Events,
                       pc[d][e] = "settling", outcome[d][e] = "transient",
                       status'[e] = "DEAD_LETTER"
                PROVE  attempts[e] = MaxRetries + 1
    OBVIOUS
  <2>1. status[e] = "PROCESSING"
    BY DEF IInv, ExclusiveClaim, Live
  <2>2. PICK x \in Dispatchers : Settle(x, e) /\ (SettleFatal(x, e) \/ ExhaustRetries(x, e))
    BY <2>1, StatusChanges DEF IInv
  <2>3. x = d
    BY <2>2 DEF IInv, ExclusiveClaim, Live, Settle
  <2>4. claimed[d][e] + 1 > MaxRetries
    BY <2>2, <2>3 DEF SettleFatal, ExhaustRetries
  <2>5. claimed[d][e] = retryCount[e] /\ attempts[e] = retryCount[e] + 1
    BY DEF IInv, ClaimIsCurrent, Live, AttemptsMatchRetryCount
  <2>6. retryCount[e] \in 0..MaxRetries
    BY DEF IInv, TypeOK
  <2>. QED  BY OutboxAssumption, <2>4, <2>5, <2>6
<1>. QED  BY <1>1, InductiveInvariant, PTL DEF Spec, BuriedOnlyWhenSpent

-----------------------------------------------------------------------------
(* The outbox implements OutboxAbs.                                        *)

\* The refinement mapping, status by status.
LEMMA PhaseCases ==
    /\ PhaseOf("ABSENT") = "absent"
    /\ PhaseOf("PENDING") = "queued"
    /\ PhaseOf("PROCESSING") = "queued"
    /\ PhaseOf("DELIVERED") = "delivered"
    /\ PhaseOf("DEAD_LETTER") = "dead"
BY DEF PhaseOf

\* A step that moves the events of S and leaves the others where they are.
LEMMA MoveStep ==
    ASSUME NEW S \in SUBSET Events, NEW from, NEW to,
           \A e \in S : PhaseOf(status[e]) = from /\ PhaseOf(status'[e]) = to,
           \A e \in Events \ S : status'[e] = status[e]
    PROVE  Abs!Move(S, from, to)
BY DEF Abs!Move

\* The initial states map to initial states.
LEMMA InitImplements == Init => Abs!AbsInit
BY PhaseCases DEF Init, Abs!AbsInit

\* Every step maps to a step of OutboxAbs or to a stutter.
LEMMA NextImplements == IInv /\ [Next]_vars => [Abs!AbsNext]_(Abs!absVars)
<1>. SUFFICES ASSUME IInv, [Next]_vars  PROVE Abs!AbsNext \/ UNCHANGED Abs!absVars
  OBVIOUS
<1>. USE DEF rows, tasks
<1>0. TypeOK /\ status \in [Events -> Statuses]
  BY DEF IInv, TypeOK
<1>1. ASSUME \A e \in Events : PhaseOf(status'[e]) = PhaseOf(status[e]), UNCHANGED received
      PROVE  UNCHANGED Abs!absVars
  BY <1>1 DEF Abs!absVars
<1>2. ASSUME NEW e \in Events, Enqueue(e)  PROVE Abs!AbsNext
  <2>1. Abs!Move({e}, "absent", "queued")
    BY <1>0, <1>2, MoveStep, PhaseCases DEF Enqueue
  <2>. QED  BY <1>2, <2>1 DEF Enqueue, Abs!AbsNext, Abs!Publish
<1>3. ASSUME NEW e \in Events, status[e] # "ABSENT", Accepted(e), UNCHANGED status
      PROVE  Abs!AbsNext
  <2>1. PhaseOf(status[e]) # "absent"
    BY <1>0, <1>3, PhaseCases DEF Statuses
  <2>2. Abs!Receive(e)
    BY <1>3, <2>1 DEF Abs!Receive, Accepted, Count
  <2>. QED  BY <2>2 DEF Abs!AbsNext
<1>4. ASSUME NEW e \in Events, ErpReceivesLate(e)
      PROVE  Abs!AbsNext \/ UNCHANGED Abs!absVars
  <2>1. status[e] # "ABSENT"
    BY <1>4 DEF IInv, OnlyCommittedTravel, ErpReceivesLate
  <2>. QED  BY <1>1, <1>3, <1>4, <2>1 DEF ErpReceivesLate
<1>5. ASSUME NEW d \in Dispatchers, Claim(d)  PROVE UNCHANGED Abs!absVars
  <2>1. \A f \in Events : PhaseOf(status'[f]) = PhaseOf(status[f])
    BY <1>5, PhaseCases DEF Claim, FirstById, Eligible
  <2>. QED  BY <1>1, <1>5, <2>1 DEF Claim
<1>6. ASSUME NEW d \in Dispatchers, NEW e \in Events, NEW v \in Outcomes, ErpAnswers(d, e, v)
      PROVE  Abs!AbsNext \/ UNCHANGED Abs!absVars
  <2>1. status[e] # "ABSENT"
    BY <1>6 DEF IInv, ExclusiveClaim, Live, ErpAnswers
  <2>. QED  BY <1>1, <1>3, <1>6, <2>1 DEF ErpAnswers
<1>7. ASSUME NEW d \in Dispatchers, NEW e \in Events, Settle(d, e)
      PROVE  Abs!AbsNext \/ UNCHANGED Abs!absVars
  <2>1. status[e] = "PROCESSING" /\ UNCHANGED received
    BY <1>7, SettledRow DEF Settle
  <2>2. CASE SettleSuccess(d, e)
    <3>1. received[e] > 0
      BY <2>2 DEF IInv, OutcomesAreReal, SettleSuccess
    <3>2. Abs!Move({e}, "queued", "delivered")
      BY <1>0, <2>1, <2>2, MoveStep, PhaseCases DEF SettleSuccess
    <3>. QED  BY <2>1, <3>1, <3>2 DEF Abs!AbsNext, Abs!Deliver
  <2>3. CASE SettleFatal(d, e) \/ ExhaustRetries(d, e)
    <3>1. Abs!Move({e}, "queued", "dead")
      BY <1>0, <2>1, <2>3, MoveStep, PhaseCases DEF SettleFatal, ExhaustRetries
    <3>. QED  BY <2>1, <3>1 DEF Abs!AbsNext, Abs!GiveUp
  <2>4. CASE ScheduleRetry(d, e)
    BY <1>0, <1>1, <2>1, <2>4, PhaseCases DEF ScheduleRetry
  <2>. QED  BY <1>7, <2>2, <2>3, <2>4 DEF Settle
<1>8. ASSUME NEW S \in SUBSET Events, S \subseteq DeadLetters, Requeue(S)  PROVE Abs!AbsNext
  <2>1. Abs!Move(S, "dead", "queued")
    BY <1>8, MoveStep, PhaseCases DEF Requeue, DeadLetters
  <2>. QED  BY <1>8, <2>1 DEF Requeue, Abs!AbsNext, Abs!Requeue
<1>9. CASE UNCHANGED <<status, received>>
  BY <1>1, <1>9
<1>10. ASSUME NEW e \in Events, BackoffElapses(e)  PROVE UNCHANGED <<status, received>>
  BY <1>10 DEF BackoffElapses
<1>11. ASSUME NEW d \in Dispatchers, Start(d) \/ Signal(d) \/ Exit(d) \/ Crash(d)
       PROVE  UNCHANGED <<status, received>>
  BY <1>11 DEF Start, Signal, Exit, Crash
<1>12. ASSUME NEW d \in Dispatchers, NEW e \in Events,
              \/ SendPost(d, e) \/ PostReturns(d, e) \/ PostRaises(d, e) \/ Notify(d, e)
              \/ SettleRaises(d, e)
       PROVE  UNCHANGED <<status, received>>
  BY <1>12 DEF SendPost, PostReturns, PostRaises, Notify, SettleRaises
<1>13. (UNCHANGED vars) => UNCHANGED <<status, received>>
  BY DEF vars
<1>. QED
  BY <1>2, <1>4, <1>5, <1>6, <1>7, <1>8, <1>9, <1>10, <1>11, <1>12, <1>13, NextCases

\* The outbox delivers at least once what it records as delivered, and loses
\* no event to anything but the dead letter queue: it implements OutboxAbs.
THEOREM OutboxImplementsAbs == Spec => Implements
BY InitImplements, NextImplements, InductiveInvariant, PTL DEF Spec, Implements, Abs!AbsSpec

-----------------------------------------------------------------------------
(* The outbox with a sweeper (OutboxSweeper).  A sweep takes events from   *)
(* live coroutines, so two coroutines may hold one event; ExclusiveClaim   *)
(* and what rests on it are lost.  What is kept needs none of it: the      *)
(* honesty of DELIVERED, the announcement of alerts, and that every row    *)
(* PROCESSING has a coroutine as long as no fault occurs.                  *)

SweptIInv ==
    /\ TypeOK
    /\ aged \subseteq Events
    /\ OwnedWithoutFaults
    /\ OutcomesAreReal
    /\ DeliveredWasReceived
    /\ AlertsPrecedeSettlement
    /\ AlertAnnounced

\* A step of the outbox under the sweeper is a step of the outbox, the passing
\* of time or a sweep.
LEMMA SweeperCases ==
    ASSUME [SweeperNext]_sweeperVars
    PROVE  /\ faulty' = faulty
           /\ \/ Healthy /\ UNCHANGED aged
              \/ faulty /\ Faults /\ UNCHANGED aged
              \/ UNCHANGED vars /\ aged' \subseteq aged \union Events
              \/ RecoverStuckEvents
BY DEF SweeperNext, sweeperVars, setting, vars, GrowOld, RecoverStuckEvents

\* No coroutine is owed an event at the start.
LEMMA InitSwept == SweeperInit => SweptIInv
<1>. SUFFICES ASSUME SweeperInit  PROVE SweptIInv
  OBVIOUS
<1>1. Init /\ aged = {}
  BY DEF SweeperInit
<1>2. IInv
  BY <1>1, InitIInv
<1>3. OwnedWithoutFaults
  BY <1>1 DEF Init, OwnedWithoutFaults, Orphan
<1>. QED  BY <1>1, <1>2, <1>3 DEF IInv, SweptIInv

\* The outbox keeps an owner for every row PROCESSING: a claim writes the status
\* and starts the coroutine in one step, and a coroutine ends by settling its
\* row, whoever else holds it.
LEMMA HealthyOwned ==
    ASSUME TypeOK, Healthy, \A e \in Events : ~ Orphan(e)
    PROVE  \A e \in Events : ~ Orphan(e)'
<1>. DEFINE Kept == \A e \in Events : ~ Orphan(e)'
<1>. USE DEF TypeOK, Orphan, Live, rows, tasks
<1>1. ASSUME UNCHANGED <<status, pc>>  PROVE Kept
  BY <1>1
<1>2. ASSUME NEW e \in Events, Enqueue(e)  PROVE Kept
  BY <1>2 DEF Enqueue
<1>3. ASSUME NEW d \in Dispatchers, Claim(d)  PROVE Kept
  <2>. DEFINE batch == FirstById(Eligible)
  <2>1. /\ status' = [e \in Events |-> IF e \in batch THEN "PROCESSING" ELSE status[e]]
        /\ pc' = [pc EXCEPT ![d] = [e \in Events |-> IF e \in batch THEN "queued" ELSE "idle"]]
        /\ Busy(d) = {}
    BY <1>3 DEF Claim
  <2>. HIDE DEF batch
  <2>. SUFFICES ASSUME NEW e \in Events, status'[e] = "PROCESSING"
                PROVE  \E x \in Dispatchers : pc'[x][e] # "idle"
    OBVIOUS
  <2>2. CASE e \in batch
    BY <2>1, <2>2
  <2>3. CASE e \notin batch
    <3>1. status[e] = "PROCESSING"
      BY <2>1, <2>3
    <3>2. PICK x \in Dispatchers : pc[x][e] # "idle"
      BY <3>1
    <3>3. x # d
      BY <2>1, <3>2 DEF Busy
    <3>. QED  BY <2>1, <3>2, <3>3
  <2>. QED  BY <2>2, <2>3
<1>4. ASSUME NEW d \in Dispatchers, NEW e \in Events, NEW s \in Steps \ {"idle"},
             pc' = [pc EXCEPT ![d][e] = s], UNCHANGED status
      PROVE  Kept
  BY <1>4
<1>5. ASSUME NEW d \in Dispatchers, NEW e \in Events,
             \/ SendPost(d, e) \/ PostReturns(d, e) \/ PostRaises(d, e) \/ Notify(d, e)
             \/ \E v \in Outcomes : ErpAnswers(d, e, v)
      PROVE  Kept
  <2>1. UNCHANGED status
    BY <1>5 DEF SendPost, PostReturns, PostRaises, Notify, ErpAnswers
  <2>2. PICK s \in Steps \ {"idle"} : pc' = [pc EXCEPT ![d][e] = s]
    BY <1>5 DEF SendPost, PostReturns, PostRaises, Notify, ErpAnswers, AfterPost, Steps
  <2>. QED  BY <1>4, <2>1, <2>2
<1>6. ASSUME NEW d \in Dispatchers, NEW e \in Events, Settle(d, e)  PROVE Kept
  <2>1. pc' = [pc EXCEPT ![d][e] = "idle"]
    BY <1>6 DEF Settle, Done
  <2>2. PICK s \in Statuses \ {"PROCESSING"} : status' = [status EXCEPT ![e] = s]
    BY <1>6 DEF Settle, SettleSuccess, SettleFatal, ScheduleRetry, ExhaustRetries, Statuses
  <2>. QED  BY <2>1, <2>2
<1>7. ASSUME NEW S \in SUBSET Events, Requeue(S)  PROVE Kept
  BY <1>7 DEF Requeue
<1>8. ASSUME NEW e \in Events, BackoffElapses(e) \/ ErpReceivesLate(e)  PROVE Kept
  BY <1>1, <1>8 DEF BackoffElapses, ErpReceivesLate
<1>9. ASSUME NEW d \in Dispatchers, Start(d) \/ Signal(d) \/ Exit(d)  PROVE Kept
  BY <1>1, <1>9 DEF Start, Signal, Exit
<1>10. CASE Administer
  <2>1. PICK S \in SUBSET Events : Requeue(S)
    BY <1>10, \A e \in Events : {e} \in SUBSET Events
       DEF Administer, ReplayOutboxEvent, ReplayDeadLetters
  <2>. QED  BY <1>7, <2>1
<1>. QED
  BY <1>2, <1>3, <1>5, <1>6, <1>8, <1>9, <1>10 DEF Healthy, Dispatch

\* A sweep makes rows PENDING and touches no coroutine.
LEMMA SweepKeeps == SweptIInv /\ RecoverStuckEvents => SweptIInv'
<1>. SUFFICES ASSUME SweptIInv, RecoverStuckEvents  PROVE SweptIInv'
  OBVIOUS
<1>1. /\ status' = [e \in Events |-> IF e \in Stuck THEN "PENDING" ELSE status[e]]
      /\ due' = due \union Stuck
      /\ UNCHANGED <<retryCount, proc, pc, claimed, outcome, late, attempts, received, alerted,
                     aged, swept, faulty>>
  BY DEF RecoverStuckEvents, tasks, setting
<1>2. Stuck \subseteq Events
  BY DEF Stuck, SweptIInv
<1>3. TypeOK'
  <2>1. status' \in [Events -> Statuses] /\ due' \subseteq Events
    BY <1>1, <1>2 DEF SweptIInv, TypeOK, Statuses
  <2>. QED  BY <1>1, <2>1 DEF SweptIInv, TypeOK
<1>4. OwnedWithoutFaults'
  BY <1>1 DEF SweptIInv, OwnedWithoutFaults, Orphan, Live
<1>5. OutcomesAreReal' /\ AlertsPrecedeSettlement'
  BY <1>1 DEF SweptIInv, OutcomesAreReal, AlertsPrecedeSettlement
<1>6. DeliveredWasReceived' /\ AlertAnnounced'
  BY <1>1, OutboxAssumption DEF SweptIInv, DeliveredWasReceived, AlertAnnounced
<1>. QED  BY <1>1, <1>3, <1>4, <1>5, <1>6 DEF SweptIInv

\* The invariant is inductive with a sweeper too.
LEMMA NextSwept == SweptIInv /\ [SweeperNext]_sweeperVars => SweptIInv'
<1>. SUFFICES ASSUME SweptIInv, [SweeperNext]_sweeperVars  PROVE SweptIInv'
  OBVIOUS
<1>1. ASSUME [Next]_vars, aged' \subseteq Events, OwnedWithoutFaults'  PROVE SweptIInv'
  BY <1>1, NextTypeOK, OutcomesStep, DeliveredStep, AlertsStep, AnnouncedStep DEF SweptIInv
<1>2. CASE Healthy /\ UNCHANGED aged
  <2>1. OwnedWithoutFaults'
    BY <1>2, HealthyOwned, SweeperCases DEF SweptIInv, OwnedWithoutFaults
  <2>. QED  BY <1>1, <1>2, <2>1 DEF Next, SweptIInv
<1>3. CASE faulty /\ Faults /\ UNCHANGED aged
  <2>1. OwnedWithoutFaults'
    BY <1>3, SweeperCases DEF OwnedWithoutFaults
  <2>. QED  BY <1>1, <1>3, <2>1 DEF Next, SweptIInv
<1>4. CASE UNCHANGED vars /\ aged' \subseteq aged \union Events
  <2>1. OwnedWithoutFaults'
    BY <1>4, SweeperCases DEF SweptIInv, OwnedWithoutFaults, Orphan, Live, vars
  <2>. QED  BY <1>1, <1>4, <2>1 DEF SweptIInv
<1>5. CASE RecoverStuckEvents
  BY <1>5, SweepKeeps
<1>. QED  BY <1>2, <1>3, <1>4, <1>5, SweeperCases

\* The inductive invariant of the outbox with a sweeper.
THEOREM SweptInvariant == SweeperSpec => []SweptIInv
BY InitSwept, NextSwept, PTL DEF SweeperSpec

\* Without kills and failed settlements no row PROCESSING is left without a
\* coroutine: shutdowns, retries, replays and sweeps lose none.
THEOREM OwnedWithoutFaultsHolds == SweeperSpec => []OwnedWithoutFaults
<1>1. SweptIInv => OwnedWithoutFaults
  BY DEF SweptIInv
<1>. QED  BY <1>1, SweptInvariant, PTL

\* Even when a sweep lets two dispatchers work on one event, and whatever fails,
\* nothing is recorded as DELIVERED that the ERP did not accept and every alert
\* that leaves the queue was announced.
THEOREM SweepsStayHonest == SweeperSpec => [](DeliveredWasReceived /\ AlertAnnounced)
<1>1. SweptIInv => DeliveredWasReceived /\ AlertAnnounced
  BY DEF SweptIInv
<1>. QED  BY <1>1, SweptInvariant, PTL
=============================================================================
