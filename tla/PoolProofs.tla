----------------------------- MODULE PoolProofs -----------------------------
(***************************************************************************)
(* Theorems about Pool, for any number of mailboxes with healthy or flaky  *)
(* servers and any account_ids.  The two invariants are inductive together *)
(* with the types: who writes has the lock, so that a worker that is given *)
(* the lock finds nobody writing.                                          *)
(***************************************************************************)
EXTENDS Pool, TLAPS

IInv == TypeOK /\ NoLockOnNetwork /\ StatusIsTrue

\* No worker runs and the lock is free.
LEMMA InitIInv == Init => IInv
<1>. SUFFICES ASSUME Init  PROVE IInv
  OBVIOUS
<1>. USE PoolAssumption DEF Init
<1>1. shutdown \in BOOLEAN
  OBVIOUS
<1>2. TypeOK
  BY <1>1 DEF TypeOK, Steps, InCycle, Network, States
<1>3. NoLockOnNetwork /\ StatusIsTrue
  BY DEF NoLockOnNetwork, StatusIsTrue
<1>. QED  BY <1>2, <1>3 DEF IInv

-----------------------------------------------------------------------------
(* The steps.                                                              *)

\* Steps of the orchestrator move a thread at its start only.
LEMMA OrchestrateIInv == IInv /\ (Orchestrate \/ Stop) => IInv'
<1>. SUFFICES ASSUME IInv, Orchestrate \/ Stop  PROVE IInv'
  OBVIOUS
<1>. USE PoolAssumption
     DEF IInv, TypeOK, NoLockOnNetwork, StatusIsTrue, Steps, InCycle, Network, States
<1>1. ASSUME NEW w \in Workers, StartWorker(w)  PROVE IInv'
  BY <1>1 DEF StartWorker, Goto
<1>2. ASSUME NEW w \in Workers, Join(w)  PROVE IInv'
  BY <1>2 DEF Join
<1>3. CASE Started \/ Return
  BY <1>3 DEF Started, Return
<1>4. CASE Stop
  BY <1>4 DEF Stop
<1>. QED  BY <1>1, <1>2, <1>3, <1>4 DEF Orchestrate

\* What every exception does, at a point where the lock is held exactly by
\* who writes.
LEMMA RaiseIInv ==
    ASSUME IInv, NEW w \in Workers, pc[w] \in InCycle, Raise(w)
    PROVE  IInv'
<1>. USE PoolAssumption DEF IInv, TypeOK, Steps, InCycle, Network, States
<1>. DEFINE failed == IF errors[w] + 1 < 5 THEN "DEGRADED" ELSE "SUSPENDED"
<1>1. /\ pc' = [pc EXCEPT ![w] = "backoff"]
      /\ state' = [state EXCEPT ![w] = failed]
      /\ errors' = [errors EXCEPT ![w] = IF @ < MaxErrors THEN @ + 1 ELSE @]
      /\ lock' = IF lock = w THEN Nobody ELSE lock
      /\ UNCHANGED <<shutdown, main, workers, joined>>
  BY DEF Raise, Goto, Become
<1>. HIDE DEF failed
<1>2. failed \in {"DEGRADED", "SUSPENDED"} /\ (failed = "SUSPENDED" => errors'[w] >= 5)
  <2>1. errors[w] \in Nat /\ errors'[w] = IF errors[w] < MaxErrors THEN errors[w] + 1 ELSE errors[w]
    BY <1>1
  <2>. QED  BY <2>1 DEF failed
<1>3. TypeOK'
  BY <1>1, <1>2
<1>4. NoLockOnNetwork'
  BY <1>1 DEF NoLockOnNetwork
<1>5. StatusIsTrue'
  BY <1>1, <1>2 DEF StatusIsTrue
<1>. QED  BY <1>3, <1>4, <1>5

\* What a worker does by itself, when it is answered, and when something fails.
LEMMA WorkerIInv ==
    ASSUME IInv, NEW w \in Workers,
           \/ Local(w) \/ Answered(w)
           \/ NetworkFails(w) \/ MessageFails(w) \/ LockTimesOut(w)
    PROVE  IInv'
<1>1. CASE NetworkFails(w) \/ MessageFails(w) \/ LockTimesOut(w)
  <2>1. pc[w] \in InCycle /\ Raise(w)
    BY <1>1 DEF NetworkFails, MessageFails, LockTimesOut, InCycle, Network
  <2>. QED  BY <2>1, RaiseIInv
<1>. USE PoolAssumption
     DEF IInv, TypeOK, NoLockOnNetwork, StatusIsTrue, Steps, InCycle, Network, States,
         Goto, Become
<1>2. CASE BeginCycle(w) \/ Backoff(w)
  BY <1>2 DEF BeginCycle, Backoff
<1>3. CASE Begin(w)
  BY <1>3 DEF Begin
<1>4. CASE Commit(w)
  BY <1>4 DEF Commit
<1>5. CASE End(w)
  BY <1>5 DEF End
<1>6. CASE Connect(w) \/ EndCycle(w)
  BY <1>6 DEF Connect, EndCycle
<1>7. CASE Fetch(w) \/ Parse(w) \/ Flag(w)
  BY <1>7 DEF Fetch, Parse, Flag
<1>. QED  BY <1>1, <1>2, <1>3, <1>4, <1>5, <1>6, <1>7 DEF Local, Answered

\* The invariant of the pool is inductive.
LEMMA NextIInv == IInv /\ [Next]_vars => IInv'
<1>. SUFFICES ASSUME IInv, [Next]_vars  PROVE IInv'
  OBVIOUS
<1>1. CASE Orchestrate \/ Stop
  BY <1>1, OrchestrateIInv
<1>2. ASSUME NEW w \in Workers,
             Local(w) \/ Answered(w) \/ MessageFails(w) \/ LockTimesOut(w) \/ NetworkFails(w)
      PROVE  IInv'
  BY <1>2, WorkerIInv
<1>3. CASE UNCHANGED vars
  BY <1>3 DEF vars, IInv, TypeOK, NoLockOnNetwork, StatusIsTrue
<1>. QED  BY <1>1, <1>2, <1>3, PoolAssumption DEF Next

-----------------------------------------------------------------------------
(* The theorems.                                                           *)

\* Types, lock and states agree in every reachable state of the pool.
THEOREM InductiveInvariant == Spec => []IInv
BY InitIInv, NextIInv, PTL DEF Spec

\* "CERO LOCK DE BD" (mailbox_pool.py:113): no worker waits for a network with the
\* write lock, however many mailboxes there are and whatever their servers do.
THEOREM NoLockOnNetworkHolds == Spec => []NoLockOnNetwork
<1>1. IInv => NoLockOnNetwork
  BY DEF IInv
<1>. QED  BY <1>1, InductiveInvariant, PTL

\* The reported states of the workers are true (mailbox_pool.py:66-97).
THEOREM StatusIsTrueHolds == Spec => []StatusIsTrue
<1>1. IInv => StatusIsTrue
  BY DEF IInv
<1>. QED  BY <1>1, InductiveInvariant, PTL
=============================================================================
