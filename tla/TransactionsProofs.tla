------------------------- MODULE TransactionsProofs -------------------------
(***************************************************************************)
(* Theorems about Transactions, for any events and clients: BEGIN          *)
(* IMMEDIATE makes the transactions of the outbox atomic.  IInv (in        *)
(* Transactions) is the inductive invariant.                               *)
(***************************************************************************)
EXTENDS Transactions, TLAPS

\* Every step keeps the types.
LEMMA NextTypeOK == TypeOK /\ [Next]_vars => TypeOK'
<1>. SUFFICES ASSUME TypeOK, [Next]_vars  PROVE TypeOK'
  OBVIOUS
<1>. USE DEF TypeOK, rows, Goto, Release
<1>1. ASSUME NEW c \in Clients, Ask(c) \/ Acquire(c)  PROVE TypeOK'
  BY <1>1 DEF Ask, Acquire
<1>2. ASSUME NEW c \in Clients, TimeOut(c) \/ Crash(c)  PROVE TypeOK'
  <2>1. status' = status /\ holder' \in [Events -> Dispatchers \union {Nobody}]
    BY <1>2 DEF TimeOut, Crash, Abandon
  <2>2. answer' \in [Requests -> {"none", "500"}]
    BY <1>2 DEF TimeOut, Crash, Respond
  <2>3. Release(c)
    BY <1>2 DEF TimeOut, Crash
  <2>. QED  BY <2>1, <2>2, <2>3
<1>3. ASSUME NEW c \in Clients, EndWithoutWriting(c)  PROVE TypeOK'
  BY <1>3 DEF EndWithoutWriting
<1>4. ASSUME NEW r \in Requests, BeginAgain(r)  PROVE TypeOK'
  <2>1. r \in Clients
    BY DEF Clients
  <2>. QED  BY <1>4, <2>1 DEF BeginAgain, Respond
<1>5. ASSUME NEW c \in Clients, NEW S \in SUBSET Events, ReadInto(c, S)  PROVE TypeOK'
  BY <1>5 DEF ReadInto
<1>6. ASSUME NEW c \in Clients, NEW s \in Statuses, NEW h \in Dispatchers \union {Nobody},
             Overwrite(view[c], s, h), Release(c), UNCHANGED answer
      PROVE  TypeOK'
  BY <1>6 DEF Overwrite
<1>7. ASSUME NEW d \in Dispatchers, Dispatch(d)  PROVE TypeOK'
  <2>1. d \in Clients
    BY DEF Clients
  <2>2. ASSUME ReadToClaim(d) \/ \E e \in Events : ReadToSettle(d, e)  PROVE TypeOK'
    BY <1>5, <2>1, <2>2 DEF ReadToClaim, ReadToSettle, Pending
  <2>3. CASE CommitClaim(d)
    BY <1>6, <2>1, <2>3 DEF CommitClaim, Statuses
  <2>4. ASSUME NEW s \in {"DELIVERED", "DEAD_LETTER", "PENDING"}, CommitSettlement(d, s)
        PROVE  TypeOK'
    BY <1>6, <2>1, <2>4 DEF CommitSettlement, Statuses
  <2>. QED  BY <1>7, <2>2, <2>3, <2>4 DEF Dispatch
<1>8. ASSUME NEW a \in Admins, Administer(a)  PROVE TypeOK'
  <2>1. a \in Clients
    BY DEF Clients
  <2>2. ASSUME NEW S \in SUBSET Events, ReadToReplay(a, S)  PROVE TypeOK'
    BY <1>5, <2>1, <2>2 DEF ReadToReplay
  <2>3. CASE CommitReplay(a)
    BY <1>6, <2>1, <2>3 DEF CommitReplay, Statuses
  <2>. QED  BY <1>8, <2>2, <2>3 DEF Administer
<1>9. CASE UNCHANGED vars
  BY <1>9 DEF vars
<1>. QED
  BY <1>1, <1>2, <1>3, <1>4, <1>7, <1>8, <1>9 DEF Next

\* What a step does to the transaction of one client c, when another client
\* or c itself moves.
Moves(c) ==
    \/ Ask(c) \/ Acquire(c) \/ TimeOut(c) \/ Crash(c) \/ EndWithoutWriting(c)
    \/ c \in Dispatchers /\ Dispatch(c)
    \/ c \in Admins /\ Administer(c)
    \/ c \in Requests /\ BeginAgain(c)

\* Every step is a step of one client.
LEMMA NextCases == Next => \E c \in Clients : Moves(c)
BY DEF Next, Moves, Clients

\* A client moves nobody's transaction but its own.
LEMMA OthersStay ==
    ASSUME TypeOK, NEW c \in Clients, Moves(c), NEW k \in Clients, k # c
    PROVE  pc'[k] = pc[k] /\ view'[k] = view[k]
BY DEF TypeOK, Moves, Ask, Acquire, TimeOut, Crash, EndWithoutWriting, Dispatch, Administer,
       BeginAgain, ReadToClaim, ReadToSettle, ReadToReplay, ReadInto, CommitClaim,
       CommitSettlement, CommitReplay, Release, Goto

\* The lock and the open transactions go together.
LEMMA OneTransactionStep ==
    ASSUME TypeOK, OneTransaction, NEW c \in Clients, Moves(c)
    PROVE  OneTransaction'
<1>. USE TransactionsAssumption DEF TypeOK, OneTransaction
<1>1. CASE Ask(c) \/ Acquire(c)
  BY <1>1, OthersStay DEF Ask, Acquire, Goto
<1>2. CASE Release(c)
  BY <1>2, OthersStay DEF Release, Goto
<1>3. ASSUME NEW S, ReadInto(c, S)  PROVE OneTransaction'
  BY <1>3, OthersStay DEF ReadInto, Goto
<1>. QED
  BY <1>1, <1>2, <1>3 DEF Moves, TimeOut, Crash, EndWithoutWriting, Dispatch, Administer,
     BeginAgain, ReadToClaim, ReadToSettle, ReadToReplay, CommitClaim, CommitSettlement,
     CommitReplay

\* While a client k has read its rows, a step of another client c leaves the
\* statuses alone and takes nothing from k.
LEMMA RowsStay ==
    ASSUME TypeOK, OneTransaction, NEW c \in Clients, Moves(c),
           NEW k \in Clients, k # c, pc[k] = "read"
    PROVE  status' = status /\ Held(k)' = Held(k)
<1>. USE TransactionsAssumption DEF TypeOK, Held
<1>1. pc[c] \notin {"begun", "read"}
  BY DEF OneTransaction
<1>2. Ask(c) \/ Acquire(c) \/ TimeOut(c) \/ Crash(c)
  BY <1>1 DEF Moves, EndWithoutWriting, Dispatch, Administer, BeginAgain, ReadToClaim,
     ReadToSettle, ReadToReplay, ReadInto, CommitClaim, CommitSettlement, CommitReplay
<1>3. ASSUME NEW S \in SUBSET Events, \A e \in S : holder[e] = c, Abandon(S)
      PROVE  status' = status /\ Held(k)' = Held(k)
  BY <1>3 DEF Abandon, Clients
<1>4. CASE UNCHANGED rows
  BY <1>4 DEF rows
<1>5. CASE TimeOut(c)
  BY <1>3, <1>4, <1>5 DEF TimeOut
<1>6. CASE Crash(c)
  BY <1>3, <1>6 DEF Crash
<1>. QED  BY <1>2, <1>4, <1>5, <1>6 DEF Ask, Acquire

\* A client has read rows only in the step that puts them in its view.
LEMMA FreshRead ==
    ASSUME TypeOK, NEW c \in Clients, Moves(c), pc'[c] = "read"
    PROVE  /\ UNCHANGED rows
           /\ \/ c \in Dispatchers /\ Held(c) = {} /\ view'[c] = Pending
              \/ c \in Dispatchers /\ \E e \in Held(c) : view'[c] = {e}
              \/ c \in Admins /\ view'[c] \subseteq DeadLetters
<1>. USE DEF TypeOK
<1>1. ~ Release(c)
  BY DEF Release, Goto
<1>2. ~ Goto(c, "asking") /\ ~ Goto(c, "begun")
  BY DEF Goto
<1>3. \/ c \in Dispatchers /\ (ReadToClaim(c) \/ \E e \in Events : ReadToSettle(c, e))
      \/ c \in Admins /\ \E S \in SUBSET Events : ReadToReplay(c, S)
  BY <1>1, <1>2 DEF Moves, Ask, Acquire, TimeOut, Crash, EndWithoutWriting, Dispatch,
     Administer, BeginAgain, CommitClaim, CommitSettlement, CommitReplay
<1>. QED
  BY <1>3 DEF ReadToClaim, ReadToSettle, ReadToReplay, ReadInto, Held, rows

\* What a transaction has read is still so when it writes.
LEMMA NoStaleWriteStep ==
    ASSUME IInv, NEW c \in Clients, Moves(c)
    PROVE  NoStaleWrite'
<1>. USE DEF IInv
<1>1. ASSUME NEW k \in Clients, k # c, pc'[k] = "read"
      PROVE  pc[k] = "read" /\ view'[k] = view[k] /\ status' = status /\ Held(k)' = Held(k)
  <2>1. pc[k] = "read" /\ view'[k] = view[k]
    BY <1>1, OthersStay
  <2>. QED  BY <1>1, <2>1, RowsStay
<1>2. ASSUME NEW d \in Dispatchers, pc'[d] = "read"
      PROVE  (\/ Held(d) = {} /\ view[d] = Pending
              \/ \E e \in Held(d) : view[d] = {e} /\ status[e] = "PROCESSING")'
  <2>0. d \in Clients /\ d # Nobody /\ d \notin Admins
    BY TransactionsAssumption DEF Clients
  <2>1. CASE d # c
    BY <1>1, <1>2, <2>0, <2>1 DEF NoStaleWrite, Pending
  <2>2. CASE d = c
    <3>1. UNCHANGED rows
      BY <1>2, <2>2, FreshRead
    <3>2. Held(d)' = Held(d) /\ Pending' = Pending /\ status' = status
      BY <3>1 DEF rows, Held, Pending
    <3>3. \A e \in Held(d) : e \in Events /\ status[e] = "PROCESSING"
      BY <2>0 DEF Held, HeldIsProcessing
    <3>4. \/ Held(d) = {} /\ view'[d] = Pending
          \/ \E e \in Held(d) : view'[d] = {e}
      BY <1>2, <2>0, <2>2, FreshRead
    <3>. QED  BY <3>2, <3>3, <3>4
  <2>. QED  BY <2>1, <2>2
<1>3. ASSUME NEW a \in Admins, pc'[a] = "read"
      PROVE  (view[a] \subseteq DeadLetters)'
  <2>0. a \in Clients /\ a \notin Dispatchers
    BY TransactionsAssumption DEF Clients
  <2>1. CASE a # c
    BY <1>1, <1>3, <2>0, <2>1 DEF NoStaleWrite, DeadLetters
  <2>2. CASE a = c
    BY <1>3, <2>0, <2>2, FreshRead DEF rows, DeadLetters
  <2>. QED  BY <2>1, <2>2
<1>. QED  BY <1>2, <1>3 DEF NoStaleWrite

\* A step of the rows is one of those the abstract outbox has, or none.
LEMMA StepIsAtomic ==
    ASSUME IInv, NEW c \in Clients, Moves(c)
    PROVE  Atomic!AtomicNext \/ UNCHANGED rows
<1>. USE DEF IInv, Atomic!AtomicNext
<1>1. ASSUME NEW S \in SUBSET Events, Abandon(S)  PROVE Atomic!AtomicNext
  BY <1>1 DEF Abandon, Atomic!Abandon
<1>2. CASE TimeOut(c)
  BY <1>1, <1>2 DEF TimeOut, Held
<1>3. CASE Crash(c)
  BY <1>1, <1>3 DEF Crash, Held
<1>4. ASSUME c \in Dispatchers, CommitClaim(c)  PROVE Atomic!AtomicNext
  <2>1. view[c] = Pending
    BY <1>4 DEF CommitClaim, NoStaleWrite
  <2>2. Atomic!Claim(c)
    BY <1>4, <2>1 DEF CommitClaim, Overwrite, Atomic!Claim, Atomic!Overwrite, Held, Pending
  <2>. QED  BY <1>4, <2>2
<1>5. ASSUME c \in Dispatchers, NEW s \in {"DELIVERED", "DEAD_LETTER", "PENDING"},
             CommitSettlement(c, s)
      PROVE  Atomic!AtomicNext
  <2>1. PICK e \in Held(c) : view[c] = {e} /\ status[e] = "PROCESSING"
    BY <1>5 DEF CommitSettlement, NoStaleWrite
  <2>2. e \in Events /\ holder[e] = c
    BY <2>1 DEF Held
  <2>3. Atomic!Overwrite({e}, s, Nobody)
    BY <1>5, <2>1 DEF CommitSettlement, Overwrite, Atomic!Overwrite
  <2>4. Atomic!Settle(c, e)
    BY <2>1, <2>2, <2>3 DEF Atomic!Settle
  <2>. QED  BY <1>5, <2>2, <2>4
<1>6. ASSUME c \in Admins, CommitReplay(c)  PROVE Atomic!AtomicNext
  <2>1. view[c] \in SUBSET Events /\ \A e \in view[c] : status[e] = "DEAD_LETTER"
    BY <1>6 DEF CommitReplay, NoStaleWrite, DeadLetters
  <2>2. \A e \in view[c] : holder[e] = Nobody
    BY <2>1 DEF HeldIsProcessing
  <2>3. Atomic!Replay(view[c])
    BY <1>6, <2>1, <2>2 DEF CommitReplay, Overwrite, Atomic!Overwrite, Atomic!Replay
  <2>. QED  BY <2>1, <2>3
<1>. QED
  BY <1>2, <1>3, <1>4, <1>5, <1>6 DEF Moves, Ask, Acquire, EndWithoutWriting, Dispatch,
     Administer, BeginAgain, ReadToClaim, ReadToSettle, ReadToReplay, ReadInto, rows

\* Only events in PROCESSING are held, whatever the abstract outbox does.
LEMMA HeldIsProcessingStep ==
    ASSUME IInv, NEW c \in Clients, Moves(c)
    PROVE  HeldIsProcessing'
<1>. USE DEF IInv, HeldIsProcessing
<1>1. CASE UNCHANGED rows
  BY <1>1 DEF rows
<1>2. CASE Atomic!AtomicNext
  <2>1. ASSUME NEW d \in Dispatchers, Atomic!Claim(d)  PROVE HeldIsProcessing'
    BY <2>1 DEF Atomic!Claim, Atomic!Overwrite
  <2>2. ASSUME NEW d \in Dispatchers, NEW e \in Events, Atomic!Settle(d, e)
        PROVE  HeldIsProcessing'
    BY <2>2 DEF Atomic!Settle, Atomic!Overwrite
  <2>3. ASSUME NEW S \in SUBSET Events, Atomic!Replay(S) \/ Atomic!Abandon(S)
        PROVE  HeldIsProcessing'
    BY <2>3 DEF Atomic!Replay, Atomic!Abandon, Atomic!Overwrite
  <2>. QED  BY <1>2, <2>1, <2>2, <2>3 DEF Atomic!AtomicNext
<1>. QED  BY <1>1, <1>2, StepIsAtomic

\* IInv holds at the start and every step keeps it.
LEMMA InitIInv == Init => IInv
BY TransactionsAssumption
   DEF Init, IInv, TypeOK, OneTransaction, HeldIsProcessing, NoStaleWrite, Statuses, Clients

\* The invariant of the transactions is inductive.
LEMMA NextIInv == IInv /\ [Next]_vars => IInv'
<1>. SUFFICES ASSUME IInv, [Next]_vars  PROVE IInv'
  OBVIOUS
<1>1. TypeOK'
  BY NextTypeOK DEF IInv
<1>2. CASE Next
  <2>1. PICK c \in Clients : Moves(c)
    BY <1>2, NextCases
  <2>2. OneTransaction' /\ HeldIsProcessing' /\ NoStaleWrite'
    BY <2>1, OneTransactionStep, HeldIsProcessingStep, NoStaleWriteStep DEF IInv
  <2>. QED  BY <1>1, <2>2 DEF IInv
<1>3. CASE UNCHANGED vars
  BY <1>1, <1>3 DEF vars, IInv, OneTransaction, HeldIsProcessing, NoStaleWrite, Held, Pending,
     DeadLetters
<1>. QED  BY <1>2, <1>3

-----------------------------------------------------------------------------
(* The theorems.                                                           *)

\* Open transactions exclude one another, only claimed events are in flight and
\* no transaction writes from a row that has changed since it read it.
THEOREM InductiveInvariant == Spec => []IInv
BY InitIInv, NextIInv, PTL DEF Spec

\* The variables keep their types.
THEOREM TypeCorrect == Spec => []TypeOK
<1>1. IInv => TypeOK
  BY DEF IInv
<1>. QED  BY <1>1, InductiveInvariant, PTL

\* Nothing is overwritten that changed after it was read (database.py:37-40).
THEOREM NoStaleWriteHolds == Spec => []NoStaleWrite
<1>1. IInv => NoStaleWrite
  BY DEF IInv
<1>. QED  BY <1>1, InductiveInvariant, PTL

\* Sessions of several statements implement the outbox whose claims, settlements
\* and replays are single steps.
THEOREM TransactionsImplementAtomic == Spec => Implements
<1>1. Init => Atomic!AtomicInit
  BY DEF Init, Atomic!AtomicInit
<1>2. IInv /\ [Next]_vars => [Atomic!AtomicNext]_(Atomic!atomicVars)
  <2>. SUFFICES ASSUME IInv, [Next]_vars  PROVE [Atomic!AtomicNext]_(Atomic!atomicVars)
    OBVIOUS
  <2>1. CASE Next
    BY <2>1, NextCases, StepIsAtomic DEF rows, Atomic!atomicVars
  <2>2. CASE UNCHANGED vars
    BY <2>2 DEF vars, rows, Atomic!atomicVars
  <2>. QED  BY <2>1, <2>2
<1>. QED
  BY <1>1, <1>2, InductiveInvariant, PTL DEF Spec, Implements, Atomic!AtomicSpec
=============================================================================
