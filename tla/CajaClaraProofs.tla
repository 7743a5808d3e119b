--------------------------- MODULE CajaClaraProofs ---------------------------
(***************************************************************************)
(* Theorems about Ingest and CajaClara, for any mailboxes, consumers and   *)
(* messages, any number of alerts and any ERP.  IInv (in Ingest) is        *)
(* inductive for the ingestion alone; the ingestion inside the system is   *)
(* that of Ingest, and IInv comes with it.  What SystemIInv adds says that *)
(* the queue holds events of booked messages, and the ERP has heard of     *)
(* events of the queue.                                                    *)
(***************************************************************************)
EXTENDS CajaClara, TLAPS

-----------------------------------------------------------------------------
(* Ingest, by itself.                                                      *)

Acks == {"ackNew", "ackOld"}

\* The actions of Next, as one disjunction to split on.
LEMMA NextCases ==
    ASSUME Next
    PROVE  \/ \E m \in Messages : Arrive(m)
           \/ \E P \in Processes : Start(P) \/ Signal(P) \/ Crash(P)
           \/ \E c \in Consumers : Exit(c) \/ Connect(c) \/ EndCycle(c) \/ FetchRaises(c)
           \/ \E c \in Consumers, m \in Messages :
                 \/ Record(c, m) \/ Reject(c, m) \/ RaisePoison(c, m) \/ RaiseDatabase(c, m)
                 \/ MarkSeen(c, m) \/ MarkSeenRaises(c, m)
BY DEF Next, Healthy, Faults, Signals, HandleNext, FlagNext

\* The status a row is inserted with is one of the three.
LEMMA StatusForTyped ==
    ASSUME NEW m \in Messages
    PROVE  StatusFor(m) \in RowStatuses /\ StatusFor(m) # "none" /\ EventsFor(m) \in Nat
BY IngestAssumption DEF StatusFor, EventsFor, RowStatuses

\* Leaving the loop and going on with it keep the types.
LEMMA MovesTyped ==
    ASSUME TypeOK, NEW c \in Consumers, NEW m \in Messages, Leave(c) \/ Skip(c, m)
    PROVE  pc' \in [Consumers -> ConsumerStates] /\ todo' \in [Consumers -> SUBSET Messages]
BY DEF TypeOK, Leave, Skip, ConsumerStates

\* Every step keeps the types.
LEMMA NextTypeOK == TypeOK /\ [Next]_vars => TypeOK'
<1>. SUFFICES ASSUME TypeOK, [Next]_vars  PROVE TypeOK'
  OBVIOUS
<1>. USE IngestAssumption DEF TypeOK, ledger
<1>1. ASSUME NEW m \in Messages, Arrive(m)  PROVE TypeOK'
  BY <1>1 DEF Arrive
<1>2. ASSUME NEW P \in Processes, Start(P) \/ Signal(P) \/ Crash(P)  PROVE TypeOK'
  <2>1. P \subseteq Consumers
    BY DEF Processes
  <2>. QED  BY <1>2, <2>1 DEF Start, Signal, Crash, ConsumerStates
<1>3. ASSUME NEW c \in Consumers, Exit(c) \/ Connect(c)  PROVE TypeOK'
  BY <1>3 DEF Exit, Connect, ConsumerStates
<1>4. ASSUME NEW c \in Consumers, EndCycle(c) \/ FetchRaises(c)  PROVE TypeOK'
  BY <1>4 DEF EndCycle, FetchRaises, Leave, ConsumerStates
<1>5. ASSUME NEW c \in Consumers, NEW m \in Messages, Record(c, m)  PROVE TypeOK'
  <2>1. pc' \in [Consumers -> ConsumerStates]
    BY <1>5 DEF Record, ConsumerStates
  <2>2. row' \in [Messages -> RowStatuses] /\ outboxRows' \in [Messages -> Nat]
    BY <1>5, StatusForTyped DEF Record
  <2>. QED  BY <1>5, <2>1, <2>2 DEF Record
<1>6. ASSUME NEW c \in Consumers, NEW m \in Messages, Reject(c, m)  PROVE TypeOK'
  BY <1>6 DEF Reject, ConsumerStates
<1>7. ASSUME NEW c \in Consumers, NEW m \in Messages,
             RaisePoison(c, m) \/ RaiseDatabase(c, m) \/ MarkSeenRaises(c, m)
      PROVE  TypeOK'
  <2>1. Leave(c) \/ Skip(c, m)
    BY <1>7 DEF RaisePoison, RaiseDatabase, MarkSeenRaises, Raise
  <2>2. UNCHANGED <<arrived, seen, ledger, stopping>>
    BY <1>7 DEF RaisePoison, RaiseDatabase, MarkSeenRaises, Raise
  <2>. QED  BY <2>1, <2>2, MovesTyped
<1>8. ASSUME NEW c \in Consumers, NEW m \in Messages, MarkSeen(c, m)  PROVE TypeOK'
  BY <1>8, MovesTyped DEF MarkSeen
<1>9. CASE UNCHANGED vars
  BY <1>9 DEF vars
<1>. QED
  BY <1>1, <1>2, <1>3, <1>4, <1>5, <1>6, <1>7, <1>8, <1>9, NextCases

\* The variables keep their types.
THEOREM TypeCorrect == Spec => []TypeOK
<1>1. Init => TypeOK
  BY DEF Init, TypeOK, RowStatuses, ConsumerStates
<1>. QED  BY <1>1, NextTypeOK, PTL DEF Spec

-----------------------------------------------------------------------------
\* Only Record writes to the database.
LEMMA LedgerSteps ==
    ASSUME [Next]_vars
    PROVE  UNCHANGED ledger \/ \E c \in Consumers, m \in Messages : Record(c, m)
<1>1. CASE UNCHANGED vars
  BY <1>1 DEF vars, ledger
<1>2. CASE Next
  <2>1. ASSUME NEW m \in Messages, Arrive(m)  PROVE UNCHANGED ledger
    BY <2>1 DEF Arrive
  <2>2. ASSUME NEW P \in Processes, Start(P) \/ Signal(P) \/ Crash(P)  PROVE UNCHANGED ledger
    BY <2>2 DEF Start, Signal, Crash
  <2>3. ASSUME NEW c \in Consumers, Exit(c) \/ Connect(c) \/ EndCycle(c) \/ FetchRaises(c)
        PROVE  UNCHANGED ledger
    BY <2>3 DEF Exit, Connect, EndCycle, FetchRaises
  <2>4. ASSUME NEW c \in Consumers, NEW m \in Messages,
               \/ Reject(c, m) \/ RaisePoison(c, m) \/ RaiseDatabase(c, m)
               \/ MarkSeen(c, m) \/ MarkSeenRaises(c, m)
        PROVE  UNCHANGED ledger
    BY <2>4 DEF Reject, RaisePoison, RaiseDatabase, Raise, MarkSeen, MarkSeenRaises
  <2>. QED  BY <1>2, <2>1, <2>2, <2>3, <2>4, NextCases
<1>. QED  BY <1>1, <1>2

\* What Record does to the rows: one row more, under a message_id that was free.
LEMMA RecordStep ==
    ASSUME TypeOK, NEW c \in Consumers, NEW m \in Messages, Record(c, m)
    PROVE  /\ ~ Recorded(m) /\ ~ IdTaken(m)
           /\ row'[m] = StatusFor(m) /\ Recorded(m)'
           /\ outboxRows'[m] = outboxRows[m] + EventsFor(m)
           /\ \A n \in Messages \ {m} : row'[n] = row[n] /\ outboxRows'[n] = outboxRows[n]
<1>1. ~ Recorded(m) /\ ~ IdTaken(m)
  BY DEF Record, IdTaken
<1>2. /\ row'[m] = StatusFor(m)
      /\ outboxRows'[m] = outboxRows[m] + EventsFor(m)
      /\ \A n \in Messages \ {m} : row'[n] = row[n] /\ outboxRows'[n] = outboxRows[n]
  BY DEF Record, TypeOK
<1>. QED  BY <1>1, <1>2, StatusForTyped DEF Recorded

\* What is on the books stays there.
LEMMA RowsStay ==
    ASSUME TypeOK, [Next]_vars, NEW n \in Messages, Recorded(n)
    PROVE  row'[n] = row[n] /\ outboxRows'[n] = outboxRows[n] /\ Recorded(n)'
<1>1. ASSUME NEW c \in Consumers, NEW m \in Messages, Record(c, m)
      PROVE  row'[n] = row[n] /\ outboxRows'[n] = outboxRows[n]
  BY <1>1, RecordStep
<1>. QED  BY <1>1, LedgerSteps DEF ledger, Recorded

\* So does a message_id.
LEMMA IdsStay ==
    ASSUME TypeOK, [Next]_vars, NEW m \in Messages, IdTaken(m)
    PROVE  IdTaken(m)'
<1>. PICK n \in Messages : Recorded(n) /\ MsgId[n] = MsgId[m]
  BY DEF IdTaken
<1>. QED  BY RowsStay DEF IdTaken

\* A consumer has a message to flag because it had it before or because the
\* transaction of this step found or took its message_id.
LEMMA AckSteps ==
    ASSUME TypeOK, [Next]_vars, NEW k \in Consumers, NEW n \in Messages,
           pc'[k] \in Acks, NextUp(k, n)'
    PROVE  (pc[k] \in Acks /\ NextUp(k, n)) \/ IdTaken(n)'
<1>. DEFINE Kept == pc'[k] = pc[k] /\ todo'[k] = todo[k]
<1>0. Kept => pc[k] \in Acks /\ NextUp(k, n)
  BY DEF NextUp
<1>. USE DEF TypeOK, Acks
<1>1. CASE UNCHANGED vars
  BY <1>0, <1>1 DEF vars
<1>2. ASSUME NEW m \in Messages, Arrive(m)  PROVE Kept
  BY <1>2 DEF Arrive
<1>3. ASSUME NEW P \in Processes, Start(P) \/ Signal(P) \/ Crash(P)  PROVE Kept
  BY <1>3 DEF Start, Signal, Crash
<1>4. ASSUME NEW c \in Consumers, Exit(c) \/ Connect(c) \/ EndCycle(c) \/ FetchRaises(c)
      PROVE  Kept
  BY <1>4 DEF Exit, Connect, EndCycle, FetchRaises, Leave
<1>5. ASSUME NEW c \in Consumers, NEW m \in Messages,
             \/ RaisePoison(c, m) \/ RaiseDatabase(c, m) \/ MarkSeen(c, m) \/ MarkSeenRaises(c, m)
      PROVE  Kept
  BY <1>5 DEF RaisePoison, RaiseDatabase, Raise, MarkSeen, MarkSeenRaises, Leave, Skip
<1>6. ASSUME NEW c \in Consumers, NEW m \in Messages, Record(c, m) \/ Reject(c, m)
      PROVE  Kept \/ IdTaken(n)'
  <2>1. CASE k # c
    BY <1>6, <2>1 DEF Record, Reject
  <2>2. CASE k = c
    <3>1. n = m
      <4>1. NextUp(k, m) /\ NextUp(k, n)
        BY <1>6, <2>2 DEF Record, Reject, Handles, NextUp
      <4>2. m <= n /\ n <= m
        BY <4>1 DEF NextUp
      <4>. QED  BY <4>2, IngestAssumption DEF Messages
    <3>2. CASE Record(c, m)
      BY <3>1, <3>2, RecordStep DEF IdTaken
    <3>3. CASE Reject(c, m)
      BY <3>1, <3>3, IdsStay DEF Reject
    <3>. QED  BY <1>6, <3>2, <3>3
  <2>. QED  BY <2>1, <2>2
<1>. QED
  BY <1>0, <1>1, <1>2, <1>3, <1>4, <1>5, <1>6, NextCases

\* Only MarkSeen flags a message, and it is the one whose turn it is.
LEMMA SeenSteps ==
    ASSUME [Next]_vars, NEW n \in seen', n \notin seen
    PROVE  \E c \in Consumers, m \in Messages :
              m = n /\ pc[c] \in Acks /\ NextUp(c, m)
<1>1. CASE UNCHANGED vars
  BY <1>1 DEF vars
<1>2. CASE Next
  <2>1. ASSUME NEW m \in Messages, Arrive(m)  PROVE UNCHANGED seen
    BY <2>1 DEF Arrive
  <2>2. ASSUME NEW P \in Processes, Start(P) \/ Signal(P) \/ Crash(P)  PROVE UNCHANGED seen
    BY <2>2 DEF Start, Signal, Crash
  <2>3. ASSUME NEW c \in Consumers, Exit(c) \/ Connect(c) \/ EndCycle(c) \/ FetchRaises(c)
        PROVE  UNCHANGED seen
    BY <2>3 DEF Exit, Connect, EndCycle, FetchRaises
  <2>4. ASSUME NEW c \in Consumers, NEW m \in Messages,
               \/ Record(c, m) \/ Reject(c, m) \/ RaisePoison(c, m) \/ RaiseDatabase(c, m)
               \/ MarkSeenRaises(c, m)
        PROVE  UNCHANGED seen
    BY <2>4 DEF Record, Reject, RaisePoison, RaiseDatabase, Raise, MarkSeenRaises
  <2>5. ASSUME NEW c \in Consumers, NEW m \in Messages, MarkSeen(c, m)
        PROVE  m = n /\ pc[c] \in Acks /\ NextUp(c, m)
    BY <2>5 DEF MarkSeen, Acks
  <2>. QED  BY <1>2, <2>1, <2>2, <2>3, <2>4, <2>5, NextCases
<1>. QED  BY <1>1, <1>2

-----------------------------------------------------------------------------
\* Rows under the same message_id are one row.
LEMMA UniqueIdsStep ==
    ASSUME TypeOK, UniqueIds, [Next]_vars
    PROVE  UniqueIds'
<1>1. ASSUME NEW c \in Consumers, NEW k \in Messages, Record(c, k)  PROVE UniqueIds'
  <2>. SUFFICES ASSUME NEW m \in Messages, NEW n \in Messages,
                       Recorded(m)', Recorded(n)', MsgId[m] = MsgId[n]
                PROVE  m = n
    BY DEF UniqueIds
  <2>1. \A i \in Messages \ {k} : Recorded(i)' => Recorded(i)
    BY <1>1, RecordStep DEF Recorded
  <2>2. \A i \in Messages : Recorded(i) => MsgId[i] # MsgId[k]
    BY <1>1, RecordStep DEF IdTaken
  <2>. QED  BY <2>1, <2>2 DEF UniqueIds
<1>2. CASE UNCHANGED ledger
  BY <1>2 DEF ledger, UniqueIds, Recorded
<1>. QED  BY <1>1, <1>2, LedgerSteps

\* What a consumer flags, and what is flagged, is in the ledger.
LEMMA AckIsRecordedStep ==
    ASSUME TypeOK, AckIsRecorded, SeenIsRecorded, [Next]_vars
    PROVE  AckIsRecorded' /\ SeenIsRecorded'
<1>1. AckIsRecorded'
  <2>. SUFFICES ASSUME NEW c \in Consumers, NEW m \in Messages, pc'[c] \in Acks, NextUp(c, m)'
                PROVE  IdTaken(m)'
    BY DEF AckIsRecorded, Acks
  <2>1. CASE pc[c] \in Acks /\ NextUp(c, m)
    BY <2>1, IdsStay DEF AckIsRecorded, Acks
  <2>. QED  BY <2>1, AckSteps
<1>2. SeenIsRecorded'
  <2>. SUFFICES ASSUME NEW m \in seen'  PROVE IdTaken(m)'
    BY DEF SeenIsRecorded, IdTaken
  <2>1. m \in Messages
    BY NextTypeOK DEF TypeOK
  <2>2. CASE m \in seen
    BY <2>1, <2>2, IdsStay DEF SeenIsRecorded, IdTaken
  <2>3. CASE m \notin seen
    BY <2>1, <2>3, SeenSteps, IdsStay DEF AckIsRecorded, Acks
  <2>. QED  BY <2>2, <2>3
<1>. QED  BY <1>1, <1>2

\* The books: one PROCESSED row per invoice, its events beside it, and an
\* original behind every duplicate.
Books == DuplicatesHaveHashes /\ OneProcessedPerInvoice /\ OutboxMatchesLedger /\ DuplicateHasOriginal

\* Recording a message keeps the books.
LEMMA RecordKeepsBooks ==
    ASSUME TypeOK, Books, NEW c \in Consumers, NEW k \in Messages, Record(c, k)
    PROVE  Books'
<1>1. /\ row[k] = "none"
      /\ row'[k] = StatusFor(k) /\ outboxRows'[k] = outboxRows[k] + EventsFor(k)
      /\ \A n \in Messages \ {k} : row'[n] = row[n] /\ outboxRows'[n] = outboxRows[n]
  BY RecordStep DEF Recorded
<1>2. StatusFor(k) = "DUPLICATE" => HashKnown(k)
  BY DEF StatusFor
<1>3. StatusFor(k) = "PROCESSED" => ~ HashKnown(k)
  BY DEF StatusFor
<1>4. DuplicatesHaveHashes'
  BY <1>1 DEF Books, DuplicatesHaveHashes, StatusFor, HashKnown
<1>5. OneProcessedPerInvoice'
  <2>. SUFFICES ASSUME NEW m \in Messages, NEW n \in Messages,
                       row'[m] = "PROCESSED", row'[n] = "PROCESSED", Hash[m] = Hash[n]
                PROVE  m = n \/ Hash[m] = NoHash
    BY DEF OneProcessedPerInvoice
  <2>1. CASE m # k /\ n # k
    BY <1>1, <2>1 DEF Books, OneProcessedPerInvoice
  <2>2. ASSUME NEW i \in Messages, i # k, row'[i] = "PROCESSED", row'[k] = "PROCESSED",
               Hash[i] = Hash[k]
        PROVE  Hash[k] = NoHash
    BY <1>1, <1>3, <2>2 DEF HashKnown
  <2>. QED  BY <2>1, <2>2
<1>6. OutboxMatchesLedger'
  <2>1. outboxRows[k] = 0
    BY <1>1 DEF Books, OutboxMatchesLedger
  <2>2. outboxRows'[k] = EventsFor(k)
    BY <1>1, <2>1, StatusForTyped
  <2>. QED  BY <1>1, <2>2 DEF Books, OutboxMatchesLedger, EventsFor
<1>7. DuplicateHasOriginal'
  <2>. SUFFICES ASSUME NEW m \in Messages, row'[m] = "DUPLICATE"
                PROVE  \E n \in Messages : row'[n] = "PROCESSED" /\ Hash[n] = Hash[m]
    BY DEF DuplicateHasOriginal
  <2>1. \E i \in Messages : row[i] = "PROCESSED" /\ Hash[i] = Hash[m]
    <3>1. CASE m # k
      BY <1>1, <3>1 DEF Books, DuplicateHasOriginal
    <3>2. CASE m = k
      <4>. PICK i \in Messages : row[i] \in {"PROCESSED", "DUPLICATE"} /\ Hash[i] = Hash[k]
        BY <1>1, <1>2, <3>2 DEF HashKnown
      <4>. QED  BY <3>2 DEF Books, DuplicateHasOriginal
    <3>. QED  BY <3>1, <3>2
  <2>. QED  BY <1>1, <2>1
<1>. QED  BY <1>4, <1>5, <1>6, <1>7 DEF Books

\* Every step does.
LEMMA BooksStep ==
    ASSUME TypeOK, Books, [Next]_vars
    PROVE  Books'
<1>1. CASE UNCHANGED ledger
  BY <1>1 DEF ledger, Books, DuplicatesHaveHashes, OneProcessedPerInvoice, OutboxMatchesLedger,
              DuplicateHasOriginal
<1>. QED  BY <1>1, RecordKeepsBooks, LedgerSteps

-----------------------------------------------------------------------------
\* Nothing has arrived, nothing is recorded.
LEMMA InitIInv == Init => IInv
<1>. SUFFICES ASSUME Init  PROVE IInv
  OBVIOUS
<1>1. TypeOK
  BY DEF Init, TypeOK, RowStatuses, ConsumerStates
<1>2. \A m \in Messages : row[m] = "none" /\ outboxRows[m] = 0
  BY DEF Init
<1>3. UniqueIds /\ AckIsRecorded /\ SeenIsRecorded
  BY <1>2 DEF Init, UniqueIds, Recorded, AckIsRecorded, SeenIsRecorded
<1>4. DuplicatesHaveHashes /\ OneProcessedPerInvoice /\ OutboxMatchesLedger /\ DuplicateHasOriginal
  BY <1>2 DEF DuplicatesHaveHashes, OneProcessedPerInvoice, OutboxMatchesLedger, DuplicateHasOriginal
<1>. QED  BY <1>1, <1>3, <1>4 DEF IInv

\* Every conjunct is kept with the help of the others.
LEMMA NextIInv == IInv /\ [Next]_vars => IInv'
<1>. SUFFICES ASSUME IInv, [Next]_vars  PROVE IInv'
  OBVIOUS
<1>1. Books
  BY DEF IInv, Books
<1>2. TypeOK' /\ UniqueIds' /\ AckIsRecorded' /\ SeenIsRecorded'
  BY NextTypeOK, UniqueIdsStep, AckIsRecordedStep DEF IInv
<1>3. Books'
  BY <1>1, BooksStep DEF IInv
<1>. QED  BY <1>2, <1>3 DEF IInv, Books

\* The conjuncts that TLC checks together as IInv are inductive.
THEOREM InductiveInvariant == Spec => []IInv
BY InitIInv, NextIInv, PTL DEF Spec

\* A message is flagged only when the ledger holds its message_id.
THEOREM SeenIsRecordedHolds == Spec => []SeenIsRecorded
BY InductiveInvariant, PTL DEF IInv

\* An attachment is registered as PROCESSED once.
THEOREM OneProcessedPerInvoiceHolds == Spec => []OneProcessedPerInvoice
BY InductiveInvariant, PTL DEF IInv

\* Ledger and outbox agree in every state: there is no dual write.
THEOREM OutboxMatchesLedgerHolds == Spec => []OutboxMatchesLedger
BY InductiveInvariant, PTL DEF IInv

\* A duplicate never displaces the original.
THEOREM DuplicateHasOriginalHolds == Spec => []DuplicateHasOriginal
BY InductiveInvariant, PTL DEF IInv

\* No step rewrites a recorded message or adds events to it.
THEOREM LedgerIsAppendOnlyHolds == Spec => LedgerIsAppendOnly
<1>1. ASSUME TypeOK, [Next]_vars
      PROVE  \A m \in Messages : Recorded(m) => row'[m] = row[m] /\ outboxRows'[m] = outboxRows[m]
  BY <1>1, RowsStay
<1>. QED  BY <1>1, TypeCorrect, PTL DEF Spec, LedgerIsAppendOnly

-----------------------------------------------------------------------------
(* The composed system.                                                    *)

\* An event that exists belongs to an invoice on the books.
QueueIsBooked == \A e \in Slots : phase[e] # "absent" => row[e[1]] = "PROCESSED"

\* What the ERP has accepted was in the queue.
HeardWasQueued == \A e \in Slots : Heard(e) => phase[e] # "absent"

\* An orphan stays where it is: neither ERP nor administrator moves it.
OrphansAreQueued == orphaned \subseteq {e \in Slots : phase[e] = "queued"}

SystemIInv == IInv /\ Queue!AbsTypeOK /\ QueueIsBooked /\ HeardWasQueued /\ OrphansAreQueued

\* An event of the queue is a pair of a message and a number; a message has a
\* first one.
LEMMA SlotsOfMessages ==
    /\ \A e \in Slots : e[1] \in Messages /\ e[2] \in Nat \ {0}
    /\ \A m \in Messages : <<m, 1>> \in Slots
<1>1. \A m \in Messages : AlertsOf[m] \in Nat
  BY IngestAssumption
<1>. QED  BY <1>1 DEF Slots, EventsOf

\* A step of the ingestion is a step of Ingest, calm or not.
LEMMA CalmSteps == [CalmNext]_calmVars => [Next]_vars
BY DEF CalmNext, TroubleEnds, Next, calmVars, vars

-----------------------------------------------------------------------------
(* The ingestion and the queue.                                            *)

\* Ledger, queue and ERP start empty.
LEMMA InitSystemIInv == SystemInit => SystemIInv
<1>. SUFFICES ASSUME SystemInit  PROVE SystemIInv
  OBVIOUS
<1>1. IInv
  BY InitIInv DEF SystemInit, CalmInit
<1>2. /\ phase = [e \in Slots |-> "absent"]
      /\ received = [e \in Slots |-> 0]
      /\ orphaned = {}
  BY DEF SystemInit, Queue!AbsInit
<1>3. Queue!AbsTypeOK
  BY <1>2, SystemAssumption DEF Queue!AbsTypeOK, Queue!Phases
<1>4. QueueIsBooked /\ HeardWasQueued /\ OrphansAreQueued
  BY <1>2 DEF QueueIsBooked, HeardWasQueued, Heard, OrphansAreQueued
<1>. QED  BY <1>1, <1>3, <1>4 DEF SystemIInv

\* Booked rows stay booked.
LEMMA BookedStays ==
    ASSUME IInv, [Next]_vars, NEW m \in Messages, row[m] = "PROCESSED"
    PROVE  row'[m] = "PROCESSED"
BY RowsStay DEF IInv, Recorded

\* Moving events of the queue keeps the types and makes none that is absent.
LEMMA MoveTyped ==
    ASSUME Queue!AbsTypeOK, NEW S \in SUBSET Slots,
           NEW from \in Queue!Phases, NEW to \in Queue!Phases \ {"absent"},
           Queue!Move(S, from, to), UNCHANGED received
    PROVE  /\ Queue!AbsTypeOK'
           /\ \A e \in Slots : phase'[e] = IF e \in S THEN to ELSE phase[e]
BY DEF Queue!AbsTypeOK, Queue!Move, Queue!Phases

\* The transaction that books an invoice is the one that queues its events.
LEMMA IngestingKeeps == SystemIInv /\ Ingesting => SystemIInv'
<1>. SUFFICES ASSUME SystemIInv, Ingesting  PROVE SystemIInv'
  OBVIOUS
<1>. DEFINE S == {e \in QueuedWithRow : phase[e] = "absent"}
<1>1. IInv' /\ [Next]_vars
  BY CalmSteps, NextIInv DEF Ingesting, SystemIInv
<1>2. S \subseteq Slots /\ Queue!Move(S, "absent", "queued") /\ UNCHANGED <<received, orphaned>>
  BY DEF Ingesting, QueuedWithRow
<1>. HIDE DEF S
<1>3. Queue!AbsTypeOK' /\ \A e \in Slots : phase'[e] = IF e \in S THEN "queued" ELSE phase[e]
  BY <1>2, MoveTyped DEF SystemIInv, Queue!Phases
<1>4. \A e \in S : row'[e[1]] = "PROCESSED"
  <2>. SUFFICES ASSUME NEW e \in S  PROVE row'[e[1]] = "PROCESSED"
    OBVIOUS
  <2>1. e \in Slots /\ e[2] <= outboxRows'[e[1]]
    BY DEF S, QueuedWithRow
  <2>2. e[1] \in Messages /\ e[2] \in Nat \ {0}
    BY <2>1, SlotsOfMessages
  <2>3. outboxRows'[e[1]] = IF row'[e[1]] = "PROCESSED" THEN 1 + AlertsOf[e[1]] ELSE 0
    BY <1>1, <2>2 DEF IInv, OutboxMatchesLedger
  <2>. QED  BY <2>1, <2>2, <2>3
<1>5. QueueIsBooked'
  <2>. SUFFICES ASSUME NEW e \in Slots, phase'[e] # "absent"  PROVE row'[e[1]] = "PROCESSED"
    BY DEF QueueIsBooked
  <2>1. CASE e \in S
    BY <1>4, <2>1
  <2>2. CASE e \notin S
    <3>1. row[e[1]] = "PROCESSED" /\ e[1] \in Messages
      BY <1>3, <2>2, SlotsOfMessages DEF SystemIInv, QueueIsBooked
    <3>. QED  BY <1>1, <3>1, BookedStays DEF SystemIInv
  <2>. QED  BY <2>1, <2>2
<1>6. HeardWasQueued'
  BY <1>2, <1>3 DEF SystemIInv, HeardWasQueued, Heard
<1>7. OrphansAreQueued'
  BY <1>2, <1>3 DEF SystemIInv, OrphansAreQueued
<1>. QED  BY <1>1, <1>3, <1>5, <1>6, <1>7 DEF SystemIInv

\* Dispatchers, ERP and administrator write nothing to the ledger, and move no
\* orphan.
LEMMA QueueKeeps ==
    ASSUME SystemIInv, UNCHANGED <<calmVars, orphaned>>,
           \/ \E e \in Slots : Queue!Receive(e)
           \/ \E e \in Slots \ orphaned : Queue!Deliver(e) \/ Queue!GiveUp(e)
           \/ \E S \in SUBSET Slots : Queue!Requeue(S)
    PROVE  SystemIInv'
<1>1. IInv' /\ row' = row
  <2>1. UNCHANGED vars
    BY DEF calmVars, vars
  <2>. QED  BY <2>1, NextIInv DEF SystemIInv, vars
<1>2. ASSUME NEW S \in SUBSET Slots, S \intersect orphaned = {},
             NEW from \in Queue!Phases \ {"absent"},
             NEW to \in Queue!Phases \ {"absent"},
             Queue!Move(S, from, to), UNCHANGED received
      PROVE  SystemIInv'
  <2>1. /\ Queue!AbsTypeOK'
        /\ \A e \in Slots : phase'[e] = IF e \in S THEN to ELSE phase[e]
    BY <1>2, MoveTyped DEF SystemIInv
  <2>2. \A e \in Slots : phase'[e] # "absent" <=> phase[e] # "absent"
    BY <1>2, <2>1 DEF Queue!Move
  <2>3. QueueIsBooked' /\ HeardWasQueued'
    BY <1>1, <1>2, <2>2 DEF SystemIInv, QueueIsBooked, HeardWasQueued, Heard
  <2>4. OrphansAreQueued'
    BY <1>2, <2>1 DEF SystemIInv, OrphansAreQueued
  <2>. QED  BY <1>1, <2>1, <2>3, <2>4 DEF SystemIInv
<1>3. ASSUME NEW e \in Slots, Queue!Receive(e)  PROVE SystemIInv'
  <2>1. /\ phase[e] # "absent" /\ phase' = phase
        /\ received' = [received EXCEPT ![e] = IF @ < MaxCount THEN @ + 1 ELSE MaxCount]
    BY <1>3 DEF Queue!Receive
  <2>2. received' \in [Slots -> 0..MaxCount]
    BY <2>1, SystemAssumption DEF SystemIInv, Queue!AbsTypeOK
  <2>3. Queue!AbsTypeOK'
    BY <2>1, <2>2 DEF SystemIInv, Queue!AbsTypeOK
  <2>4. \A f \in Slots \ {e} : received'[f] = received[f]
    BY <2>1 DEF SystemIInv, Queue!AbsTypeOK
  <2>5. QueueIsBooked' /\ HeardWasQueued'
    BY <1>1, <2>1, <2>4 DEF SystemIInv, QueueIsBooked, HeardWasQueued, Heard
  <2>6. OrphansAreQueued'
    BY <2>1 DEF SystemIInv, OrphansAreQueued
  <2>. QED  BY <1>1, <2>3, <2>5, <2>6 DEF SystemIInv
<1>4. ASSUME NEW e \in Slots \ orphaned, Queue!Deliver(e) \/ Queue!GiveUp(e)
      PROVE  SystemIInv'
  BY <1>2, <1>4 DEF Queue!Deliver, Queue!GiveUp, Queue!Phases
<1>5. ASSUME NEW S \in SUBSET Slots, Queue!Requeue(S)  PROVE SystemIInv'
  <2>1. S \intersect orphaned = {}
    BY <1>5 DEF SystemIInv, OrphansAreQueued, Queue!Requeue, Queue!Move
  <2>. QED  BY <1>2, <1>5, <2>1 DEF Queue!Requeue, Queue!Phases
<1>. QED  BY <1>3, <1>4, <1>5

\* A dead coroutine leaves ledger, queue and ERP as they are.
LEMMA OrphaningKeeps ==
    ASSUME SystemIInv, NEW e \in Slots, Orphan(e)
    PROVE  SystemIInv'
<1>1. UNCHANGED vars /\ UNCHANGED <<phase, received>>
  BY DEF Orphan, calmVars, vars
<1>2. IInv' /\ row' = row
  BY <1>1, NextIInv DEF SystemIInv, vars
<1>3. OrphansAreQueued'
  BY DEF SystemIInv, OrphansAreQueued, Orphan
<1>. QED
  BY <1>1, <1>2, <1>3 DEF SystemIInv, Queue!AbsTypeOK, QueueIsBooked, HeardWasQueued, Heard

\* The invariant of the composed system is inductive: either half steps and the
\* other stays.
LEMMA NextSystemIInv == SystemIInv /\ [SystemNext]_systemVars => SystemIInv'
<1>. SUFFICES ASSUME SystemIInv, [SystemNext]_systemVars  PROVE SystemIInv'
  OBVIOUS
<1>1. CASE Ingesting
  BY <1>1, IngestingKeeps
<1>2. CASE Dispatching \/ (\E e \in Slots : Settle(e)) \/ Replaying
  BY <1>2, QueueKeeps DEF Dispatching, Settle, Replaying
<1>3. CASE \E e \in Slots : Orphan(e)
  BY <1>3, OrphaningKeeps
<1>4. CASE UNCHANGED systemVars
  <2>1. UNCHANGED vars /\ UNCHANGED <<phase, received, orphaned>>
    BY <1>4 DEF systemVars, calmVars, vars
  <2>2. IInv' /\ row' = row
    BY <2>1, NextIInv DEF SystemIInv, vars
  <2>. QED
    BY <2>1, <2>2
       DEF SystemIInv, Queue!AbsTypeOK, QueueIsBooked, HeardWasQueued, Heard, OrphansAreQueued
<1>. QED  BY <1>1, <1>2, <1>3, <1>4 DEF SystemNext

-----------------------------------------------------------------------------
(* The theorems.                                                           *)

\* Ledger and queue agree in every state of the composed system.
THEOREM SystemInvariant == SystemSpec => []SystemIInv
BY InitSystemIInv, NextSystemIInv, PTL DEF SystemSpec

\* The ERP hears of booked invoices only and of no attachment under two messages,
\* whatever crashes, is lost, comes again or is replayed between the mailboxes
\* and the ERP (main.py:121-157, mailbox_pool.py:121-176, dispatcher.py:175-212).
THEOREM ErpMatchesLedgerHolds == SystemSpec => []ErpMatchesLedger
<1>1. SystemIInv => ErpMatchesLedger
  <2>. SUFFICES ASSUME SystemIInv  PROVE ErpMatchesLedger
    OBVIOUS
  <2>1. \A e \in Slots : Heard(e) => row[e[1]] = "PROCESSED"
    BY DEF SystemIInv, QueueIsBooked, HeardWasQueued
  <2>2. ASSUME NEW m \in Messages, NEW n \in Messages,
               m # n, Hash[m] = Hash[n], Hash[m] # NoHash,
               Heard(<<m, 1>>), Heard(<<n, 1>>)
        PROVE  FALSE
    <3>1. row[m] = "PROCESSED" /\ row[n] = "PROCESSED"
      BY <2>1, <2>2, SlotsOfMessages
    <3>. QED  BY <2>2, <3>1 DEF SystemIInv, IInv, OneProcessedPerInvoice
  <2>. QED  BY <2>1, <2>2 DEF ErpMatchesLedger
<1>. QED  BY <1>1, SystemInvariant, PTL
=============================================================================
