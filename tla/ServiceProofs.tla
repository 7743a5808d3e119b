---------------------------- MODULE ServiceProofs ----------------------------
(***************************************************************************)
(* Theorems about Daemon, for any number of connection attempts, and about *)
(* Service, for any number of lives of the process and any counters.  IInv *)
(* (in Daemon) is inductive for the process alone.  A step of the service  *)
(* is a step of Daemon, or the status file cannot be written; that keeps   *)
(* IInv, and the rest of ServiceIInv is about the files.                   *)
(***************************************************************************)
EXTENDS Service, TLAPS

-----------------------------------------------------------------------------
(* Daemon, by itself.                                                      *)

\* IInv holds at the start and every step keeps it.
LEMMA InitIInv == Init => IInv
<1>. SUFFICES ASSUME Init  PROVE IInv
  OBVIOUS
<1>. USE DaemonAssumption DEF Init
<1>1. TypeOK
  <2>1. stopping \in BOOLEAN
    OBVIOUS
  <2>2. attempts \in 0..(MaxAttempts - 1) /\ late \in 0..2
    BY SMT
  <2>. QED  BY <2>1, <2>2 DEF TypeOK
<1>2. SessionsAreClosed
  BY DEF SessionsAreClosed, InCycle
<1>3. AtMostOneMore /\ LateMeansLeaving
  BY DEF AtMostOneMore, LateMeansLeaving
<1>. QED  BY <1>1, <1>2, <1>3 DEF IInv

\* The invariant of the daemon is inductive.
LEMMA NextIInv == IInv /\ [Next]_vars => IInv'
<1>. SUFFICES ASSUME IInv, [Next]_vars  PROVE IInv'
  OBVIOUS
<1>. USE DaemonAssumption
     DEF IInv, TypeOK, SessionsAreClosed, AtMostOneMore, LateMeansLeaving, InCycle, Waits, Up
<1>1. CASE Boot \/ Kill
  <2>1. stopping' \in BOOLEAN
    BY <1>1 DEF Boot, Kill
  <2>2. /\ pc' \in {"loop", "down"} /\ mailbox' = "none" /\ attempts' = 0 /\ late' = 0
        /\ UNCHANGED <<outcome, reported>>
    BY <1>1 DEF Boot, Kill
  <2>. QED  BY <2>1, <2>2
<1>2. CASE Signal
  <2>1. stopping' = TRUE
    BY <1>2 DEF Signal
  <2>2. UNCHANGED <<pc, mailbox, attempts, late, outcome, reported>>
    BY <1>2 DEF Signal
  <2>. QED  BY <2>1, <2>2
<1>3. CASE BeginCycle
  <2>1. pc = "loop" /\ pc' = "connecting"
    BY <1>3 DEF BeginCycle
  <2>2. UNCHANGED <<mailbox, attempts, stopping, late, outcome, reported>>
    BY <1>3 DEF BeginCycle
  <2>. QED  BY <2>1, <2>2
<1>4. CASE Exit
  BY <1>4 DEF Exit
<1>5. CASE AttemptFails
  BY <1>5 DEF AttemptFails
<1>6. CASE AttemptSucceeds \/ TakeMessage \/ ModelReturns
  BY <1>6 DEF AttemptSucceeds, TakeMessage, ModelReturns
<1>7. CASE HandleMessage
  <2>1. late' \in 0..1
    BY <1>7 DEF HandleMessage
  <2>. QED  BY <1>7, <2>1 DEF HandleMessage
<1>8. CASE EndCycle \/ RaiseInCycle
  BY <1>8 DEF EndCycle, RaiseInCycle, LeaveCycle
<1>9. CASE WriteStatus \/ TimeIsUp
  BY <1>9 DEF WriteStatus, TimeIsUp
<1>10. CASE Poll \/ Idle \/ SleepInstead
  BY <1>10 DEF Poll, Idle, SleepInstead, WaitAs
<1>11. CASE UNCHANGED vars
  BY <1>11 DEF vars
<1>. QED
  BY <1>1, <1>2, <1>3, <1>4, <1>5, <1>6, <1>7, <1>8, <1>9, <1>10, <1>11 DEF Next, Main

-----------------------------------------------------------------------------
(* The theorems.                                                           *)

\* INBOX is open in a cycle only, and the message in hand is the last.
THEOREM InductiveInvariant == Spec => []IInv
BY InitIInv, NextIInv, PTL DEF Spec

\* The variables keep their types.
THEOREM TypeCorrect == Spec => []TypeOK
<1>1. IInv => TypeOK
  BY DEF IInv
<1>. QED  BY <1>1, InductiveInvariant, PTL

\* Sessions are closed on every way out of a cycle and of the process.
THEOREM SessionsAreClosedHolds == Spec => []SessionsAreClosed
<1>1. IInv => SessionsAreClosed
  BY DEF IInv
<1>. QED  BY <1>1, InductiveInvariant, PTL

\* After a signal at most one more message is handled.
THEOREM AtMostOneMoreHolds == Spec => []AtMostOneMore
<1>1. IInv => AtMostOneMore
  BY DEF IInv
<1>. QED  BY <1>1, InductiveInvariant, PTL

-----------------------------------------------------------------------------
(* Service.                                                                *)

\* Who runs has installed the triggers and has a number.
UpIsChecked == pc \in Up => sealed /\ life >= 1

\* The counters go from the process to the file to the reader.
Now == [life |-> life, count |-> count]
ReadersLag == NotBefore(reading, file) /\ NotBefore(file, Now)

ServiceIInv == IInv /\ ServiceTypeOK /\ EntriesAreSealed /\ UpIsChecked /\ ReadersLag

-----------------------------------------------------------------------------
(* The process.                                                            *)

\* A step of the process in its loop changes its own variables as in Daemon.
LEMMA CycleIsMain == Cycle => Main
BY DEF Cycle, Main

\* Only Boot brings up a process.
LEMMA MainStaysUp ==
    IInv /\ (Main \/ Signal \/ Kill \/ ModelReturns) => (pc' \in Up => pc \in Up)
<1>. SUFFICES ASSUME IInv, Main \/ Signal \/ Kill \/ ModelReturns
     PROVE pc' \in Up => pc \in Up
  OBVIOUS
<1>. USE DEF Up, InCycle, Waits
<1>1. CASE Signal \/ Kill \/ ModelReturns
  BY <1>1 DEF Signal, Kill, ModelReturns
<1>2. CASE BeginCycle \/ Exit \/ AttemptFails \/ AttemptSucceeds
  BY <1>2 DEF BeginCycle, Exit, AttemptFails, AttemptSucceeds
<1>3. CASE TakeMessage \/ HandleMessage \/ EndCycle \/ RaiseInCycle
  BY <1>3 DEF TakeMessage, HandleMessage, EndCycle, RaiseInCycle
<1>4. CASE WriteStatus \/ Poll \/ Idle \/ SleepInstead \/ TimeIsUp
  BY <1>4 DEF WriteStatus, Poll, Idle, SleepInstead, TimeIsUp, WaitAs
<1>. QED  BY <1>1, <1>2, <1>3, <1>4 DEF Main

\* Every step of the service keeps the invariant of Daemon.
LEMMA DaemonPart == IInv /\ [ServiceNext]_serviceVars => IInv'
<1>. SUFFICES ASSUME IInv, [ServiceNext]_serviceVars  PROVE IInv'
  OBVIOUS
<1>1. CASE [Next]_vars
  BY <1>1, NextIInv
<1>2. CASE StatusFails
  <2>1. /\ pc = "report" /\ pc' = "waiting"
        /\ UNCHANGED <<mailbox, attempts, late, outcome, reported>>
    BY <1>2 DEF StatusFails
  <2>2. UNCHANGED stopping
    BY <1>2 DEF StatusFails
  <2>3. TypeOK'
    <3>1. stopping' \in BOOLEAN
      BY <2>2 DEF IInv, TypeOK
    <3>. QED  BY <2>1, <3>1 DEF IInv, TypeOK, Up, Waits, InCycle
  <2>4. SessionsAreClosed'
    BY <2>1 DEF IInv, SessionsAreClosed, InCycle
  <2>5. AtMostOneMore' /\ LateMeansLeaving'
    <3>1. late' = late /\ stopping' = stopping /\ pc' \notin {"asking", "handling"}
      BY <2>1, <2>2
    <3>. QED  BY <3>1 DEF IInv, AtMostOneMore, LateMeansLeaving
  <2>. QED  BY <2>3, <2>4, <2>5 DEF IInv
<1>3. ServiceNext => [Next]_vars \/ StatusFails
  <2>1. Upgrade \/ Read \/ OpenTemporary => UNCHANGED vars
    BY DEF Upgrade, Read, OpenTemporary
  <2>2. BootChecked \/ Interrupt => Next
    BY DEF BootChecked, Interrupt, Next
  <2>3. MessageBecomesRow \/ MessageFails \/ ReplaceStatus \/ Cycle => Next
    BY CycleIsMain DEF MessageBecomesRow, MessageFails, ReplaceStatus, Next, Main
  <2>4. StartProcess \/ CheckIntegrity \/ CheckSchema \/ CreateTriggers \/ StartFails => UNCHANGED vars
    BY DEF StartProcess, CheckIntegrity, CheckSchema, CreateTriggers, StartFails, StartsAt
  <2>. QED  BY <2>1, <2>2, <2>3, <2>4 DEF ServiceNext, ServiceMain, Starting
<1>4. UNCHANGED serviceVars => UNCHANGED vars
  BY DEF serviceVars, vars
<1>. QED  BY <1>1, <1>2, <1>3, <1>4

-----------------------------------------------------------------------------
(* The database and the files.                                             *)

\* No process runs and no status file has been written by one.
LEMMA InitServiceIInv == ServiceInit => ServiceIInv
<1>. SUFFICES ASSUME ServiceInit  PROVE ServiceIInv
  OBVIOUS
<1>. USE ServiceAssumption
<1>1. IInv
  BY InitIInv DEF ServiceInit
<1>2. pc \notin Up /\ ~ entries
  BY DEF ServiceInit, Init, Up, InCycle, Waits
<1>3. /\ applied = 0 /\ patched \in BOOLEAN /\ sealed = FALSE /\ entries = FALSE
      /\ start = "none" /\ life = 0 /\ count = 0 /\ tmp = Missing /\ file = Missing /\ reading = Missing
  BY DEF ServiceInit
<1>4. ServiceTypeOK
  <2>1. applied \in 0..LastRevision
    BY <1>3 DEF LastRevision, Revisions
  <2>2. sealed \in BOOLEAN /\ entries \in BOOLEAN
    BY <1>3
  <2>3. life \in 0..MaxLives /\ count \in 0..MaxCount
    BY <1>3
  <2>. QED  BY <1>1, <1>3, <2>1, <2>2, <2>3 DEF IInv, ServiceTypeOK
<1>5. ReadersLag
  BY <1>3 DEF ReadersLag, NotBefore, Now, Missing
<1>. QED  BY <1>1, <1>2, <1>4, <1>5 DEF ServiceIInv, EntriesAreSealed, UpIsChecked

\* What the files can hold are two numbers each.
LEMMA FilesAreNumbers ==
    ASSUME ServiceTypeOK
    PROVE  /\ life \in Nat /\ count \in Nat
           /\ file.life \in Nat /\ file.count \in Nat
           /\ reading.life \in Nat /\ reading.count \in Nat
BY ServiceAssumption DEF ServiceTypeOK, Contents, Missing

\* The invariant of the service is inductive.
LEMMA NextServiceIInv == ServiceIInv /\ [ServiceNext]_serviceVars => ServiceIInv'
<1>. SUFFICES ASSUME ServiceIInv, [ServiceNext]_serviceVars  PROVE ServiceIInv'
  OBVIOUS
<1>1. IInv' /\ TypeOK'
  BY DaemonPart DEF ServiceIInv, IInv
<1>n. /\ life \in Nat /\ count \in Nat
      /\ file.life \in Nat /\ file.count \in Nat
      /\ reading.life \in Nat /\ reading.count \in Nat
  BY FilesAreNumbers DEF ServiceIInv
<1>. USE ServiceAssumption
<1>2. CASE Upgrade
  <2>1. /\ applied < LastRevision /\ applied' = applied + 1
        /\ UNCHANGED <<pc, patched, sealed, entries, start, life, count, tmp, file, reading>>
    BY <1>2 DEF Upgrade, vars, process, files
  <2>2. applied' \in 0..LastRevision
    BY <2>1 DEF ServiceIInv, ServiceTypeOK, LastRevision, Revisions
  <2>3. ServiceTypeOK'
    BY <1>1, <2>1, <2>2 DEF ServiceIInv, ServiceTypeOK
  <2>4. EntriesAreSealed' /\ UpIsChecked'
    BY <2>1 DEF ServiceIInv, EntriesAreSealed, UpIsChecked
  <2>5. ReadersLag'
    BY <2>1 DEF ServiceIInv, ReadersLag, NotBefore, Now
  <2>. QED  BY <1>1, <2>3, <2>4, <2>5 DEF ServiceIInv
<1>3. CASE BootChecked
  <2>1. /\ sealed' = TRUE /\ start' = "none"
        /\ life < MaxLives /\ life' = life + 1 /\ count' = 0
        /\ UNCHANGED <<applied, patched, entries, tmp, file, reading>>
    BY <1>3 DEF BootChecked, files
  <2>2. life' \in 0..MaxLives /\ count' \in 0..MaxCount
    BY <1>n, <2>1 DEF ServiceIInv, ServiceTypeOK
  <2>3. ServiceTypeOK'
    <3>1. sealed' \in BOOLEAN
      BY <2>1
    <3>. QED  BY <1>1, <2>1, <2>2, <3>1 DEF ServiceIInv, ServiceTypeOK
  <2>4. EntriesAreSealed'
    BY <2>1 DEF EntriesAreSealed
  <2>5. UpIsChecked'
    <3>1. life' >= 1
      BY <1>n, <2>1
    <3>. QED  BY <2>1, <3>1 DEF UpIsChecked
  <2>6. ReadersLag'
    <3>1. NotBefore(file, Now)'
      BY <1>n, <2>1 DEF ServiceIInv, ReadersLag, NotBefore, Now
    <3>. QED  BY <2>1, <3>1 DEF ServiceIInv, ReadersLag, NotBefore
  <2>. QED  BY <1>1, <2>3, <2>4, <2>5, <2>6 DEF ServiceIInv
<1>4. CASE \/ Cycle /\ UNCHANGED <<database, process, files, reading>>
           \/ Interrupt \/ MessageFails \/ StatusFails
  <2>1. UNCHANGED <<applied, patched, sealed, entries, start, life, count, tmp, file, reading>>
    BY <1>4 DEF Interrupt, MessageFails, StatusFails, database, process, files
  <2>2. pc' \in Up => pc \in Up
    <3>1. CASE StatusFails
      BY <3>1 DEF StatusFails, Up, InCycle, Waits
    <3>2. CASE Cycle \/ Interrupt \/ MessageFails
      <4>1. Main \/ Signal \/ Kill \/ ModelReturns
        BY <3>2, CycleIsMain DEF Interrupt, MessageFails, Main
      <4>. QED  BY <4>1, MainStaysUp DEF ServiceIInv
    <3>. QED  BY <1>4, <3>1, <3>2
  <2>3. ServiceTypeOK'
    BY <1>1, <2>1 DEF ServiceIInv, ServiceTypeOK
  <2>4. EntriesAreSealed' /\ UpIsChecked'
    BY <2>1, <2>2 DEF ServiceIInv, EntriesAreSealed, UpIsChecked
  <2>5. ReadersLag'
    BY <2>1 DEF ServiceIInv, ReadersLag, NotBefore, Now
  <2>. QED  BY <1>1, <2>3, <2>4, <2>5 DEF ServiceIInv
<1>5. CASE MessageBecomesRow
  <2>1. /\ entries' = TRUE
        /\ count' \in {count, IF count < MaxCount THEN count + 1 ELSE count}
        /\ UNCHANGED <<applied, patched, sealed, start, life, tmp, file, reading>>
    BY <1>5 DEF MessageBecomesRow, files
  <2>2. pc \in Up
    BY <1>5 DEF MessageBecomesRow, HandleMessage, Up, InCycle
  <2>3. count' \in 0..MaxCount /\ count <= count'
    BY <1>n, <2>1 DEF ServiceIInv, ServiceTypeOK
  <2>4. ServiceTypeOK'
    <3>1. entries' \in BOOLEAN
      BY <2>1
    <3>. QED  BY <1>1, <2>1, <2>3, <3>1 DEF ServiceIInv, ServiceTypeOK
  <2>5. EntriesAreSealed' /\ UpIsChecked'
    BY <2>1, <2>2 DEF ServiceIInv, EntriesAreSealed, UpIsChecked
  <2>6. ReadersLag'
    <3>1. NotBefore(file, Now)'
      BY <1>n, <2>1, <2>3 DEF ServiceIInv, ServiceTypeOK, ReadersLag, NotBefore, Now
    <3>. QED  BY <2>1, <3>1 DEF ServiceIInv, ReadersLag, NotBefore
  <2>. QED  BY <1>1, <2>4, <2>5, <2>6 DEF ServiceIInv
<1>6. CASE OpenTemporary
  <2>1. /\ tmp' = Torn
        /\ UNCHANGED <<pc, applied, patched, sealed, entries, start, life, count, file, reading>>
    BY <1>6 DEF OpenTemporary, vars, database, process
  <2>2. ServiceTypeOK'
    BY <1>1, <2>1 DEF ServiceIInv, ServiceTypeOK
  <2>3. EntriesAreSealed' /\ UpIsChecked'
    BY <2>1 DEF ServiceIInv, EntriesAreSealed, UpIsChecked
  <2>4. ReadersLag'
    BY <2>1 DEF ServiceIInv, ReadersLag, NotBefore, Now
  <2>. QED  BY <1>1, <2>2, <2>3, <2>4 DEF ServiceIInv
<1>7. CASE ReplaceStatus
  <2>1. /\ file' = Now /\ tmp' = Missing
        /\ UNCHANGED <<applied, patched, sealed, entries, start, life, count, reading>>
    BY <1>7 DEF ReplaceStatus, database, process, Now
  <2>2. pc \in Up
    BY <1>7 DEF ReplaceStatus, WriteStatus, Up
  <2>3. Now \in Contents
    <3>1. life \in 1..MaxLives
      BY <1>n, <2>2 DEF ServiceIInv, ServiceTypeOK, UpIsChecked
    <3>. QED  BY <3>1 DEF ServiceIInv, ServiceTypeOK, Contents, Now
  <2>4. ServiceTypeOK'
    BY <1>1, <2>1, <2>3 DEF ServiceIInv, ServiceTypeOK
  <2>5. EntriesAreSealed' /\ UpIsChecked'
    BY <2>1, <2>2 DEF ServiceIInv, EntriesAreSealed, UpIsChecked
  <2>6. ReadersLag'
    <3>1. NotBefore(reading, Now)
      BY <1>n DEF ServiceIInv, ReadersLag, NotBefore, Now
    <3>2. Now' = Now /\ NotBefore(Now, Now)
      BY <1>n, <2>1 DEF Now, NotBefore
    <3>. QED  BY <2>1, <3>1, <3>2 DEF ReadersLag, NotBefore
  <2>. QED  BY <1>1, <2>4, <2>5, <2>6 DEF ServiceIInv
<1>8. CASE Read
  <2>1. reading' = file
        /\ UNCHANGED <<pc, applied, patched, sealed, entries, start, life, count, tmp, file>>
    BY <1>8 DEF Read, vars, database, process, files
  <2>2. ServiceTypeOK'
    BY <1>1, <2>1 DEF ServiceIInv, ServiceTypeOK
  <2>3. EntriesAreSealed' /\ UpIsChecked'
    BY <2>1 DEF ServiceIInv, EntriesAreSealed, UpIsChecked
  <2>4. ReadersLag'
    BY <1>n, <2>1 DEF ServiceIInv, ReadersLag, NotBefore, Now
  <2>. QED  BY <1>1, <2>2, <2>3, <2>4 DEF ServiceIInv
<1>9. CASE UNCHANGED serviceVars
  <2>1. UNCHANGED <<pc, applied, patched, sealed, entries, start, life, count, tmp, file, reading>>
    BY <1>9 DEF serviceVars
  <2>2. ServiceTypeOK'
    BY <1>1, <2>1 DEF ServiceIInv, ServiceTypeOK
  <2>. QED
    BY <1>1, <2>1, <2>2
       DEF ServiceIInv, EntriesAreSealed, UpIsChecked, ReadersLag, NotBefore, Now
<1>10. CASE StartProcess \/ CheckIntegrity \/ CheckSchema \/ CreateTriggers \/ StartFails
  <2>1. /\ start' \in StartSteps \union {"none"}
        /\ UNCHANGED <<vars, database, life, count, files, reading>>
    BY <1>10 DEF StartProcess, CheckIntegrity, CheckSchema, CreateTriggers, StartFails, StartsAt,
                 StartSteps
  <2>2. UNCHANGED <<pc, applied, patched, sealed, entries, life, count, tmp, file, reading>>
    BY <2>1 DEF vars, database, files
  <2>3. ServiceTypeOK'
    BY <1>1, <2>1, <2>2 DEF ServiceIInv, ServiceTypeOK
  <2>4. EntriesAreSealed' /\ UpIsChecked'
    BY <2>2 DEF ServiceIInv, EntriesAreSealed, UpIsChecked
  <2>5. ReadersLag'
    BY <2>2 DEF ServiceIInv, ReadersLag, NotBefore, Now
  <2>. QED  BY <1>1, <2>3, <2>4, <2>5 DEF ServiceIInv
<1>. QED
  BY <1>2, <1>3, <1>4, <1>5, <1>6, <1>7, <1>8, <1>9, <1>10 DEF ServiceNext, ServiceMain, Starting

\* A reader gets what the file holds, and the file is never behind him.
LEMMA ReaderStep ==
    ServiceIInv /\ [ServiceNext]_serviceVars => [NotBefore(reading, reading')]_serviceVars
<1>. SUFFICES ASSUME ServiceIInv, ServiceNext  PROVE NotBefore(reading, reading')
  BY DEF serviceVars
<1>1. reading' = reading \/ reading' = file
  BY DEF ServiceNext, ServiceMain, Starting, StartsAt, StartProcess, CheckIntegrity, CheckSchema,
         CreateTriggers, StartFails, Upgrade, BootChecked, Interrupt, MessageBecomesRow,
         MessageFails, OpenTemporary, ReplaceStatus, StatusFails, Read
<1>2. NotBefore(reading, reading) /\ NotBefore(reading, file)
  BY FilesAreNumbers DEF ServiceIInv, ReadersLag, NotBefore
<1>. QED  BY <1>1, <1>2

-----------------------------------------------------------------------------
(* The theorems.                                                           *)

\* The inductive invariant of the service.
THEOREM ServiceInvariant == ServiceSpec => []ServiceIInv
BY InitServiceIInv, NextServiceIInv, PTL DEF ServiceSpec

\* Rows are written behind the triggers only, however often and wherever the
\* process dies and starts again (main.py:208-214, database.py:43-72).
THEOREM EntriesAreSealedHolds == ServiceSpec => []EntriesAreSealed
<1>1. ServiceIInv => EntriesAreSealed
  BY DEF ServiceIInv
<1>. QED  BY <1>1, ServiceInvariant, PTL

\* What a monitor reads goes forward, from one process to the next and through
\* every kill in the middle of a write (main.py:76-81).
THEOREM ReadingsGoForwardHolds == ServiceSpec => ReadingsGoForward
BY ServiceInvariant, ReaderStep, PTL DEF ServiceSpec, ReadingsGoForward

\* The service closes its sessions and ends after the message in hand, as Daemon
\* does, also when the status file cannot be written (main.py:193-197).
THEOREM ServiceKeepsDaemon == ServiceSpec => [](SessionsAreClosed /\ AtMostOneMore)
<1>1. ServiceIInv => SessionsAreClosed /\ AtMostOneMore
  BY DEF ServiceIInv, IInv
<1>. QED  BY <1>1, ServiceInvariant, PTL
=============================================================================
