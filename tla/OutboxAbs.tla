----------------------------- MODULE OutboxAbs -----------------------------
(***************************************************************************)
(* What the transactional outbox promises to the ERP, without dispatchers, *)
(* HTTP or retries: an event is published once, the ERP may receive it any *)
(* number of times after that, it is recorded as delivered only if the ERP *)
(* received it, delivered is final, and only an administrator takes an     *)
(* event out of the dead letter queue.                                     *)
(***************************************************************************)
EXTENDS Naturals

CONSTANTS
    Events,     \* the outbox rows
    MaxCount    \* receptions are counted up to here

VARIABLES
    phase,      \* what the ledger side knows of each event
    received    \* how often the ERP accepted each event

absVars == <<phase, received>>

Phases == {"absent", "queued", "delivered", "dead"}

AbsTypeOK ==
    /\ phase \in [Events -> Phases]
    /\ received \in [Events -> 0..MaxCount]

AbsInit ==
    /\ phase = [e \in Events |-> "absent"]
    /\ received = [e \in Events |-> 0]

\* Move the events of S from one phase to another.
Move(S, from, to) ==
    /\ \A e \in S : phase[e] = from
    /\ phase' = [e \in Events |-> IF e \in S THEN to ELSE phase[e]]

Publish(e) == Move({e}, "absent", "queued") /\ UNCHANGED received

\* A request may still be travelling after its event was given up or settled.
Receive(e) ==
    /\ phase[e] # "absent"
    /\ received' = [received EXCEPT ![e] = IF @ < MaxCount THEN @ + 1 ELSE MaxCount]
    /\ UNCHANGED phase

Deliver(e) ==
    /\ received[e] > 0
    /\ Move({e}, "queued", "delivered")
    /\ UNCHANGED received

GiveUp(e) == Move({e}, "queued", "dead") /\ UNCHANGED received

Requeue(S) == Move(S, "dead", "queued") /\ UNCHANGED received

AbsNext ==
    \/ \E e \in Events : Publish(e) \/ Receive(e) \/ Deliver(e) \/ GiveUp(e)
    \/ \E S \in SUBSET Events : Requeue(S)

AbsSpec == AbsInit /\ [][AbsNext]_absVars
=============================================================================
