------------------------------ MODULE MCOutbox ------------------------------
(* Instances of Outbox for TLC. *)
EXTENDS Outbox, TLC

DispatcherSymmetry == Permutations(Dispatchers)
=============================================================================
