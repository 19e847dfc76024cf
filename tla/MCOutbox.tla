------------------------------ MODULE MCOutbox ------------------------------
(* Instances of Outbox for TLC. *)
EXTENDS OutboxImplements, TLC

\* The workers are interchangeable; the tasks are not (created_at orders them).
WorkerSymmetry == Permutations(Workers)
=============================================================================
