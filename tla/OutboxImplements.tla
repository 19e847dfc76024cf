-------------------------- MODULE OutboxImplements --------------------------
(***************************************************************************)
(* The refinement mapping from Outbox to OutboxContract.                   *)
(***************************************************************************)
EXTENDS Outbox

\* No worker: NULL is not one of the processes (WorkersAssumption).
NoWorker == NULL

\* A row as the producer sees it.
StateOf(t) ==
    CASE status[t] = "absent" -> "absent"
      [] status[t] = "COMPLETED" -> "done"
      [] Exhausted(t) -> "dead"
      [] OTHER -> "open"

\* The live worker that has the row in its batch.
OwnerOf(t) ==
    IF \E w \in Workers : t \in todo[w]
    THEN CHOOSE w \in Workers : t \in todo[w]
    ELSE NoWorker

Contract == INSTANCE OutboxContract WITH
    state <- [t \in Tasks |-> StateOf(t)],
    owner <- [t \in Tasks |-> OwnerOf(t)]

\* The table, the claims and the workers together keep the contract: every
\* step of Outbox is a step of OutboxContract or changes nothing there.
\* Holds when every batch is finished within OUTBOX_RECLAIM_SECONDS.
ImplementsContract == Contract!Spec
=============================================================================
