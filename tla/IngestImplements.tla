-------------------------- MODULE IngestImplements --------------------------
(***************************************************************************)
(* The refinement mapping from EventIngest to IngestContract.              *)
(***************************************************************************)
EXTENDS EventIngest

\* A parked envelope that comes round again needs no further effect.
Void == {m \in Messages : kind[m] = "envelope"}

StateOf(m) ==
    CASE stream[m] = "absent" -> "absent"
      [] stream[m] = "acked" -> "settled"
      [] OTHER -> "owed"

\* Committed by the orchestrator (or just evaluated, when none is configured),
\* or kept on the dead-letter subject.
TookEffect(m) ==
    \/ committed[m] > 0
    \/ m \in dlq
    \/ ~OrchestratorSet /\ m \in evaluated
    \/ stream[m] # "absent" /\ m \in Void

Contract == INSTANCE IngestContract WITH
    void <- Void,
    state <- [m \in Messages |-> StateOf(m)],
    effect <- {m \in Messages : TookEffect(m)}

\* "Never silent-drop" (_park_evaluate_4xx), "True = ack-safe"
\* (_commit_evaluate_side_effects): whatever redelivery, crash, lost answer or
\* late settlement does, an event is acked only once it is committed or parked,
\* and an acked event never comes back.
ImplementsContract == Contract!Spec
=============================================================================
