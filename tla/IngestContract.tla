--------------------------- MODULE IngestContract ---------------------------
(***************************************************************************)
(* What event-ingest promises a producer, with no deliveries, consumers or *)
(* answers in it: an event that reached the stream is owed until it has    *)
(* taken effect, is settled only after that, and is settled for good.      *)
(***************************************************************************)
CONSTANT Messages

VARIABLES
    void,    \* messages that need no effect
    state,   \* per message: "absent", "owed" or "settled"
    effect   \* messages that took effect at least once

vars == <<void, state, effect>>

Init ==
    /\ void \subseteq Messages
    /\ state = [m \in Messages |-> "absent"]
    /\ effect = {}

Accept(m) ==
    /\ state[m] = "absent"
    /\ state' = [state EXCEPT ![m] = "owed"]
    /\ effect' = effect \cup ({m} \cap void)
    /\ UNCHANGED void

\* Possibly again, possibly after the message was settled.
TakeEffect(m) ==
    /\ state[m] # "absent"
    /\ effect' = effect \cup {m}
    /\ UNCHANGED <<void, state>>

Settle(m) ==
    /\ state[m] = "owed"
    /\ m \in effect
    /\ state' = [state EXCEPT ![m] = "settled"]
    /\ UNCHANGED <<void, effect>>

Next == \E m \in Messages : Accept(m) \/ TakeEffect(m) \/ Settle(m)

Spec == Init /\ [][Next]_vars
=============================================================================
