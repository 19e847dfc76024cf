--------------------------- MODULE OutboxContract ---------------------------
(***************************************************************************)
(* What the outbox promises its producers, with no Redis, no clock and no  *)
(* claim times in it: a submitted task is open until it is done or given   *)
(* up for good; while it is open at most one worker has it; only that      *)
(* worker can settle it or lose it.                                        *)
(***************************************************************************)
CONSTANTS Tasks, Workers,
          NoWorker   \* not a member of Workers

VARIABLES
    state,  \* per task: "absent", "open", "done" or "dead" (given up)
    owner   \* per task: the worker that has it, or NoWorker

vars == <<state, owner>>

Init ==
    /\ state = [t \in Tasks |-> "absent"]
    /\ owner = [t \in Tasks |-> NoWorker]

\* A producer's transaction commits with the task in it.
Submit(t) ==
    /\ state[t] = "absent"
    /\ state' = [state EXCEPT ![t] = "open"]
    /\ UNCHANGED owner

\* A worker that has nothing in hand takes open tasks that nobody has.
Take(w, B) ==
    /\ B # {}
    /\ \A t \in Tasks : owner[t] # w
    /\ \A t \in B : state[t] = "open" /\ owner[t] = NoWorker
    /\ owner' = [t \in Tasks |-> IF t \in B THEN w ELSE owner[t]]
    /\ UNCHANGED state

\* The owner is finished with a task: done, given up, or open again.
Settle(w, t) ==
    /\ owner[t] = w
    /\ owner' = [owner EXCEPT ![t] = NoWorker]
    /\ \E s \in {"open", "done", "dead"} : state' = [state EXCEPT ![t] = s]

\* A worker dies: what it had is open and nobody's.
Lose(w) ==
    /\ owner' = [t \in Tasks |-> IF owner[t] = w THEN NoWorker ELSE owner[t]]
    /\ UNCHANGED state

Next ==
    \/ \E t \in Tasks : Submit(t)
    \/ \E w \in Workers :
        \/ \E B \in SUBSET Tasks : Take(w, B)
        \/ \E t \in Tasks : Settle(w, t)
        \/ Lose(w)

Spec == Init /\ [][Next]_vars
=============================================================================
