--------------------------- MODULE CaseTransition ---------------------------
(***************************************************************************)
(* PUT /v1/cases/{id}/status of the orchestrator (case_transition_api.py): *)
(* analysts, the dispute endpoint and the inline autoresolve move a        *)
(* lifecycle case from status to status.  One READ COMMITTED transaction   *)
(* locks the case row, writes the audit log and its case_history row, the  *)
(* status, the ground-truth label with its LABEL_PROPAGATE task and the    *)
(* SHADOW_RETRO_TAG task; the graph is told after the commit.              *)
(***************************************************************************)
EXTENDS Integers, Sequences, FiniteSets

CONSTANTS
    Cases,           \* rows of lifecycle_cases
    Callers,         \* concurrent requests
    MaxTransitions,  \* bound: history rows per case
    MaxFaults        \* bound: failed transactions, failed graph calls, crashes

ASSUME TransitionAssumption ==
    /\ MaxTransitions \in Nat /\ MaxFaults \in Nat
    /\ -1 \notin Callers /\ Cases # {}

VARIABLES
    status,      \* lifecycle_cases.status
    history,     \* per case: case_history rows [from, to] in commit order
    labels,      \* per case: <<history row, class>> of normalized_labels,
                 \* each with its LABEL_PROPAGATE task
    tag_tasks,   \* per case: new_status of the SHADOW_RETRO_TAG tasks, whose
                 \* idempotency_key is shadow_tag_case:<case>:<new_status>
    row_lock,    \* per case: the transaction that has the row FOR UPDATE
    is_fraud,    \* cases whose user vertex has is_fraud = true
    pc,          \* per caller: where put_lifecycle_case_status stands
    req,         \* per caller: [case, new] of its request
    old,         \* per caller: row.status as its transaction read it
    answer,      \* per caller: how its last request ended
    faults       \* faults the environment may still inject

dbVars == <<status, history, labels, tag_tasks>>
vars == <<dbVars, row_lock, is_fraud, pc, req, old, answer, faults>>

NULL == -1
Open == {"OPEN", "UNDER_REVIEW", "PENDING_ACTION"}
Resolved == {"RESOLVED_FRAUD", "RESOLVED_LEGIT", "RESOLVED_AUTO"}
CaseStatus == Open \cup Resolved

\* transition_status: what it lets through; has_reason is a non-blank
\* reopen_reason.
transition_status(s, t, has_reason) ==
    \/ s = t
    \/ s \in Resolved /\ t \in Open /\ has_reason
    \/ s \in Resolved /\ t \in Resolved
    \/ s \in Open /\ t \in CaseStatus

\* ground_truth_class_for_resolved_status
ground_truth(s) ==
    CASE s = "RESOLVED_FRAUD" -> "FRAUD"
      [] s = "RESOLVED_LEGIT" -> "LEGITIMATE"
      [] OTHER -> "none"

Fault == faults > 0 /\ faults' = faults - 1

Init ==
    /\ status = [c \in Cases |-> "OPEN"]
    /\ history = [c \in Cases |-> <<>>]
    /\ labels = [c \in Cases |-> {}]
    /\ tag_tasks = [c \in Cases |-> {}]
    /\ row_lock = [c \in Cases |-> NULL]
    /\ is_fraud = {}
    /\ pc = [r \in Callers |-> "idle"]
    /\ req = [r \in Callers |-> [case |-> CHOOSE c \in Cases : TRUE, new |-> "OPEN"]]
    /\ old = [r \in Callers |-> "OPEN"]
    /\ answer = [r \in Callers |-> "none"]
    /\ faults = MaxFaults

\* A request that passes the 422 and 503 checks: a known status, a
\* reason_code and a token.
Request(r, c, s) ==
    /\ pc[r] = "idle"
    /\ Len(history[c]) + Cardinality({q \in Callers : pc[q] # "idle" /\ req[q].case = c})
           < MaxTransitions
    /\ pc' = [pc EXCEPT ![r] = "begin"]
    /\ req' = [req EXCEPT ![r] = [case |-> c, new |-> s]]
    /\ answer' = [answer EXCEPT ![r] = "none"]
    /\ UNCHANGED <<dbVars, row_lock, is_fraud, old, faults>>

\* Mutation of fetch_for_update: the SELECT without FOR UPDATE.
fetch_without_lock(r) ==
    LET c == req[r].case
    IN  /\ pc[r] = "begin"
        /\ old' = [old EXCEPT ![r] = status[c]]
        /\ pc' = [pc EXCEPT ![r] = "locked"]
        /\ UNCHANGED <<dbVars, row_lock, is_fraud, req, answer, faults>>

\* _fetch_lifecycle_case_for_update, then transition_status.  The API always
\* passes its non-blank reason_code as reopen_reason.
fetch_for_update(r) ==
    LET c == req[r].case
    IN  /\ pc[r] = "begin" /\ row_lock[c] = NULL
        /\ transition_status(status[c], req[r].new, TRUE)
        /\ row_lock' = [row_lock EXCEPT ![c] = r]
        /\ old' = [old EXCEPT ![r] = status[c]]
        /\ pc' = [pc EXCEPT ![r] = "locked"]
        /\ UNCHANGED <<dbVars, is_fraud, req, answer, faults>>

\* The transaction ends, and with it the row lock.
Unlock(c) == row_lock' = [row_lock EXCEPT ![c] = NULL]

\* The INSERT of the SHADOW_RETRO_TAG task meets a row with its key.
DuplicateTag(c, s) == s \in Resolved /\ s \in tag_tasks[c]

\* Mutations of create_analyst_disposition: a label whatever the status, and
\* one anchored to the history row before.
label_every_status(c, s) ==
    labels' = [labels EXCEPT ![c] = @ \cup {<<Len(history[c]) + 1, ground_truth(s)>>}]
label_row_before(c, s) ==
    labels' = [labels EXCEPT ![c] =
        IF ground_truth(s) = "none" THEN @ ELSE @ \cup {<<Len(history[c]), ground_truth(s)>>}]

\* NormalizedLabelDAO.create_analyst_disposition and its LABEL_PROPAGATE task,
\* anchored to the history row being written.
create_analyst_disposition(c, s) ==
    labels' = [labels EXCEPT ![c] =
        IF ground_truth(s) = "none" THEN @ ELSE @ \cup {<<Len(history[c]) + 1, ground_truth(s)>>}]

\* _enqueue_shadow_retro_tag_for_case_resolution
enqueue_shadow_retro_tag(c, s) ==
    tag_tasks' = [tag_tasks EXCEPT ![c] = @ \cup ({s} \cap Resolved)]

\* Mutation of AfterCommit: the graph is not told.
AfterCommitNoSync(s) == "idle"

\* Where the handler goes once the transaction is committed.
AfterCommit(s) == IF s = "RESOLVED_FRAUD" THEN "sync" ELSE "idle"

\* The body of the transaction and its COMMIT.
CommitTransition(r) ==
    LET c == req[r].case
        s == req[r].new
    IN  /\ pc[r] = "locked" /\ ~DuplicateTag(c, s)
        /\ status' = [status EXCEPT ![c] = s]
        /\ history' = [history EXCEPT ![c] = Append(@, [from |-> old[r], to |-> s])]
        /\ create_analyst_disposition(c, s)
        /\ enqueue_shadow_retro_tag(c, s)
        /\ Unlock(c)
        /\ pc' = [pc EXCEPT ![r] = AfterCommit(s)]
        /\ answer' = [answer EXCEPT ![r] = "ok"]
        /\ UNCHANGED <<is_fraud, req, old, faults>>

\* Mutation of Rollback: the connection goes back to the pool with its
\* transaction, and the row lock, open.
RollbackKeepsLock(r, why) ==
    /\ pc[r] = "locked"
    /\ pc' = [pc EXCEPT ![r] = "idle"]
    /\ answer' = [answer EXCEPT ![r] = why]
    /\ UNCHANGED <<dbVars, row_lock, is_fraud, req, old>>

Rollback(r, why) ==
    /\ pc[r] = "locked"
    /\ Unlock(req[r].case)
    /\ pc' = [pc EXCEPT ![r] = "idle"]
    /\ answer' = [answer EXCEPT ![r] = why]
    /\ UNCHANGED <<dbVars, is_fraud, req, old>>

\* The unique index idx_tarka_outbox_idempotency_key refuses the task, and
\* atomic_transaction rolls everything back with TarkaDatabaseException.
RejectDuplicate(r) ==
    /\ DuplicateTag(req[r].case, req[r].new)
    /\ Rollback(r, "database_error")
    /\ UNCHANGED faults

\* The transaction fails for a reason of its own.
FailTransaction(r) == Fault /\ Rollback(r, "database_error")

\* sync_resolved_fraud_case_to_graph, after the commit.
SyncGraph(r) ==
    /\ pc[r] = "sync"
    /\ is_fraud' = is_fraud \cup {req[r].case}
    /\ pc' = [pc EXCEPT ![r] = "idle"]
    /\ UNCHANGED <<dbVars, row_lock, req, old, answer, faults>>

\* The Gremlin call fails, which is logged, or the process dies before it.
LoseSync(r) ==
    /\ Fault
    /\ pc[r] = "sync"
    /\ pc' = [pc EXCEPT ![r] = "idle"]
    /\ UNCHANGED <<dbVars, row_lock, is_fraud, req, old, answer>>

CallerStep(r) ==
    \/ fetch_for_update(r) \/ CommitTransition(r) \/ RejectDuplicate(r) \/ SyncGraph(r)

Next ==
    \E r \in Callers :
        \/ \E c \in Cases, s \in CaseStatus : Request(r, c, s)
        \/ CallerStep(r) \/ FailTransaction(r) \/ LoseSync(r)

Spec == Init /\ [][Next]_vars

\* A request in hand goes on, and PostgreSQL queues those that wait for a row
\* lock, so that none is passed over for ever; nothing makes a client send one.
FairSpec ==
    /\ Spec
    /\ \A r \in Callers : WF_vars(CallerStep(r)) /\ SF_vars(fetch_for_update(r))

(***************************************************************************)
(* Properties.                                                             *)
(***************************************************************************)

\* Type invariant, with whose transaction is open on which row.
TypeOK ==
    /\ status \in [Cases -> CaseStatus]
    /\ history \in [Cases -> Seq([from : CaseStatus, to : CaseStatus])]
    /\ tag_tasks \in [Cases -> SUBSET Resolved]
    /\ labels \in [Cases -> SUBSET (Nat \X {"FRAUD", "LEGITIMATE"})]
    /\ row_lock \in [Cases -> Callers \cup {NULL}]
    /\ is_fraud \subseteq Cases
    /\ pc \in [Callers -> {"idle", "begin", "locked", "sync"}]
    /\ req \in [Callers -> [case : Cases, new : CaseStatus]]
    /\ old \in [Callers -> CaseStatus]
    /\ answer \in [Callers -> {"none", "ok", "database_error"}]
    /\ faults \in 0 .. MaxFaults

\* What the blocking SELECT ... FOR UPDATE is for ("concurrent analyst
\* transitions ... serialize on the same lifecycle_cases row",
\* case_transition_api.py:95): the history of a case is one unbroken chain
\* from OPEN to its present status; no transition is recorded from a status
\* that another one had already replaced.
LastStatus(c) == IF history[c] = <<>> THEN "OPEN" ELSE history[c][Len(history[c])].to
HistoryChains ==
    \A c \in Cases :
        /\ status[c] = LastStatus(c)
        /\ \A i \in DOMAIN history[c] :
               history[c][i].from = IF i = 1 THEN "OPEN" ELSE history[c][i - 1].to

\* The rows written together agree: a label for each analyst disposition in
\* the history and no other, with its class, and a retro-tag task for each
\* terminal status the case ever had.
TrailAgrees ==
    \A c \in Cases :
        /\ labels[c] = {<<i, ground_truth(history[c][i].to)>> :
                          i \in {j \in DOMAIN history[c] : ground_truth(history[c][j].to) # "none"}}
        /\ tag_tasks[c] = {history[c][i].to : i \in DOMAIN history[c]} \cap Resolved

\* A request that transition_status allows is not turned into a server error
\* by the transaction itself: with no fault injected, none ends in one.  It fails
\* when a case is resolved, reopened and resolved again, so no run lists it.
AllowedMovesCommit == MaxFaults = 0 => \A r \in Callers : answer[r] # "database_error"

\* "When a lifecycle case is resolved as fraud, set is_fraud=true on the User
\* vertex" (workers/graph_sync.py:35), unless something failed: the call comes
\* after the commit, and nothing repeats one that is lost.
GraphFollows ==
    \A c \in Cases : status[c] = "RESOLVED_FRAUD" ~> c \in is_fraud \/ faults < MaxFaults

\* Every request is answered: no wait for a row lock is for ever.
RequestsEnd == \A r \in Callers : pc[r] # "idle" ~> pc[r] = "idle"
=============================================================================
