-------------------------- MODULE CaseMaterialise ---------------------------
(***************************************************************************)
(* How audit_logs rows become lifecycle cases (audit_case_worker.py).      *)
(* Every ingest commits an audit row; process_new_audit_logs reads those   *)
(* past its cursor and links each to the user's case of the last 24 hours, *)
(* or opens one.  An ingest that Shadow may resolve at once does the same  *)
(* inline for its own row.  All are READ COMMITTED transactions; an id     *)
(* comes from a sequence when the row is flushed, not when it commits.     *)
(*                                                                         *)
(* A case is named by the audit row that opened it (its transaction_id):   *)
(* the unique case_history.audit_log_id lets a row open at most one.  Of   *)
(* several recent cases the code takes the earliest, the model any one.    *)
(***************************************************************************)
EXTENDS Integers, FiniteSets

CONSTANTS
    Users,           \* values of user_link_key
    Pollers,         \* concurrent transactions of process_new_audit_logs
    Ingests,         \* concurrent inline materialisations
    MaxLogs,         \* bound: audit rows
    PollLimit,       \* LIMIT of the poll
    OrderedCommits,  \* environment: audit rows commit in id order
    OneMaterialiser, \* environment: the transactions do not overlap
    PollKeepsUp,     \* environment: rows are polled within 24 hours
    MaxFaults        \* bound: transactions that fail by themselves

ASSUME MaterialiseAssumption ==
    /\ MaxLogs \in Nat /\ PollLimit \in Nat \ {0} /\ MaxFaults \in Nat
    /\ {OrderedCommits, OneMaterialiser, PollKeepsUp} \subseteq BOOLEAN
    /\ 0 \notin Users
    /\ Pollers \cap Ingests = {}

Ids == 1 .. MaxLogs
Txns == Pollers \cup Ingests

VARIABLES
    log,      \* per id: "none", "open", "committed" or "rolled_back"
    kind,     \* per id: "trigger", "plain" (holds no lifecycle action),
              \* "transition" (written by a status change), "none"
    user,     \* per id: user_link_key, 0 when there is none
    cursor,   \* orchestrator_poll_state.last_audit_log_id
    linked,   \* per id: case of the case_history row with this audit_log_id
    recent,   \* cases opened within 24 hours
    tried,    \* rows whose ingest is past its inline materialisation
    pc,       \* per transaction: "idle", "read", "upsert", "insert"
    batch,    \* per transaction: rows still to upsert
    upto,     \* per transaction: the cursor it read, then max_id
    saw,      \* per transaction: the existing case it found, 0 for none
    pending,  \* per transaction: its uncommitted case_history rows
    faults    \* faults the environment may still inject

logVars == <<log, kind, user>>
caseVars == <<linked, recent>>
txnVars == <<pc, batch, upto, saw, pending>>
vars == <<logVars, cursor, caseVars, tried, txnVars, faults>>

Fault == faults > 0 /\ faults' = faults - 1
NoRows == [l \in Ids |-> 0]

Init ==
    /\ log = [l \in Ids |-> "none"]
    /\ kind = [l \in Ids |-> "none"]
    /\ user = NoRows
    /\ cursor = 0
    /\ linked = NoRows
    /\ recent = {} /\ tried = {}
    /\ pc = [t \in Txns |-> "idle"]
    /\ batch = [t \in Txns |-> {}]
    /\ upto = [t \in Txns |-> 0]
    /\ saw = [t \in Txns |-> 0]
    /\ pending = [t \in Txns |-> NoRows]
    /\ faults = MaxFaults

(***************************************************************************)
(* Audit rows.                                                             *)
(***************************************************************************)

\* session.flush() of a new row: the sequence hands out the next id.
Flush(l, k, u) ==
    /\ log[l] = "none" /\ \A m \in Ids : m < l => log[m] # "none"
    /\ log' = [log EXCEPT ![l] = "open"]
    /\ kind' = [kind EXCEPT ![l] = k]
    /\ user' = [user EXCEPT ![l] = u]
    /\ UNCHANGED <<cursor, caseVars, tried, txnVars, faults>>

persist_orchestrator_audit_log(l) ==
    \E k \in {"trigger", "plain"}, u \in Users : Flush(l, k, u)

\* A status change takes an id of the same sequence.
persist_lifecycle_status_audit_log(l) == Flush(l, "transition", 0)

CommitLog(l) ==
    /\ log[l] = "open"
    /\ OrderedCommits => \A m \in Ids : m < l => log[m] # "open"
    /\ log' = [log EXCEPT ![l] = "committed"]
    /\ UNCHANGED <<kind, user, cursor, caseVars, tried, txnVars, faults>>

RollbackLog(l) ==
    /\ Fault
    /\ log[l] = "open"
    /\ log' = [log EXCEPT ![l] = "rolled_back"]
    /\ UNCHANGED <<kind, user, cursor, caseVars, tried, txnVars>>

\* The case of row c turns 24 hours old; the ingests up to c are long over.
LeaveWindow(c) ==
    /\ c \in recent
    /\ PollKeepsUp => \A l \in Ids : linked[l] = c => l <= cursor
    /\ PollKeepsUp => \A t \in Txns : pc[t] = "idle"
    /\ recent' = recent \ {c}
    /\ tried' = tried \cup 1 .. c
    /\ UNCHANGED <<logVars, cursor, linked, txnVars, faults>>

(***************************************************************************)
(* Transactions.                                                           *)
(***************************************************************************)
MayStart == OneMaterialiser => \A t \in Txns : pc[t] = "idle"

\* The rows the transaction is to upsert.
Take(t, rows) ==
    /\ pc' = [pc EXCEPT ![t] = "upsert"]
    /\ batch' = [batch EXCEPT ![t] = rows]
    /\ \E last \in rows : /\ \A l \in rows : l <= last
                         /\ upto' = [upto EXCEPT ![t] = last]
    /\ UNCHANGED <<logVars, cursor, caseVars, saw, pending, faults>>

\* Mutation of NewLogs: ORDER BY id DESC.
NewLogsDescending(after) ==
    LET new == {l \in Ids : l > after /\ log[l] = "committed"}
    IN  {l \in new : Cardinality({m \in new : m > l}) < PollLimit}

\* The committed rows past the cursor that was read, lowest ids first.
NewLogs(after) ==
    LET new == {l \in Ids : l > after /\ log[l] = "committed"}
    IN  {l \in new : Cardinality({m \in new : m < l}) < PollLimit}

\* process_new_audit_logs reads its cursor.
PollStart(t) ==
    /\ pc[t] = "idle" /\ MayStart
    /\ pc' = [pc EXCEPT ![t] = "read"]
    /\ upto' = [upto EXCEPT ![t] = cursor]
    /\ UNCHANGED <<logVars, cursor, caseVars, tried, batch, saw, pending, faults>>

\* Its second SELECT, in which rows that committed since are visible.
ReadLogs(t) ==
    /\ pc[t] = "read" /\ NewLogs(upto[t]) # {}
    /\ Take(t, NewLogs(upto[t]))
    /\ UNCHANGED tried

\* materialize_lifecycle_case_for_ingest.  It goes by the actions before
\* Shadow's advice, so the row itself may be "plain".
InlineStart(t, l) ==
    /\ log[l] = "committed" /\ kind[l] \in {"trigger", "plain"} /\ l \notin tried
    /\ pc[t] = "idle" /\ MayStart
    /\ Take(t, {l})
    /\ tried' = tried \cup {l}

\* The row whose turn it is.
Turn(t, l) == pc[t] # "idle" /\ l \in batch[t] /\ \A m \in batch[t] : l <= m

\* Not written by the orchestrator, or without a lifecycle action.
Skip(t, l) ==
    /\ pc[t] = "upsert" /\ Turn(t, l) /\ t \in Pollers /\ kind[l] # "trigger"
    /\ batch' = [batch EXCEPT ![t] = @ \ {l}]
    /\ UNCHANGED <<logVars, cursor, caseVars, tried, pc, upto, saw, pending, faults>>

\* Cases the transaction has opened and not committed.
Own(t) == {l \in Ids : pending[t][l] = l}

\* Mutation of Existing: the window is not restricted to the user.
ExistingAnyUser(t, u) == recent \cup Own(t)

\* Mutation of Existing: the transaction misses the cases it opened itself.
ExistingCommitted(t, u) == {c \in recent : user[c] = u}

\* Mutation of Existing: a window in the future, which committed cases miss.
ExistingOwnOnly(t, u) == {c \in Own(t) : user[c] = u}

\* The user's cases of the last 24 hours that the transaction can see.
Existing(t, u) == {c \in recent \cup Own(t) : user[c] = u}

Look(t, l) ==
    /\ pc[t] = "upsert" /\ Turn(t, l)
    /\ t \in Pollers => kind[l] = "trigger"
    /\ \/ \E c \in Existing(t, user[l]) : saw' = [saw EXCEPT ![t] = c]
       \/ Existing(t, user[l]) = {} /\ saw' = [saw EXCEPT ![t] = 0]
    /\ pc' = [pc EXCEPT ![t] = "insert"]
    /\ UNCHANGED <<logVars, cursor, caseVars, tried, batch, upto, pending, faults>>

\* The case_history row of l, and the case with it when none was found.  The
\* unique index makes the INSERT wait for a transaction that holds the row.
\* A duplicate is skipped when a case had been found.
Insert(t, l) ==
    /\ pc[t] = "insert" /\ Turn(t, l)
    /\ \A s \in Txns : pending[s][l] = 0
    /\ linked[l] # 0 => saw[t] # 0
    /\ pending' = [pending EXCEPT ![t][l] =
                     CASE linked[l] # 0                 -> 0
                       [] linked[l] = 0 /\ saw[t] # 0   -> saw[t]
                       [] linked[l] = 0 /\ saw[t] = 0   -> l]
    /\ pc' = [pc EXCEPT ![t] = "upsert"]
    /\ batch' = [batch EXCEPT ![t] = @ \ {l}]
    /\ UNCHANGED <<logVars, cursor, caseVars, tried, upto, saw, faults>>

End(t) ==
    /\ pc' = [pc EXCEPT ![t] = "idle"]
    /\ batch' = [batch EXCEPT ![t] = {}]
    /\ upto' = [upto EXCEPT ![t] = 0]
    /\ saw' = [saw EXCEPT ![t] = 0]
    /\ pending' = [pending EXCEPT ![t] = NoRows]

\* Nothing new: the poll returns, its transaction empty.
PollNothing(t) ==
    /\ pc[t] = "read" /\ NewLogs(upto[t]) = {}
    /\ End(t)
    /\ UNCHANGED <<logVars, cursor, caseVars, tried, faults>>

\* The row has its history row and no case was found: the IntegrityError of
\* the create branch is not caught, and the transaction is rolled back.
Conflict(t, l) == pc[t] = "insert" /\ Turn(t, l) /\ linked[l] # 0 /\ saw[t] = 0

ConflictRollback(t, l) ==
    /\ Conflict(t, l)
    /\ End(t)
    /\ UNCHANGED <<logVars, cursor, caseVars, tried, faults>>

\* The transaction fails or its process dies.
Fail(t) ==
    /\ Fault
    /\ pc[t] # "idle"
    /\ End(t)
    /\ UNCHANGED <<logVars, cursor, caseVars, tried>>

\* Mutation of Commit: the cursor moves one row too far.
CommitPastLast(t) ==
    /\ pc[t] = "upsert" /\ batch[t] = {}
    /\ linked' = [l \in Ids |-> IF pending[t][l] # 0 THEN pending[t][l] ELSE linked[l]]
    /\ recent' = recent \cup Own(t)
    /\ cursor' = IF t \in Pollers THEN upto[t] + 1 ELSE cursor
    /\ End(t)
    /\ UNCHANGED <<logVars, tried, faults>>

\* Mutation of Commit: the cursor is not saved.
CommitKeepsCursor(t) ==
    /\ pc[t] = "upsert" /\ batch[t] = {}
    /\ linked' = [l \in Ids |-> IF pending[t][l] # 0 THEN pending[t][l] ELSE linked[l]]
    /\ recent' = recent \cup Own(t)
    /\ cursor' = cursor
    /\ End(t)
    /\ UNCHANGED <<logVars, tried, faults>>

\* One COMMIT: history rows, new cases and, for a poll, the cursor.
Commit(t) ==
    /\ pc[t] = "upsert" /\ batch[t] = {}
    /\ linked' = [l \in Ids |-> IF pending[t][l] # 0 THEN pending[t][l] ELSE linked[l]]
    /\ recent' = recent \cup Own(t)
    /\ cursor' = IF t \in Pollers THEN upto[t] ELSE cursor
    /\ End(t)
    /\ UNCHANGED <<logVars, tried, faults>>

Step(t) ==
    \/ ReadLogs(t) \/ PollNothing(t) \/ Commit(t)
    \/ \E l \in Ids : Skip(t, l) \/ Look(t, l) \/ Insert(t, l) \/ ConflictRollback(t, l)

Next ==
    \/ \E l \in Ids :
        \/ persist_orchestrator_audit_log(l) \/ persist_lifecycle_status_audit_log(l)
        \/ CommitLog(l) \/ RollbackLog(l) \/ LeaveWindow(l)
    \/ \E t \in Pollers : PollStart(t)
    \/ \E t \in Ingests, l \in Ids : InlineStart(t, l)
    \/ \E t \in Txns : Step(t) \/ Fail(t)

Spec == Init /\ [][Next]_vars

\* The poll is called again and again, and transactions go on.  SF on the
\* start: under OneMaterialiser an inline transaction disables it meanwhile.
FairSpec ==
    /\ Spec
    /\ \A t \in Txns : WF_vars(Step(t))
    /\ \A t \in Pollers : SF_vars(PollStart(t))

(***************************************************************************)
(* Properties.                                                             *)
(***************************************************************************)

\* Type invariant.
TypeOK ==
    /\ log \in [Ids -> {"none", "open", "committed", "rolled_back"}]
    /\ kind \in [Ids -> {"none", "trigger", "plain", "transition"}]
    /\ user \in [Ids -> Users \cup {0}]
    /\ cursor \in 0 .. MaxLogs
    /\ linked \in [Ids -> Ids \cup {0}]
    /\ recent \subseteq Ids /\ tried \subseteq Ids
    /\ pc \in [Txns -> {"idle", "read", "upsert", "insert"}]
    /\ batch \in [Txns -> SUBSET Ids]
    /\ upto \in [Txns -> 0 .. MaxLogs]
    /\ saw \in [Txns -> Ids \cup {0}]
    /\ pending \in [Txns -> [Ids -> Ids \cup {0}]]
    /\ faults \in 0 .. MaxFaults

\* process_new_audit_logs is to "consume new AuditLog rows": no committed row
\* that calls for a case is behind the cursor without its history row.
NoLogSkipped ==
    \A l \in Ids :
        l <= cursor /\ log[l] = "committed" /\ kind[l] = "trigger" => linked[l] # 0

\* Every case_history row is that of a committed audit row and leads to a
\* case of the same user, one opened and linked by its own audit row.
LinksAreSound ==
    \A l \in Ids : linked[l] # 0 =>
        /\ log[l] = "committed"
        /\ linked[linked[l]] = linked[l]
        /\ user[linked[l]] = user[l]

\* user_link_key is the "Dedup key" of lifecycle_cases: a user has at most
\* one case of the last 24 hours.
OneRecentCase == \A c, d \in recent : user[c] = user[d] => c = d

\* A poll is "idempotent per audit_log_id": meeting a row that is linked
\* already never rolls it back.
PollIsIdempotent == \A t \in Pollers, l \in Ids : ~ Conflict(t, l)

\* Polled again and again, the cursor gets past every committed row.
CursorAdvances == \A l \in Ids : log[l] = "committed" ~> cursor >= l
=============================================================================
