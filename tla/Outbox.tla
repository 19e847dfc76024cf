------------------------------- MODULE Outbox -------------------------------
(***************************************************************************)
(* The transactional outbox of the orchestrator: the table `tarka_outbox`  *)
(* (models/outbox.py) and the workers that drain it                        *)
(* (workers/outbox_processor.py), with the Redis key that deduplicates     *)
(* executions.                                                             *)
(*                                                                         *)
(* A task is numbered by its created_at.  Time is kept as ages: the model  *)
(* records how long ago a row was claimed and how long a Redis key still   *)
(* has to live, and Tick lets both move, so that no clock has to be        *)
(* bounded.  An age stops growing once the row can be reclaimed.           *)
(***************************************************************************)
EXTENDS Integers, FiniteSets

CONSTANTS
    Workers,          \* outbox-processor processes
    Tasks,            \* rows the table may ever hold, in created_at order
    Routable,         \* tasks whose event_type has a handler
    ErrorTexts,       \* what str(exc) of a failing handler can be
    BatchSize,        \* OutboxProcessorConfig.batch_size
    MaxRetries,       \* max_retries, the same for every row
    ReclaimSeconds,   \* OUTBOX_RECLAIM_SECONDS
    LockTTL,          \* OUTBOX_LOCK_TTL_SEC
    RedisConfigured,  \* deps.redis_client is not None
    PromptBatches,    \* environment: a claimed batch ends within ReclaimSeconds
    PromptHandlers,   \* environment: a handler returns before its lock expires
    MaxFaults         \* bound: crashes, shutdowns, failed database or Redis calls

ASSUME TasksAssumption == Tasks \subseteq Nat /\ Routable \subseteq Tasks
ASSUME TextsAssumption == ErrorTexts \subseteq {"text", "blank"} /\ ErrorTexts # {}
ASSUME BoundsAssumption ==
    /\ BatchSize \in Nat \ {0}
    /\ MaxRetries \in Nat \ {0}
    /\ ReclaimSeconds \in Nat \ {0}
    /\ LockTTL \in Nat \ {0}
    /\ MaxFaults \in Nat
ASSUME WorkersAssumption == -1 \notin Workers
ASSUME FlagsAssumption == {RedisConfigured, PromptBatches, PromptHandlers} \subseteq BOOLEAN

VARIABLES
    status,       \* per task: the column status, "absent" before the insert
    retry_count,  \* per task: the column retry_count
    claimed_at,   \* per task: age of the column claimed_at, or NULL
    lock,         \* per task: seconds the Redis key outbox_lock:<key> has left
    pc,           \* per worker: where process_outbox_batch stands
    todo,         \* per worker: the claimed tasks not yet finished with
    error,        \* per worker: str(exc) of the failure to be recorded
    stop,         \* per worker: the shutdown event
    faults        \* faults the environment may still inject

rowVars == <<status, retry_count, claimed_at>>
workerVars == <<pc, todo, error, stop>>
vars == <<rowVars, lock, workerVars, faults>>

NULL == -1
Status == {"absent", "PENDING", "PROCESSING", "COMPLETED", "FAILED"}
PC == {"stopped", "poll", "route", "execute", "succeeded", "failed", "skipped"}
Age == 0 .. (ReclaimSeconds + 1)

(***************************************************************************)
(* The table.                                                              *)
(***************************************************************************)

\* Mutations of Claimable: the cutoff compared with <=, one retry too many,
\* and no reclaim of orphaned rows.
ClaimableAtCutoff(t) ==
    \/ status[t] = "PENDING"
    \/ status[t] = "FAILED" /\ retry_count[t] < MaxRetries
    \/ status[t] = "PROCESSING" /\ (claimed_at[t] = NULL \/ claimed_at[t] >= ReclaimSeconds)
ClaimableOnceMore(t) ==
    \/ status[t] = "PENDING"
    \/ status[t] = "FAILED" /\ retry_count[t] <= MaxRetries
    \/ status[t] = "PROCESSING" /\ (claimed_at[t] = NULL \/ claimed_at[t] > ReclaimSeconds)
ClaimableNoReclaim(t) ==
    \/ status[t] = "PENDING"
    \/ status[t] = "FAILED" /\ retry_count[t] < MaxRetries

\* The WHERE clause of fetch_pending_tasks.
Claimable(t) ==
    \/ status[t] = "PENDING"
    \/ status[t] = "FAILED" /\ retry_count[t] < MaxRetries
    \/ status[t] = "PROCESSING" /\ (claimed_at[t] = NULL \/ claimed_at[t] > ReclaimSeconds)

\* fetch_pending_tasks: ORDER BY created_at LIMIT batch_size.
fetch_pending_tasks ==
    LET ready == {t \in Tasks : Claimable(t)}
    IN  {t \in ready : Cardinality({u \in ready : u < t}) < BatchSize}

\* Mutation of mark_processing: the claim is not stamped.
mark_processing_unstamped(B) ==
    /\ status' = [t \in Tasks |-> IF t \in B THEN "PROCESSING" ELSE status[t]]
    /\ UNCHANGED <<retry_count, claimed_at>>

\* mark_processing of every fetched row, in the claiming transaction.
mark_processing(B) ==
    /\ status' = [t \in Tasks |-> IF t \in B THEN "PROCESSING" ELSE status[t]]
    /\ claimed_at' = [t \in Tasks |-> IF t \in B THEN 0 ELSE claimed_at[t]]
    /\ UNCHANGED retry_count

mark_completed(t) ==
    /\ status' = [status EXCEPT ![t] = "COMPLETED"]
    /\ claimed_at' = [claimed_at EXCEPT ![t] = NULL]
    /\ UNCHANGED retry_count

mark_failed(t) ==
    /\ status' = [status EXCEPT ![t] = "FAILED"]
    /\ retry_count' = [retry_count EXCEPT ![t] = @ + 1]
    /\ UNCHANGED claimed_at

\* release_task_claim: UPDATE ... WHERE status = 'PROCESSING'.
release_task_claim(t) ==
    /\ status' = [status EXCEPT ![t] = IF @ = "PROCESSING" THEN "PENDING" ELSE @]
    /\ UNCHANGED <<retry_count, claimed_at>>

(***************************************************************************)
(* The Redis key: SET key 1 NX EX ttl and DEL key.  The key carries no     *)
(* owner, so DEL removes whoever's key is there.                           *)
(***************************************************************************)
\* Mutation of acquire_outbox_lock: EX ttl + 1.
acquire_outbox_lock_late(t) ==
    lock' = IF RedisConfigured THEN [lock EXCEPT ![t] = LockTTL + 1] ELSE lock

acquire_outbox_lock(t) ==
    lock' = IF RedisConfigured THEN [lock EXCEPT ![t] = LockTTL] ELSE lock

release_outbox_lock(t) ==
    lock' = IF RedisConfigured THEN [lock EXCEPT ![t] = 0] ELSE lock

(***************************************************************************)
(* The workers.                                                            *)
(***************************************************************************)

\* The task the loop of process_outbox_batch is at.
Current(w, t) == t \in todo[w] /\ \A u \in todo[w] : t <= u

Executing(w, t) == pc[w] = "execute" /\ Current(w, t)

\* The loop is done with t: next task of the batch, or back to run_worker.
Advance(w, t) ==
    /\ todo' = [todo EXCEPT ![w] = @ \ {t}]
    /\ pc' = [pc EXCEPT ![w] = IF todo[w] = {t} THEN "poll" ELSE "route"]
    /\ error' = [error EXCEPT ![w] = "none"]
    /\ UNCHANGED stop

\* One environment fault is used up.
Fault == faults > 0 /\ faults' = faults - 1

Init ==
    /\ status = [t \in Tasks |-> "absent"]
    /\ retry_count = [t \in Tasks |-> 0]
    /\ claimed_at = [t \in Tasks |-> NULL]
    /\ lock = [t \in Tasks |-> 0]
    /\ pc = [w \in Workers |-> "stopped"]
    /\ todo = [w \in Workers |-> {}]
    /\ error = [w \in Workers |-> "none"]
    /\ stop = [w \in Workers |-> FALSE]
    /\ faults = MaxFaults

\* create_task: the producer's transaction, with the row in it, commits.
create_task(t) ==
    /\ status[t] = "absent"
    /\ status' = [status EXCEPT ![t] = "PENDING"]
    /\ UNCHANGED <<retry_count, claimed_at, lock, workerVars, faults>>

\* run_worker is entered: a fresh process.
StartWorker(w) ==
    /\ pc[w] = "stopped"
    /\ pc' = [pc EXCEPT ![w] = "poll"]
    /\ stop' = [stop EXCEPT ![w] = FALSE]
    /\ UNCHANGED <<rowVars, lock, todo, error, faults>>

\* SIGTERM or SIGINT: only the event is set, the batch in hand is finished.
RequestStop(w) ==
    /\ Fault
    /\ pc[w] # "stopped" /\ ~stop[w]
    /\ stop' = [stop EXCEPT ![w] = TRUE]
    /\ UNCHANGED <<rowVars, lock, pc, todo, error>>

\* run_worker leaves its loop before a poll, after a batch or in its sleep.
ExitWorker(w) ==
    /\ pc[w] = "poll" /\ stop[w]
    /\ pc' = [pc EXCEPT ![w] = "stopped"]
    /\ UNCHANGED <<rowVars, lock, todo, error, stop, faults>>

\* A worker process dies: what it claimed stays PROCESSING, its key lives on.
Crash(w) ==
    /\ Fault
    /\ pc[w] # "stopped"
    /\ pc' = [pc EXCEPT ![w] = "stopped"]
    /\ todo' = [todo EXCEPT ![w] = {}]
    /\ error' = [error EXCEPT ![w] = "none"]
    /\ stop' = [stop EXCEPT ![w] = FALSE]
    /\ UNCHANGED <<rowVars, lock>>

\* claim_pending_batch: fetch and mark in one transaction.
claim_pending_batch(w) ==
    /\ pc[w] = "poll" /\ ~stop[w]
    /\ fetch_pending_tasks # {}
    /\ mark_processing(fetch_pending_tasks)
    /\ todo' = [todo EXCEPT ![w] = fetch_pending_tasks]
    /\ pc' = [pc EXCEPT ![w] = "route"]
    /\ UNCHANGED <<lock, error, stop, faults>>

\* The claiming transaction fails in the worker's eyes; if only the answer to
\* its COMMIT was lost, the rows are PROCESSING and in nobody's hands.
ClaimDatabaseError(w) ==
    /\ Fault
    /\ pc[w] = "poll" /\ ~stop[w]
    /\ UNCHANGED rowVars \/ mark_processing(fetch_pending_tasks)
    /\ UNCHANGED <<lock, workerVars>>

\* A poll that finds nothing: sleep and poll again.
PollNothing(w) ==
    /\ pc[w] = "poll" /\ ~stop[w]
    /\ fetch_pending_tasks = {}
    /\ UNCHANGED vars

\* Mutation of RouteAcquired: SET without NX.
RouteAcquiredNoNX(w, t) ==
    /\ pc[w] = "route" /\ Current(w, t)
    /\ acquire_outbox_lock(t)
    /\ pc' = [pc EXCEPT ![w] = "execute"]
    /\ UNCHANGED <<rowVars, todo, error, stop, faults>>

\* route_outbox_task, lock taken (or no Redis to take it in).
RouteAcquired(w, t) ==
    /\ pc[w] = "route" /\ Current(w, t)
    /\ RedisConfigured => lock[t] = 0
    /\ acquire_outbox_lock(t)
    /\ pc' = [pc EXCEPT ![w] = "execute"]
    /\ UNCHANGED <<rowVars, todo, error, stop, faults>>

\* route_outbox_task, OutboxLockNotAcquired.
RouteRefused(w, t) ==
    /\ pc[w] = "route" /\ Current(w, t)
    /\ RedisConfigured /\ lock[t] > 0
    /\ pc' = [pc EXCEPT ![w] = "skipped"]
    /\ UNCHANGED <<rowVars, lock, todo, error, stop, faults>>

\* route_outbox_task, the SET raises; it may have reached Redis all the same.
RouteRedisError(w, t) ==
    /\ Fault
    /\ pc[w] = "route" /\ Current(w, t) /\ RedisConfigured
    /\ lock' = lock \/ (lock[t] = 0 /\ acquire_outbox_lock(t))
    /\ pc' = [pc EXCEPT ![w] = "failed"]
    /\ error' = [error EXCEPT ![w] = "text"]
    /\ UNCHANGED <<rowVars, todo, stop>>

\* handler.execute returns: the key is left to its TTL.
HandlerReturns(w, t) ==
    /\ Executing(w, t) /\ t \in Routable
    /\ pc' = [pc EXCEPT ![w] = "succeeded"]
    /\ UNCHANGED <<rowVars, lock, todo, error, stop, faults>>

\* handler.execute raises, or resolve_outbox_handler finds no handler; the
\* key is deleted and the exception goes to process_outbox_batch.
HandlerRaises(w, t) ==
    /\ Executing(w, t)
    /\ \E e \in IF t \in Routable THEN ErrorTexts ELSE {"text"} :
           error' = [error EXCEPT ![w] = e]
    /\ release_outbox_lock(t)
    /\ pc' = [pc EXCEPT ![w] = "failed"]
    /\ UNCHANGED <<rowVars, todo, stop, faults>>

\* The same, but the DEL raises and its exception replaces the handler's.
HandlerRaisesRedisError(w, t) ==
    /\ Fault
    /\ Executing(w, t) /\ RedisConfigured
    /\ error' = [error EXCEPT ![w] = "text"]
    /\ pc' = [pc EXCEPT ![w] = "failed"]
    /\ UNCHANGED <<rowVars, lock, todo, stop>>

finalize_task_success(w, t) ==
    /\ pc[w] = "succeeded" /\ Current(w, t)
    /\ mark_completed(t)
    /\ Advance(w, t)
    /\ UNCHANGED <<lock, faults>>

\* finalize_task_failure: mark_failed raises ValueError on a blank message,
\* which the loop logs and drops.
finalize_task_failure(w, t) ==
    /\ pc[w] = "failed" /\ Current(w, t)
    /\ IF error[w] = "blank" THEN UNCHANGED rowVars ELSE mark_failed(t)
    /\ Advance(w, t)
    /\ UNCHANGED <<lock, faults>>

SkipTask(w, t) ==
    /\ pc[w] = "skipped" /\ Current(w, t)
    /\ release_task_claim(t)
    /\ Advance(w, t)
    /\ UNCHANGED <<lock, faults>>

\* The closing transaction of a task fails: logged, and the loop goes on.
FinalizeDatabaseError(w, t) ==
    /\ Fault
    /\ pc[w] \in {"succeeded", "failed", "skipped"} /\ Current(w, t)
    /\ Advance(w, t)
    /\ UNCHANGED <<rowVars, lock>>

\* One second passes.  The two environment assumptions are about when it may.
Tick ==
    /\ PromptBatches => \A w \in Workers : \A t \in todo[w] : claimed_at[t] < ReclaimSeconds
    /\ PromptHandlers => \A w \in Workers : \A t \in Tasks : Executing(w, t) => lock[t] # 1
    /\ claimed_at' = [t \in Tasks |->
                        IF claimed_at[t] \in 0 .. ReclaimSeconds
                        THEN claimed_at[t] + 1 ELSE claimed_at[t]]
    /\ lock' = [t \in Tasks |-> IF lock[t] > 0 THEN lock[t] - 1 ELSE 0]
    /\ UNCHANGED <<status, retry_count, workerVars, faults>>

\* The steps run_worker takes by itself.
WorkerStep(w) ==
    \/ claim_pending_batch(w) \/ PollNothing(w) \/ ExitWorker(w)
    \/ \E t \in Tasks :
        \/ RouteAcquired(w, t) \/ RouteRefused(w, t)
        \/ HandlerReturns(w, t) \/ HandlerRaises(w, t)
        \/ finalize_task_success(w, t) \/ finalize_task_failure(w, t) \/ SkipTask(w, t)

FaultStep(w) ==
    \/ Crash(w) \/ ClaimDatabaseError(w)
    \/ \E t \in Tasks : \/ RouteRedisError(w, t) \/ HandlerRaisesRedisError(w, t)
                        \/ FinalizeDatabaseError(w, t)

Next ==
    \/ \E t \in Tasks : create_task(t)
    \/ \E w \in Workers : \/ StartWorker(w) \/ RequestStop(w)
                          \/ WorkerStep(w) \/ FaultStep(w)
    \/ Tick

Spec == Init /\ [][Next]_vars

\* A live worker process keeps running, its supervisor restarts a dead one,
\* and time passes.  Nothing is assumed of producers, handlers or faults.
Fairness ==
    /\ WF_vars(Tick)
    /\ \A w \in Workers : WF_vars(StartWorker(w)) /\ WF_vars(WorkerStep(w))

FairSpec == Spec /\ Fairness

(***************************************************************************)
(* Properties.                                                             *)
(***************************************************************************)

\* Type invariant: the columns hold what their CHECK constraint and their
\* writers allow, a Redis key never outlives its TTL, and a worker outside
\* process_outbox_batch has no claimed task in hand.
TypeOK ==
    /\ status \in [Tasks -> Status]
    /\ retry_count \in [Tasks -> Nat]
    /\ claimed_at \in [Tasks -> Age \cup {NULL}]
    /\ lock \in [Tasks -> 0 .. LockTTL]
    /\ pc \in [Workers -> PC]
    /\ todo \in [Workers -> SUBSET Tasks]
    /\ error \in [Workers -> {"none", "text", "blank"}]
    /\ stop \in [Workers -> BOOLEAN]
    /\ faults \in 0 .. MaxFaults
    /\ \A w \in Workers : todo[w] = {} <=> pc[w] \in {"stopped", "poll"}

\* "A reclaimed row never races a live claim holder" (models/outbox.py:36):
\* no task is in the hands of two live workers.  Holds when every batch is
\* finished within OUTBOX_RECLAIM_SECONDS of its claim.
ClaimExclusive ==
    \A v, w \in Workers : v # w => todo[v] \cap todo[w] = {}

\* A row that is COMPLETED stays so: no late failure, release or claim of a
\* worker that lost the row moves it (mark_failed, mark_processing and
\* mark_completed have no WHERE on status, so this is up to the protocol).
CompletedStays == \A t \in Tasks : status[t] = "COMPLETED" => status'[t] = "COMPLETED"
CompletedIsFinal == [][CompletedStays]_vars

\* No task is tried, and its failure counted, more often than max_retries
\* says, whichever workers and reclaims its attempts go through.
RetriesBounded == \A t \in Tasks : retry_count[t] <= MaxRetries

\* The point of the Redis key (route_outbox_task): the handler of one task
\* never runs in two workers at a time, however late their batches run, as
\* long as each handler returns before its own key expires.
HandlerMutex ==
    \A v, w \in Workers : \A t \in Tasks :
        Executing(v, t) /\ Executing(w, t) => v = w

\* Given up: FAILED with no retries left.
Exhausted(t) == status[t] = "FAILED" /\ retry_count[t] >= MaxRetries

\* The outbox drains: a row that was inserted is in the end COMPLETED or
\* given up for good, through crashes, restarts, lost transactions and held
\* locks.
OutboxDrains ==
    \A t \in Tasks :
        status[t] # "absent" ~> [](status[t] = "COMPLETED" \/ Exhausted(t))
=============================================================================
