---------------------------- MODULE OutboxProofs ----------------------------
(***************************************************************************)
(* Theorems about Outbox, for every set of workers and tasks and every     *)
(* value of the bounds.                                                    *)
(***************************************************************************)
EXTENDS OutboxImplements, TLAPS

USE TasksAssumption, TextsAssumption, BoundsAssumption, FlagsAssumption, WorkersAssumption

(***************************************************************************)
(* Type correctness.                                                       *)
(***************************************************************************)

\* What fetch_pending_tasks returns are claimable rows of the table.
LEMMA FetchedAreClaimable ==
    /\ fetch_pending_tasks \subseteq Tasks
    /\ \A t \in fetch_pending_tasks : Claimable(t)
  BY DEF fetch_pending_tasks

\* The loop's step to the next task keeps the worker's fields well typed.
LEMMA AdvanceType ==
    ASSUME TypeOK, NEW w \in Workers, NEW t \in Tasks, Current(w, t), Advance(w, t)
    PROVE  /\ pc' \in [Workers -> PC]
           /\ todo' \in [Workers -> SUBSET Tasks]
           /\ error' \in [Workers -> {"none", "text", "blank"}]
           /\ stop' \in [Workers -> BOOLEAN]
           /\ \A v \in Workers : todo'[v] = {} <=> pc'[v] \in {"stopped", "poll"}
<1>1. todo' = [todo EXCEPT ![w] = todo[w] \ {t}]
  BY DEF Advance, TypeOK
<1>2. pc' = [pc EXCEPT ![w] = IF todo[w] = {t} THEN "poll" ELSE "route"]
  BY DEF Advance
<1>3. t \in todo[w]
  BY DEF Current
<1>4. todo[w] \ {t} = {} <=> todo[w] = {t}
  BY <1>3
<1>5. \A v \in Workers : todo'[v] = {} <=> pc'[v] \in {"stopped", "poll"}
  <2> SUFFICES ASSUME NEW v \in Workers PROVE todo'[v] = {} <=> pc'[v] \in {"stopped", "poll"}
    OBVIOUS
  <2>1. CASE v = w
    BY <1>1, <1>2, <1>4, <2>1 DEF TypeOK
  <2>2. CASE v # w
    BY <1>1, <1>2, <2>2 DEF TypeOK
  <2> QED BY <2>1, <2>2
<1> QED
  BY <1>1, <1>2, <1>5 DEF Advance, TypeOK, PC

\* Every step keeps the columns, the keys and the workers well typed.
LEMMA TypeStep == TypeOK /\ [Next]_vars => TypeOK'
<1> SUFFICES ASSUME TypeOK, [Next]_vars PROVE TypeOK'
  OBVIOUS
<1> USE DEF TypeOK, rowVars, workerVars, Status, PC, Age, NULL
<1>1. ASSUME NEW t \in Tasks, create_task(t) PROVE TypeOK'
  BY <1>1 DEF create_task
<1>2. ASSUME NEW w \in Workers, StartWorker(w) PROVE TypeOK'
  BY <1>2 DEF StartWorker
<1>3. ASSUME NEW w \in Workers, RequestStop(w) PROVE TypeOK'
  BY <1>3 DEF RequestStop, Fault
<1>4. ASSUME NEW w \in Workers, ExitWorker(w) PROVE TypeOK'
  BY <1>4 DEF ExitWorker
<1>5. ASSUME NEW w \in Workers, Crash(w) PROVE TypeOK'
  BY <1>5 DEF Crash, Fault
<1>6. ASSUME NEW w \in Workers, claim_pending_batch(w) PROVE TypeOK'
  BY <1>6, FetchedAreClaimable DEF claim_pending_batch, mark_processing
<1>7. ASSUME NEW w \in Workers, PollNothing(w) PROVE TypeOK'
  BY <1>7 DEF PollNothing, vars
<1>8. ASSUME NEW w \in Workers, NEW t \in Tasks, RouteAcquired(w, t) PROVE TypeOK'
  BY <1>8 DEF RouteAcquired, acquire_outbox_lock, Current
<1>9. ASSUME NEW w \in Workers, NEW t \in Tasks, RouteRefused(w, t) PROVE TypeOK'
  BY <1>9 DEF RouteRefused, Current
<1>10. ASSUME NEW w \in Workers, NEW t \in Tasks, RouteRedisError(w, t) PROVE TypeOK'
  BY <1>10 DEF RouteRedisError, acquire_outbox_lock, Current, Fault
<1>11. ASSUME NEW w \in Workers, NEW t \in Tasks, HandlerReturns(w, t) PROVE TypeOK'
  BY <1>11 DEF HandlerReturns, Executing, Current
<1>12. ASSUME NEW w \in Workers, NEW t \in Tasks, HandlerRaises(w, t) PROVE TypeOK'
  BY <1>12 DEF HandlerRaises, release_outbox_lock, Executing, Current
<1>13. ASSUME NEW w \in Workers, NEW t \in Tasks, HandlerRaisesRedisError(w, t) PROVE TypeOK'
  BY <1>13 DEF HandlerRaisesRedisError, Executing, Current, Fault
<1>14. ASSUME NEW w \in Workers, NEW t \in Tasks, finalize_task_success(w, t) PROVE TypeOK'
  BY <1>14, AdvanceType DEF finalize_task_success, mark_completed
<1>15. ASSUME NEW w \in Workers, NEW t \in Tasks, finalize_task_failure(w, t) PROVE TypeOK'
  BY <1>15, AdvanceType DEF finalize_task_failure, mark_failed
<1>16. ASSUME NEW w \in Workers, NEW t \in Tasks, SkipTask(w, t) PROVE TypeOK'
  BY <1>16, AdvanceType DEF SkipTask, release_task_claim
<1>17. ASSUME NEW w \in Workers, NEW t \in Tasks, FinalizeDatabaseError(w, t) PROVE TypeOK'
  BY <1>17, AdvanceType DEF FinalizeDatabaseError, Fault
<1>18. ASSUME Tick PROVE TypeOK'
  BY <1>18 DEF Tick
<1>19. ASSUME UNCHANGED vars PROVE TypeOK'
  BY <1>19 DEF vars
<1>20. ASSUME NEW w \in Workers, ClaimDatabaseError(w) PROVE TypeOK'
  BY <1>20, FetchedAreClaimable DEF ClaimDatabaseError, mark_processing, Fault
<1> QED
  BY <1>1, <1>2, <1>3, <1>4, <1>5, <1>6, <1>7, <1>8, <1>9, <1>10, <1>11, <1>12,
     <1>13, <1>14, <1>15, <1>16, <1>17, <1>18, <1>19, <1>20
     DEF Next, WorkerStep, FaultStep

\* Type correctness of the table, the Redis keys and the workers.
THEOREM TypeCorrect == Spec => []TypeOK
<1>1. Init => TypeOK
  BY DEF Init, TypeOK, Status, PC, Age, NULL
<1> QED
  BY <1>1, TypeStep, PTL DEF Spec

(***************************************************************************)
(* Claims, when batches are prompt.  A row in a live worker's hands is     *)
(* PROCESSING under a claim too young to be reclaimed, so nobody else can  *)
(* fetch it; that is what makes exclusivity inductive, and what makes the  *)
(* unguarded UPDATEs of mark_completed and mark_failed harmless.           *)
(***************************************************************************)
HeldRowsAreFresh ==
    \A w \in Workers : \A t \in todo[w] :
        status[t] = "PROCESSING" /\ claimed_at[t] \in 0 .. ReclaimSeconds

\* A row that can still be tried has a retry left.
OpenRowsHaveRetries ==
    \A t \in Tasks : status[t] \in {"absent", "PENDING", "PROCESSING"} => retry_count[t] < MaxRetries

ClaimInv ==
    TypeOK /\ HeldRowsAreFresh /\ ClaimExclusive /\ RetriesBounded /\ OpenRowsHaveRetries

\* A held row is not claimable.
LEMMA HeldNotClaimable ==
    ASSUME HeldRowsAreFresh, NEW w \in Workers, NEW t \in todo[w]
    PROVE  ~Claimable(t)
  BY DEF HeldRowsAreFresh, Claimable, NULL

\* Under ClaimInv a closing transaction of w on t touches a row that is w's
\* alone and PROCESSING: whatever it writes, the other claims are untouched.
LEMMA CloseStep ==
    ASSUME ClaimInv, TypeOK', NEW w \in Workers, NEW t \in Tasks, Current(w, t), Advance(w, t),
           \A u \in Tasks \ {t} : /\ status'[u] = status[u]
                                 /\ claimed_at'[u] = claimed_at[u]
                                 /\ retry_count'[u] = retry_count[u],
           retry_count'[t] <= MaxRetries,
           status'[t] \in {"absent", "PENDING", "PROCESSING"} => retry_count'[t] < MaxRetries
    PROVE  ClaimInv' /\ CompletedStays
<1>1. todo' = [todo EXCEPT ![w] = todo[w] \ {t}] /\ t \in todo[w] /\ t \notin todo'[w]
  BY DEF Advance, Current, ClaimInv, TypeOK
<1>2. ClaimExclusive'
  BY <1>1 DEF ClaimInv, ClaimExclusive, TypeOK
<1>3. \A v \in Workers : todo'[v] \subseteq todo[v] /\ t \notin todo'[v]
  BY <1>1 DEF ClaimInv, ClaimExclusive, TypeOK
<1>4. HeldRowsAreFresh'
  BY <1>3 DEF ClaimInv, HeldRowsAreFresh, TypeOK
<1>5. RetriesBounded' /\ OpenRowsHaveRetries'
  BY DEF ClaimInv, RetriesBounded, OpenRowsHaveRetries, TypeOK
<1>6. CompletedStays
  BY <1>1 DEF CompletedStays, ClaimInv, HeldRowsAreFresh, TypeOK
<1> QED
  BY <1>2, <1>4, <1>5, <1>6 DEF ClaimInv

\* A step that leaves the rows and the claims alone keeps the claim invariant.
LEMMA ClaimsUntouched ==
    ASSUME ClaimInv, TypeOK', UNCHANGED rowVars,
           \A w \in Workers : todo'[w] \subseteq todo[w]
    PROVE  ClaimInv' /\ CompletedStays
<1>1. HeldRowsAreFresh' /\ ClaimExclusive'
  BY DEF ClaimInv, HeldRowsAreFresh, ClaimExclusive, TypeOK, rowVars
<1>2. RetriesBounded' /\ OpenRowsHaveRetries' /\ CompletedStays
  BY DEF ClaimInv, RetriesBounded, OpenRowsHaveRetries, CompletedStays, rowVars
<1> QED
  BY <1>1, <1>2 DEF ClaimInv

\* With prompt batches every step keeps the claim invariant and leaves
\* COMPLETED rows COMPLETED.
LEMMA ClaimStep ==
    ASSUME PromptBatches, ClaimInv, [Next]_vars
    PROVE  ClaimInv' /\ CompletedStays
<1>0. TypeOK /\ TypeOK'
  BY TypeStep DEF ClaimInv
<1>1. ASSUME NEW t \in Tasks, create_task(t) PROVE ClaimInv' /\ CompletedStays
  BY <1>0, <1>1 DEF create_task, ClaimInv, HeldRowsAreFresh, ClaimExclusive, RetriesBounded,
     OpenRowsHaveRetries, CompletedStays, TypeOK, rowVars, workerVars
<1>2. ASSUME NEW w \in Workers, claim_pending_batch(w) PROVE ClaimInv' /\ CompletedStays
  <2> DEFINE B == fetch_pending_tasks
  <2>1. B \subseteq Tasks /\ \A t \in B : Claimable(t)
    BY FetchedAreClaimable
  <2>2. \A v \in Workers : B \cap todo[v] = {}
    BY <2>1, HeldNotClaimable DEF ClaimInv
  <2>3. /\ todo' = [todo EXCEPT ![w] = B]
        /\ status' = [t \in Tasks |-> IF t \in B THEN "PROCESSING" ELSE status[t]]
        /\ claimed_at' = [t \in Tasks |-> IF t \in B THEN 0 ELSE claimed_at[t]]
        /\ retry_count' = retry_count
    BY <1>2 DEF claim_pending_batch, mark_processing
  <2> HIDE DEF B
  <2>4. ClaimExclusive'
    BY <1>0, <2>2, <2>3 DEF ClaimInv, ClaimExclusive, TypeOK
  <2>5. HeldRowsAreFresh'
    BY <1>0, <2>1, <2>2, <2>3 DEF ClaimInv, HeldRowsAreFresh, TypeOK
  <2>6. RetriesBounded' /\ OpenRowsHaveRetries' /\ CompletedStays
    BY <1>0, <2>1, <2>3 DEF ClaimInv, RetriesBounded, OpenRowsHaveRetries, CompletedStays,
       Claimable, TypeOK
  <2> QED
    BY <1>0, <2>4, <2>5, <2>6 DEF ClaimInv
<1>3. ASSUME NEW w \in Workers, NEW t \in Tasks, finalize_task_success(w, t)
      PROVE ClaimInv' /\ CompletedStays
  BY <1>0, <1>3, CloseStep DEF finalize_task_success, mark_completed, ClaimInv, RetriesBounded, TypeOK
<1>4. ASSUME NEW w \in Workers, NEW t \in Tasks, finalize_task_failure(w, t)
      PROVE ClaimInv' /\ CompletedStays
  <2>1. retry_count[t] < MaxRetries
    BY <1>0, <1>4 DEF finalize_task_failure, Current, ClaimInv, HeldRowsAreFresh, OpenRowsHaveRetries
  <2>2. CASE error[w] = "blank"
    BY <1>0, <1>4, <2>1, <2>2, CloseStep DEF finalize_task_failure, rowVars, TypeOK
  <2>3. CASE error[w] # "blank"
    BY <1>0, <1>4, <2>1, <2>3, CloseStep DEF finalize_task_failure, mark_failed, TypeOK
  <2> QED
    BY <2>2, <2>3
<1>5. ASSUME NEW w \in Workers, NEW t \in Tasks, SkipTask(w, t) PROVE ClaimInv' /\ CompletedStays
  <2>1. retry_count[t] < MaxRetries
    BY <1>0, <1>5 DEF SkipTask, Current, ClaimInv, HeldRowsAreFresh, OpenRowsHaveRetries
  <2>2. /\ Current(w, t) /\ Advance(w, t)
        /\ claimed_at' = claimed_at /\ retry_count' = retry_count
        /\ \A u \in Tasks \ {t} : status'[u] = status[u]
    BY <1>0, <1>5 DEF SkipTask, release_task_claim, TypeOK
  <2> QED
    BY <1>0, <2>1, <2>2, CloseStep DEF TypeOK
<1>6. ASSUME Tick PROVE ClaimInv' /\ CompletedStays
  <2>1. todo' = todo /\ status' = status /\ retry_count' = retry_count
    BY <1>6 DEF Tick, workerVars
  <2>2. HeldRowsAreFresh'
    BY <1>0, <1>6, <2>1 DEF Tick, ClaimInv, HeldRowsAreFresh, TypeOK
  <2> QED
    BY <1>0, <2>1, <2>2 DEF ClaimInv, ClaimExclusive, RetriesBounded, OpenRowsHaveRetries, CompletedStays
<1>7. ASSUME UNCHANGED rowVars, \A w \in Workers : todo'[w] \subseteq todo[w]
      PROVE ClaimInv' /\ CompletedStays
  BY <1>0, <1>7, ClaimsUntouched
<1>8. ASSUME NEW w \in Workers, Crash(w) PROVE ClaimInv' /\ CompletedStays
  BY <1>0, <1>7, <1>8 DEF Crash, TypeOK
<1>9. ASSUME NEW w \in Workers, NEW t \in Tasks, FinalizeDatabaseError(w, t)
      PROVE ClaimInv' /\ CompletedStays
  BY <1>0, <1>7, <1>9 DEF FinalizeDatabaseError, Advance, TypeOK
<1>10. ASSUME NEW w \in Workers,
              \/ StartWorker(w) \/ RequestStop(w) \/ ExitWorker(w) \/ PollNothing(w)
              \/ \E t \in Tasks : \/ RouteAcquired(w, t) \/ RouteRefused(w, t)
                                  \/ RouteRedisError(w, t) \/ HandlerReturns(w, t)
                                  \/ HandlerRaises(w, t) \/ HandlerRaisesRedisError(w, t)
       PROVE ClaimInv' /\ CompletedStays
  <2>1. UNCHANGED rowVars /\ todo' = todo
    BY <1>10 DEF StartWorker, RequestStop, ExitWorker, PollNothing, RouteAcquired, RouteRefused,
       RouteRedisError, HandlerReturns, HandlerRaises, HandlerRaisesRedisError, vars, workerVars
  <2> QED
    BY <1>7, <2>1
<1>11. ASSUME UNCHANGED vars PROVE ClaimInv' /\ CompletedStays
  BY <1>7, <1>11 DEF vars, workerVars
<1>12. ASSUME NEW w \in Workers, ClaimDatabaseError(w) PROVE ClaimInv' /\ CompletedStays
  <2>1. CASE UNCHANGED rowVars
    BY <1>7, <1>12, <2>1 DEF ClaimDatabaseError, workerVars
  <2>2. CASE mark_processing(fetch_pending_tasks)
    <3> DEFINE B == fetch_pending_tasks
    <3>1. B \subseteq Tasks /\ \A t \in B : Claimable(t)
      BY FetchedAreClaimable
    <3>2. \A v \in Workers : B \cap todo[v] = {}
      BY <3>1, HeldNotClaimable DEF ClaimInv
    <3>3. /\ todo' = todo
          /\ status' = [t \in Tasks |-> IF t \in B THEN "PROCESSING" ELSE status[t]]
          /\ claimed_at' = [t \in Tasks |-> IF t \in B THEN 0 ELSE claimed_at[t]]
          /\ retry_count' = retry_count
      BY <1>12, <2>2 DEF ClaimDatabaseError, mark_processing, workerVars
    <3> HIDE DEF B
    <3>4. ClaimExclusive' /\ HeldRowsAreFresh'
      BY <1>0, <3>2, <3>3 DEF ClaimInv, ClaimExclusive, HeldRowsAreFresh, TypeOK
    <3>5. RetriesBounded' /\ OpenRowsHaveRetries' /\ CompletedStays
      BY <1>0, <3>1, <3>3 DEF ClaimInv, RetriesBounded, OpenRowsHaveRetries, CompletedStays,
         Claimable, TypeOK
    <3> QED
      BY <1>0, <3>4, <3>5 DEF ClaimInv
  <2> QED
    BY <1>12, <2>1, <2>2 DEF ClaimDatabaseError
<1> QED
  BY <1>1, <1>2, <1>3, <1>4, <1>5, <1>6, <1>8, <1>9, <1>10, <1>11, <1>12 DEF Next, WorkerStep, FaultStep

\* The claim invariant holds from the empty table on.
LEMMA ClaimInit == Init => ClaimInv
<1> SUFFICES ASSUME Init PROVE ClaimInv
  OBVIOUS
<1>1. TypeOK
  BY DEF Init, TypeOK, Status, PC, Age, NULL
<1> QED
  BY <1>1 DEF Init, ClaimInv, HeldRowsAreFresh, ClaimExclusive, RetriesBounded, OpenRowsHaveRetries

\* The promise of models/outbox.py:36, with the condition it needs: if every
\* claimed batch is finished within OUTBOX_RECLAIM_SECONDS, no task is ever
\* in the hands of two live workers, with or without Redis.
THEOREM ClaimsAreExclusive == ASSUME PromptBatches PROVE Spec => []ClaimExclusive
<1>1. ClaimInv /\ [Next]_vars => ClaimInv'
  BY ClaimStep
<1>2. ClaimInv => ClaimExclusive
  BY DEF ClaimInv
<1> QED
  BY <1>1, <1>2, ClaimInit, PTL DEF Spec

\* Under the same condition no task's retry_count passes max_retries.
THEOREM RetriesAreBounded == ASSUME PromptBatches PROVE Spec => []RetriesBounded
<1>1. ClaimInv /\ [Next]_vars => ClaimInv'
  BY ClaimStep
<1>2. ClaimInv => RetriesBounded
  BY DEF ClaimInv
<1> QED
  BY <1>1, <1>2, ClaimInit, PTL DEF Spec

\* Under the same condition no step takes a row out of COMPLETED, although
\* none of the UPDATEs of OutboxDAO looks at the status it overwrites.
THEOREM CompletionIsFinal == ASSUME PromptBatches PROVE Spec => CompletedIsFinal
<1>1. ClaimInv /\ [Next]_vars => ClaimInv'
  BY ClaimStep
<1>2. ClaimInv /\ [Next]_vars => [CompletedStays]_vars
  BY ClaimStep
<1> QED
  BY <1>1, <1>2, ClaimInit, PTL DEF Spec, CompletedIsFinal

(***************************************************************************)
(* Executions, when handlers are prompt and Redis is configured.  Batches  *)
(* may run as late as they like, so a row may be in several hands; what    *)
(* keeps its handler alone is the key, which is there as long as anybody   *)
(* executes.                                                               *)
(***************************************************************************)
ExecutingHasKey ==
    \A w \in Workers : \A t \in Tasks : Executing(w, t) => lock[t] > 0

MutexInv == TypeOK /\ ExecutingHasKey /\ HandlerMutex

\* A step after which nobody executes who did not execute before, and that
\* deletes no key of a task still being executed, keeps the invariant.
LEMMA NoNewExecution ==
    ASSUME MutexInv, TypeOK',
           \A v \in Workers : \A u \in Tasks :
               Executing(v, u)' => Executing(v, u) /\ lock'[u] > 0
    PROVE  MutexInv'
<1>1. ExecutingHasKey'
  BY DEF ExecutingHasKey
<1>2. HandlerMutex'
  BY DEF MutexInv, HandlerMutex
<1> QED
  BY <1>1, <1>2 DEF MutexInv

\* A step of w alone, after which w does not execute and all keys are as
\* before, is such a step.
LEMMA WorkerLeaves ==
    ASSUME MutexInv, TypeOK', NEW w \in Workers, lock' = lock, pc'[w] # "execute",
           \A v \in Workers \ {w} : pc'[v] = pc[v] /\ todo'[v] = todo[v]
    PROVE  MutexInv'
<1>1. \A v \in Workers : \A u \in Tasks : Executing(v, u)' => Executing(v, u) /\ lock'[u] > 0
  BY DEF Executing, Current, MutexInv, ExecutingHasKey
<1> QED
  BY <1>1, NoNewExecution

\* With prompt handlers and Redis every step keeps the executions apart.
LEMMA MutexStep ==
    ASSUME PromptHandlers, RedisConfigured, MutexInv, [Next]_vars
    PROVE  MutexInv'
<1>0. TypeOK /\ TypeOK'
  BY TypeStep DEF MutexInv
<1>1. ASSUME NEW w \in Workers, NEW t \in Tasks, RouteAcquired(w, t) PROVE MutexInv'
  <2>1. \A v \in Workers : ~Executing(v, t)
    BY <1>0, <1>1 DEF RouteAcquired, MutexInv, ExecutingHasKey
  <2>2. /\ lock' = [lock EXCEPT ![t] = LockTTL]
        /\ pc' = [pc EXCEPT ![w] = "execute"]
        /\ todo' = todo
        /\ Current(w, t)
    BY <1>1 DEF RouteAcquired, acquire_outbox_lock
  <2>3. \A v \in Workers : \A u \in Tasks :
           Executing(v, u)' => (v = w /\ u = t) \/ Executing(v, u)
    <3> SUFFICES ASSUME NEW v \in Workers, NEW u \in Tasks, Executing(v, u)'
                 PROVE  (v = w /\ u = t) \/ Executing(v, u)
      OBVIOUS
    <3>1. CASE v = w
      <4>1. u \in Nat /\ t \in Nat
        OBVIOUS
      <4>2. t <= u /\ u <= t
        BY <2>2, <3>1 DEF Executing, Current
      <4> QED
        BY <3>1, <4>1, <4>2
    <3>2. CASE v # w
      BY <1>0, <2>2, <3>2 DEF Executing, Current, TypeOK
    <3> QED
      BY <3>1, <3>2
  <2>4. ExecutingHasKey'
    BY <1>0, <2>2, <2>3 DEF MutexInv, ExecutingHasKey, TypeOK
  <2>5. HandlerMutex'
    BY <2>1, <2>3 DEF MutexInv, HandlerMutex
  <2> QED
    BY <1>0, <2>4, <2>5 DEF MutexInv
<1>2. ASSUME NEW w \in Workers, NEW t \in Tasks, HandlerRaises(w, t) PROVE MutexInv'
  <2>1. /\ lock' = [lock EXCEPT ![t] = 0]
        /\ pc' = [pc EXCEPT ![w] = "failed"]
        /\ todo' = todo
        /\ Executing(w, t)
    BY <1>2 DEF HandlerRaises, release_outbox_lock
  <2>2. \A v \in Workers : \A u \in Tasks : Executing(v, u)' => Executing(v, u) /\ v # w
    BY <1>0, <2>1 DEF Executing, Current, TypeOK
  <2>3. \A v \in Workers : \A u \in Tasks : Executing(v, u)' => u # t
    BY <2>1, <2>2 DEF MutexInv, HandlerMutex
  <2> QED
    BY <1>0, <2>1, <2>2, <2>3, NoNewExecution DEF MutexInv, ExecutingHasKey, TypeOK
<1>3. ASSUME NEW w \in Workers, NEW t \in Tasks, RouteRedisError(w, t) PROVE MutexInv'
  <2>1. /\ pc' = [pc EXCEPT ![w] = "failed"] /\ todo' = todo
        /\ \A u \in Tasks : lock[u] > 0 => lock'[u] > 0
    BY <1>0, <1>3 DEF RouteRedisError, acquire_outbox_lock, TypeOK
  <2>2. \A v \in Workers : \A u \in Tasks : Executing(v, u)' => Executing(v, u)
    BY <1>0, <2>1 DEF Executing, Current, TypeOK
  <2> QED
    BY <1>0, <2>1, <2>2, NoNewExecution DEF MutexInv, ExecutingHasKey
<1>4. ASSUME Tick PROVE MutexInv'
  <2>1. \A v \in Workers : \A u \in Tasks : Executing(v, u)' <=> Executing(v, u)
    BY <1>4 DEF Tick, workerVars, Executing, Current
  <2>2. \A v \in Workers : \A u \in Tasks : Executing(v, u) => lock[u] > 1
    BY <1>0, <1>4 DEF Tick, MutexInv, ExecutingHasKey, TypeOK
  <2>3. \A u \in Tasks : lock[u] > 1 => lock'[u] > 0
    BY <1>0, <1>4 DEF Tick, TypeOK
  <2> QED
    BY <1>0, <2>1, <2>2, <2>3, NoNewExecution
<1>5. ASSUME NEW w \in Workers, NEW t \in Tasks,
             \/ finalize_task_success(w, t) \/ finalize_task_failure(w, t)
             \/ SkipTask(w, t) \/ FinalizeDatabaseError(w, t)
      PROVE MutexInv'
  BY <1>0, <1>5, WorkerLeaves DEF finalize_task_success, finalize_task_failure, SkipTask,
     FinalizeDatabaseError, Advance, TypeOK
<1>6. ASSUME NEW w \in Workers, NEW t \in Tasks,
             \/ RouteRefused(w, t) \/ HandlerReturns(w, t) \/ HandlerRaisesRedisError(w, t)
      PROVE MutexInv'
  BY <1>0, <1>6, WorkerLeaves DEF RouteRefused, HandlerReturns, HandlerRaisesRedisError, TypeOK
<1>7. ASSUME NEW w \in Workers,
             \/ StartWorker(w) \/ ExitWorker(w) \/ Crash(w) \/ claim_pending_batch(w)
      PROVE MutexInv'
  BY <1>0, <1>7, WorkerLeaves DEF StartWorker, ExitWorker, Crash, claim_pending_batch, TypeOK
<1>8. ASSUME lock' = lock, pc' = pc, todo' = todo PROVE MutexInv'
  <2>1. \A v \in Workers : \A u \in Tasks : Executing(v, u)' <=> Executing(v, u)
    BY <1>8 DEF Executing, Current
  <2> QED
    BY <1>0, <1>8, <2>1, NoNewExecution DEF MutexInv, ExecutingHasKey
<1>9. ASSUME NEW w \in Workers, RequestStop(w) \/ PollNothing(w) \/ ClaimDatabaseError(w)
      PROVE MutexInv'
  BY <1>8, <1>9 DEF RequestStop, PollNothing, ClaimDatabaseError, vars, workerVars
<1>10. ASSUME NEW t \in Tasks, create_task(t) PROVE MutexInv'
  BY <1>8, <1>10 DEF create_task, workerVars
<1>11. ASSUME UNCHANGED vars PROVE MutexInv'
  BY <1>8, <1>11 DEF vars, workerVars
<1> QED
  BY <1>1, <1>2, <1>3, <1>4, <1>5, <1>6, <1>7, <1>9, <1>10, <1>11 DEF Next, WorkerStep, FaultStep

\* The Redis key does its job (route_outbox_task): if every handler returns
\* before its own key expires, no two workers ever run the handler of one
\* task at the same time, however often rows are reclaimed from late
\* batches, workers crash or Redis calls fail.
THEOREM HandlersAreExclusive ==
    ASSUME PromptHandlers, RedisConfigured PROVE Spec => []HandlerMutex
<1>1. Init => MutexInv
  <2> SUFFICES ASSUME Init PROVE MutexInv
    OBVIOUS
  <2>1. TypeOK
    BY DEF Init, TypeOK, Status, PC, Age, NULL
  <2>2. \A w \in Workers : \A t \in Tasks : ~Executing(w, t)
    BY DEF Init, Executing
  <2> QED
    BY <2>1, <2>2 DEF MutexInv, ExecutingHasKey, HandlerMutex
<1>2. MutexInv /\ [Next]_vars => MutexInv'
  BY MutexStep
<1>3. MutexInv => HandlerMutex
  BY DEF MutexInv
<1> QED
  BY <1>1, <1>2, <1>3, PTL DEF Spec

(***************************************************************************)
(* Refinement.  Under ClaimInv the owner of a task is the one worker that  *)
(* has it in its batch, so CHOOSE in OwnerOf has one candidate.            *)
(***************************************************************************)
OwnersAreHolders ==
    \A t \in Tasks :
        /\ \A w \in Workers : OwnerOf(t) = w <=> t \in todo[w]
        /\ OwnerOf(t) = NoWorker <=> \A w \in Workers : t \notin todo[w]
        /\ OwnerOf(t) \in Workers \cup {NoWorker}

\* The owner the mapping chooses is the worker holding the task.
LEMMA OwnerUnique == ClaimInv => OwnersAreHolders
<1> SUFFICES ASSUME ClaimInv, NEW t \in Tasks
             PROVE  /\ \A w \in Workers : OwnerOf(t) = w <=> t \in todo[w]
                    /\ OwnerOf(t) = NoWorker <=> \A w \in Workers : t \notin todo[w]
                    /\ OwnerOf(t) \in Workers \cup {NoWorker}
  BY DEF OwnersAreHolders
<1>1. CASE \E w \in Workers : t \in todo[w]
  <2>1. OwnerOf(t) \in Workers /\ t \in todo[OwnerOf(t)]
    BY <1>1 DEF OwnerOf
  <2>2. \A w \in Workers : t \in todo[w] => w = OwnerOf(t)
    BY <2>1 DEF ClaimInv, ClaimExclusive
  <2> QED
    BY <1>1, <2>1, <2>2 DEF NoWorker, NULL
<1>2. CASE ~ \E w \in Workers : t \in todo[w]
  BY <1>2 DEF OwnerOf, NoWorker, NULL
<1> QED
  BY <1>1, <1>2

\* The same of the state after a step.
LEMMA OwnerUniqueNext == ClaimInv' => OwnersAreHolders'
  BY OwnerUnique, PTL

\* A step that changes neither what producers see nor who holds what is a
\* stutter of the contract.
LEMMA ContractStutter ==
    ASSUME ClaimInv, ClaimInv', \A t \in Tasks : StateOf(t)' = StateOf(t),
           \A w \in Workers : todo'[w] = todo[w]
    PROVE  UNCHANGED Contract!vars
<1>1. OwnersAreHolders /\ OwnersAreHolders'
  BY OwnerUnique, OwnerUniqueNext
<1>2. \A t \in Tasks : OwnerOf(t)' = OwnerOf(t)
  BY <1>1 DEF OwnersAreHolders, NoWorker, NULL
<1> QED
  BY <1>2 DEF Contract!vars

\* The end of w's work on t, whatever the row becomes, is a Settle.
LEMMA ContractSettle ==
    ASSUME ClaimInv, ClaimInv', NEW w \in Workers, NEW t \in Tasks, Current(w, t), Advance(w, t),
           \A u \in Tasks \ {t} : StateOf(u)' = StateOf(u),
           StateOf(t)' \in {"open", "done", "dead"}
    PROVE  Contract!Settle(w, t)
<1>1. OwnersAreHolders /\ OwnersAreHolders'
  BY OwnerUnique, OwnerUniqueNext
<1>2. t \in todo[w] /\ todo' = [todo EXCEPT ![w] = todo[w] \ {t}] /\ todo \in [Workers -> SUBSET Tasks]
  BY DEF Current, Advance, ClaimInv, TypeOK
<1>3. \A v \in Workers : t \notin todo'[v]
  BY <1>2 DEF ClaimInv, ClaimExclusive
<1>4. OwnerOf(t) = w /\ OwnerOf(t)' = NoWorker
  BY <1>1, <1>2, <1>3 DEF OwnersAreHolders, NoWorker, NULL
<1>5. \A u \in Tasks \ {t} : OwnerOf(u)' = OwnerOf(u)
  BY <1>1, <1>2 DEF OwnersAreHolders, NoWorker, NULL
<1>6. [u \in Tasks |-> OwnerOf(u)]' = [[u \in Tasks |-> OwnerOf(u)] EXCEPT ![t] = NoWorker]
  BY <1>4, <1>5
<1>7. [u \in Tasks |-> StateOf(u)]' = [[u \in Tasks |-> StateOf(u)] EXCEPT ![t] = StateOf(t)']
  OBVIOUS
<1> QED
  BY <1>4, <1>6, <1>7 DEF Contract!Settle

\* Every step of Outbox is a step or a stutter of the contract.
LEMMA RefinementStep ==
    ASSUME ClaimInv, ClaimInv', [Next]_vars
    PROVE  [Contract!Next]_(Contract!vars)
<1>0. TypeOK /\ TypeOK' /\ OwnersAreHolders /\ OwnersAreHolders'
  BY OwnerUnique, OwnerUniqueNext DEF ClaimInv
<1>1. ASSUME NEW t \in Tasks, create_task(t) PROVE Contract!Submit(t)
  <2>1. \A u \in Tasks : OwnerOf(u)' = OwnerOf(u)
    BY <1>0, <1>1 DEF create_task, workerVars, OwnersAreHolders, NoWorker, NULL
  <2>2. StateOf(t) = "absent" /\ StateOf(t)' = "open"
    BY <1>0, <1>1 DEF create_task, StateOf, Exhausted, TypeOK
  <2>3. \A u \in Tasks \ {t} : StateOf(u)' = StateOf(u)
    BY <1>0, <1>1 DEF create_task, StateOf, Exhausted, TypeOK
  <2>4. [u \in Tasks |-> StateOf(u)]' = [[u \in Tasks |-> StateOf(u)] EXCEPT ![t] = "open"]
    BY <2>2, <2>3
  <2> QED
    BY <2>1, <2>2, <2>4 DEF Contract!Submit
<1>2. ASSUME NEW w \in Workers, claim_pending_batch(w)
      PROVE  \E B \in SUBSET Tasks : Contract!Take(w, B)
  <2> DEFINE B == fetch_pending_tasks
  <2>1. B \subseteq Tasks /\ B # {} /\ \A t \in B : Claimable(t)
    BY <1>2, FetchedAreClaimable DEF claim_pending_batch
  <2>2. \A v \in Workers : B \cap todo[v] = {}
    BY <2>1, HeldNotClaimable DEF ClaimInv
  <2>3. /\ todo' = [todo EXCEPT ![w] = B]
        /\ status' = [t \in Tasks |-> IF t \in B THEN "PROCESSING" ELSE status[t]]
        /\ retry_count' = retry_count
        /\ todo[w] = {}
    BY <1>0, <1>2 DEF claim_pending_batch, mark_processing, TypeOK
  <2> HIDE DEF B
  <2>4. \A t \in B : StateOf(t) = "open" /\ StateOf(t)' = "open"
    <3> SUFFICES ASSUME NEW t \in B PROVE StateOf(t) = "open" /\ StateOf(t)' = "open"
      OBVIOUS
    <3>1. t \in Tasks /\ retry_count[t] \in Nat /\ Claimable(t)
      BY <1>0, <2>1 DEF TypeOK
    <3>2. status[t] \notin {"absent", "COMPLETED"} /\ ~Exhausted(t)
      BY <3>1 DEF Claimable, Exhausted
    <3>3. status'[t] = "PROCESSING"
      BY <2>3, <3>1
    <3> QED
      BY <3>2, <3>3 DEF StateOf, Exhausted
  <2>5. \A t \in Tasks \ B : StateOf(t)' = StateOf(t)
    BY <2>3 DEF StateOf, Exhausted
  <2>6. \A t \in Tasks : OwnerOf(t)' = IF t \in B THEN w ELSE OwnerOf(t)
    BY <1>0, <2>1, <2>2, <2>3 DEF OwnersAreHolders, TypeOK, NoWorker, NULL
  <2>7. \A t \in B : OwnerOf(t) = NoWorker
    BY <1>0, <2>1, <2>2 DEF OwnersAreHolders
  <2>8. \A t \in Tasks : OwnerOf(t) # w
    BY <1>0, <2>3 DEF OwnersAreHolders
  <2>9. [t \in Tasks |-> StateOf(t)]' = [t \in Tasks |-> StateOf(t)]
    BY <2>4, <2>5
  <2>10. [t \in Tasks |-> OwnerOf(t)]' =
            [t \in Tasks |-> IF t \in B THEN w ELSE [u \in Tasks |-> OwnerOf(u)][t]]
    BY <2>6
  <2>11. Contract!Take(w, B)
    BY <2>1, <2>4, <2>7, <2>8, <2>9, <2>10 DEF Contract!Take
  <2> QED
    BY <2>1, <2>11
<1>3. ASSUME NEW w \in Workers, NEW t \in Tasks,
             \/ finalize_task_success(w, t) \/ finalize_task_failure(w, t)
             \/ SkipTask(w, t) \/ FinalizeDatabaseError(w, t)
      PROVE  Contract!Settle(w, t)
  <2>1. Current(w, t) /\ Advance(w, t)
    BY <1>3 DEF finalize_task_success, finalize_task_failure, SkipTask, FinalizeDatabaseError
  <2>2. status[t] = "PROCESSING"
    BY <2>1 DEF Current, ClaimInv, HeldRowsAreFresh
  <2>3. /\ \A u \in Tasks \ {t} : status'[u] = status[u] /\ retry_count'[u] = retry_count[u]
        /\ status'[t] \in {"PROCESSING", "COMPLETED", "FAILED", "PENDING"}
    BY <1>0, <1>3, <2>2 DEF finalize_task_success, finalize_task_failure, SkipTask,
       FinalizeDatabaseError, mark_completed, mark_failed, release_task_claim, rowVars, TypeOK
  <2>4. \A u \in Tasks \ {t} : StateOf(u)' = StateOf(u)
    BY <2>3 DEF StateOf, Exhausted
  <2>5. StateOf(t)' \in {"open", "done", "dead"}
    BY <2>3 DEF StateOf, Exhausted
  <2> QED
    BY <2>1, <2>4, <2>5, ContractSettle
<1>4. ASSUME NEW w \in Workers, Crash(w) PROVE Contract!Lose(w)
  <2>1. todo' = [todo EXCEPT ![w] = {}] /\ status' = status /\ retry_count' = retry_count
    BY <1>4 DEF Crash, rowVars
  <2>2. \A t \in Tasks : StateOf(t)' = StateOf(t)
    BY <2>1 DEF StateOf, Exhausted
  <2>3. \A t \in Tasks : OwnerOf(t)' = IF OwnerOf(t) = w THEN NoWorker ELSE OwnerOf(t)
    BY <1>0, <2>1 DEF ClaimInv, ClaimExclusive, OwnersAreHolders, TypeOK, NoWorker, NULL
  <2>4. [t \in Tasks |-> OwnerOf(t)]' =
           [t \in Tasks |-> IF [u \in Tasks |-> OwnerOf(u)][t] = w THEN NoWorker
                            ELSE [u \in Tasks |-> OwnerOf(u)][t]]
    BY <2>3
  <2> QED
    BY <2>2, <2>4 DEF Contract!Lose
<1>5. ASSUME NEW w \in Workers, ClaimDatabaseError(w) PROVE UNCHANGED Contract!vars
  <2>1. todo' = todo
    BY <1>5 DEF ClaimDatabaseError, workerVars
  <2>2. \A t \in Tasks : StateOf(t)' = StateOf(t)
    BY <1>0, <1>5, FetchedAreClaimable DEF ClaimDatabaseError, mark_processing, rowVars, Claimable,
       StateOf, Exhausted, TypeOK
  <2> QED
    BY <2>1, <2>2, ContractStutter
<1>6. ASSUME status' = status, retry_count' = retry_count, todo' = todo
      PROVE  UNCHANGED Contract!vars
  <2>1. \A t \in Tasks : StateOf(t)' = StateOf(t)
    BY <1>6 DEF StateOf, Exhausted
  <2> QED
    BY <1>6, <2>1, ContractStutter
<1>7. ASSUME NEW w \in Workers,
             \/ StartWorker(w) \/ RequestStop(w) \/ ExitWorker(w) \/ PollNothing(w)
             \/ \E t \in Tasks : \/ RouteAcquired(w, t) \/ RouteRefused(w, t)
                                 \/ RouteRedisError(w, t) \/ HandlerReturns(w, t)
                                 \/ HandlerRaises(w, t) \/ HandlerRaisesRedisError(w, t)
      PROVE  UNCHANGED Contract!vars
  BY <1>6, <1>7 DEF StartWorker, RequestStop, ExitWorker, PollNothing, RouteAcquired, RouteRefused,
     RouteRedisError, HandlerReturns, HandlerRaises, HandlerRaisesRedisError, vars, rowVars, workerVars
<1>8. ASSUME Tick \/ UNCHANGED vars PROVE UNCHANGED Contract!vars
  BY <1>6, <1>8 DEF Tick, vars, rowVars, workerVars
<1> QED
  BY <1>1, <1>2, <1>3, <1>4, <1>5, <1>7, <1>8 DEF Next, WorkerStep, FaultStep, Contract!Next

\* The outbox keeps its contract: with prompt batches every behaviour of the
\* table, the Redis keys and the workers is one of OutboxContract.
THEOREM OutboxRefinesContract == ASSUME PromptBatches PROVE Spec => ImplementsContract
<1>1. Init => Contract!Init
  <2> SUFFICES ASSUME Init PROVE Contract!Init
    OBVIOUS
  <2>1. \A t \in Tasks : StateOf(t) = "absent"
    BY DEF Init, StateOf, Exhausted
  <2>2. \A t \in Tasks : OwnerOf(t) = NoWorker
    BY DEF Init, OwnerOf
  <2> QED
    BY <2>1, <2>2 DEF Contract!Init
<1>2. ClaimInv /\ [Next]_vars => ClaimInv'
  BY ClaimStep
<1>3. ClaimInv /\ ClaimInv' /\ [Next]_vars => [Contract!Next]_(Contract!vars)
  BY RefinementStep
<1> QED
  BY <1>1, <1>2, <1>3, ClaimInit, PTL DEF Spec, ImplementsContract, Contract!Spec
=============================================================================
