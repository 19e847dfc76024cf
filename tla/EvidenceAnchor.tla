--------------------------- MODULE EvidenceAnchor ---------------------------
(***************************************************************************)
(* The evidence sink (services/ingestor): arq jobs that store an evidence  *)
(* manifest in ClickHouse, add its digest to a batch list in Redis and,    *)
(* when the batch is full, number it and write an audit anchor for it; the *)
(* Postgres table of manifests whose insert failed; and the replay worker  *)
(* that takes those rows down the same path.                               *)
(*                                                                         *)
(* The batch list is per tenant and the tenant is a setting of the         *)
(* deployment, so there is one list.  The root of a batch stands for its   *)
(* leaves, in order: batches have a fixed size and the digest is taken to  *)
(* be injective.                                                           *)
(***************************************************************************)
EXTENDS Integers, Sequences, FiniteSets

CONSTANTS
    Manifests,          \* evidence manifests
    Jobs,               \* sink_manifest jobs, one per accepted enqueue_job
    ManifestOf,         \* per job: the manifest it carries
    Replayers,          \* replay worker processes
    KindChoices,        \* what the manifests may be: assignments of a kind to each
    BatchSize,          \* settings.batch_size
    MaxTries,           \* settings.arq_max_tries
    ReplayLimit,        \* settings.replay_batch_size
    AbandonAfter,       \* settings.replay_abandon_after_attempts
    PgConfigured,       \* ctx["pg"] is not None
    ToThreadCallable,   \* anyio.to_thread can be called like a function
    MaxFaults           \* bound: crashes, outages and lost answers

\* good: stored and anchored.  refused: ClickHouse rejects the row every time.
\* invalid: not a manifest, or one the schema registry refuses.
Kinds == {"good", "refused", "invalid"}
Actors == Jobs \cup Replayers

ASSUME ActorsAssumption ==
    /\ Jobs \cap Replayers = {}
    /\ IsFiniteSet(Jobs) /\ IsFiniteSet(Replayers)
    /\ ManifestOf \in [Jobs -> Manifests]
ASSUME KindsAssumption == KindChoices \subseteq [Manifests -> Kinds]
ASSUME BoundsAssumption ==
    /\ {BatchSize, MaxTries, ReplayLimit, AbandonAfter} \subseteq Nat \ {0}
    /\ MaxFaults \in Nat
ASSUME FlagsAssumption == {PgConfigured, ToThreadCallable} \subseteq BOOLEAN

VARIABLES
    kind,       \* per manifest: how its processing goes when nothing breaks
    pc,         \* per job or replay worker: where it stands
    tries,      \* per job: job_try of arq
    todo,       \* per replay worker: rows fetched and not yet processed, in order
    cut,        \* per actor: the batch it drew from the list, <<>> when none
    num,        \* per actor: the batch_seq of that batch
    evidence,   \* per manifest: its rows in evidence_manifests
    list,       \* the Redis batch list
    seq,        \* the Redis batch_seq counter
    appends,    \* per manifest: times it was pushed on the list (history)
    cuts,       \* batches drawn from the list (history)
    anchors,    \* the distinct rows of audit_anchors
    rows,       \* the failed_evidence table, by id
    dlq,        \* manifests on one of the Redis dead-letter lists
    faults      \* faults the environment may still inject

batchVars == <<cut, num, list, seq, appends, cuts, anchors>>
storeVars == <<evidence, rows, dlq>>
vars == <<kind, pc, tries, todo, batchVars, storeVars, faults>>

JobPC == {"absent", "queued", "insert", "park", "deadletter", "append", "number", "anchor",
          "done", "failed"}
ReplayPC == {"idle", "insert", "append", "number", "anchor", "failure", "success"}
Row == [manifest : Manifests, status : {"pending", "replayed", "abandoned"}, attempts : Nat]
Used == MaxFaults - faults
Fault == faults > 0 /\ faults' = faults - 1

Init ==
    /\ kind \in KindChoices
    /\ pc = [a \in Actors |-> IF a \in Jobs THEN "absent" ELSE "idle"]
    /\ tries = [j \in Jobs |-> 0]
    /\ todo = [w \in Replayers |-> <<>>]
    /\ cut = [a \in Actors |-> <<>>]
    /\ num = [a \in Actors |-> 0]
    /\ evidence = [m \in Manifests |-> 0]
    /\ list = <<>>
    /\ seq = 0
    /\ appends = [m \in Manifests |-> 0]
    /\ cuts = 0
    /\ anchors = {}
    /\ rows = <<>>
    /\ dlq = {}
    /\ faults = MaxFaults

\* The manifest an actor works on: a job's own, or that of the first fetched row.
ManifestAt(a) == IF a \in Jobs THEN ManifestOf[a] ELSE rows[todo[a][1]].manifest

Goto(a, step) == pc' = [pc EXCEPT ![a] = step]

(***************************************************************************)
(* The queue.                                                              *)
(***************************************************************************)
\* enqueue_manifest_bytes.  A second job for a manifest is a retry after an
\* answer of Redis that was lost.
Enqueue(j) ==
    /\ pc[j] = "absent"
    /\ Goto(j, "queued")
    /\ IF \E i \in Jobs : i # j /\ ManifestOf[i] = ManifestOf[j] /\ pc[i] # "absent"
       THEN Fault ELSE UNCHANGED faults
    /\ UNCHANGED <<kind, tries, todo, batchVars, storeVars>>

\* Variant: started again however often it was tried.
StartAlways(j) ==
    /\ pc[j] = "queued"
    /\ Goto(j, IF kind[ManifestOf[j]] = "invalid" THEN "deadletter" ELSE "insert")
    /\ tries' = [tries EXCEPT ![j] = @ + 1]
    /\ UNCHANGED <<kind, todo, batchVars, storeVars, faults>>

\* arq starts a job, or gives it up when it was started max_tries times.
Start(j) ==
    /\ pc[j] = "queued"
    /\ IF tries[j] = MaxTries
       THEN Goto(j, "failed") /\ UNCHANGED tries
       ELSE /\ Goto(j, IF kind[ManifestOf[j]] = "invalid" THEN "deadletter" ELSE "insert")
            /\ tries' = [tries EXCEPT ![j] = @ + 1]
    /\ UNCHANGED <<kind, todo, batchVars, storeVars, faults>>

\* The worker dies or shuts down under the job; arq runs it again from the
\* start.  What the job held in memory, a drawn batch included, is gone.
JobDies(j) ==
    /\ Fault
    /\ pc[j] \in {"insert", "park", "deadletter", "append", "number", "anchor"}
    /\ Goto(j, "queued")
    /\ cut' = [cut EXCEPT ![j] = <<>>]
    /\ num' = [num EXCEPT ![j] = 0]
    /\ UNCHANGED <<kind, tries, todo, evidence, list, seq, appends, cuts, anchors, rows, dlq>>

(***************************************************************************)
(* From the evidence row to the anchor, for a job and for a replayed row.  *)
(***************************************************************************)
\* A replay worker reaches ClickHouse through anyio.to_thread.
CanInsert(a) == a \in Jobs \/ ToThreadCallable

\* The path ended well.
Finish(a) == Goto(a, IF a \in Jobs THEN "done" ELSE "success")

\* An exception nobody catches: arq records the job as failed and does not
\* repeat it; the replay worker's process ends and is started again.
Uncaught(a) ==
    /\ Goto(a, IF a \in Jobs THEN "failed" ELSE "idle")
    /\ IF a \in Jobs THEN UNCHANGED todo ELSE todo' = [todo EXCEPT ![a] = <<>>]

InsertEvidence(a) ==
    /\ pc[a] = "insert" /\ CanInsert(a)
    /\ kind[ManifestAt(a)] = "good"
    /\ evidence' = [evidence EXCEPT ![ManifestAt(a)] = @ + 1]
    /\ Goto(a, "append")
    /\ UNCHANGED <<kind, tries, todo, batchVars, rows, dlq, faults>>

\* The row is in, the answer is lost, and the next attempt of the loop in
\* insert_evidence_manifest brings it again.
InsertAnswerLost(a) ==
    /\ Fault
    /\ pc[a] = "insert" /\ CanInsert(a)
    /\ kind[ManifestAt(a)] = "good"
    /\ evidence' = [evidence EXCEPT ![ManifestAt(a)] = @ + 1]
    /\ UNCHANGED <<kind, pc, tries, todo, batchVars, rows, dlq>>

\* Variant: the failure is logged and the manifest goes on to the batch.
InsertExhaustedAppends(a) ==
    /\ pc[a] = "insert" /\ CanInsert(a)
    /\ kind[ManifestAt(a)] = "refused"
    /\ Goto(a, "append")
    /\ UNCHANGED <<kind, tries, todo, batchVars, storeVars, faults>>

\* Every attempt failed: ClickHouse refuses the row, or is out of reach, in
\* which case the last attempt may have stored it.
InsertExhausted(a) ==
    /\ pc[a] = "insert" /\ CanInsert(a)
    /\ \/ kind[ManifestAt(a)] = "refused" /\ UNCHANGED <<evidence, faults>>
       \/ kind[ManifestAt(a)] = "good" /\ Fault /\ UNCHANGED evidence
       \/ /\ kind[ManifestAt(a)] = "good" /\ Fault
          /\ evidence' = [evidence EXCEPT ![ManifestAt(a)] = @ + 1]
    /\ Goto(a, IF a \in Jobs THEN "park" ELSE "failure")
    /\ UNCHANGED <<kind, tries, todo, batchVars, rows, dlq>>

\* append_manifest_and_maybe_finalize up to the answer of the script: RPUSH,
\* and with a full batch LRANGE and LTRIM of its elements.
Script(m) ==
    LET pushed == Append(list, m)
        full == Len(pushed) >= BatchSize
    IN  [batch |-> IF full THEN SubSeq(pushed, 1, BatchSize) ELSE <<>>,
         rest |-> IF full THEN SubSeq(pushed, BatchSize + 1, Len(pushed)) ELSE pushed,
         full |-> full]

RunScript(a) ==
    /\ list' = Script(ManifestAt(a)).rest
    /\ appends' = [appends EXCEPT ![ManifestAt(a)] = @ + 1]
    /\ cuts' = IF Script(ManifestAt(a)).full THEN cuts + 1 ELSE cuts

\* Variant: the sealed batch the script returns is not followed up.
AppendLeafDrops(a) ==
    /\ pc[a] = "append"
    /\ RunScript(a)
    /\ Finish(a)
    /\ UNCHANGED <<kind, tries, todo, cut, num, seq, anchors, storeVars, faults>>

AppendLeaf(a) ==
    /\ pc[a] = "append"
    /\ RunScript(a)
    /\ cut' = [cut EXCEPT ![a] = Script(ManifestAt(a)).batch]
    /\ IF Script(ManifestAt(a)).full THEN Goto(a, "number") ELSE Finish(a)
    /\ UNCHANGED <<kind, tries, todo, num, seq, anchors, storeVars, faults>>

\* Redis raises; the script may have run.
AppendError(a) ==
    /\ Fault
    /\ pc[a] = "append"
    /\ RunScript(a) \/ UNCHANGED <<list, appends, cuts>>
    /\ Uncaught(a)
    /\ UNCHANGED <<kind, tries, cut, num, seq, anchors, storeVars>>

\* Variant: the number is taken from the anchors written so far.
NumberBatchByCount(a) ==
    /\ pc[a] = "number"
    /\ seq' = seq + 1
    /\ num' = [num EXCEPT ![a] = Cardinality(anchors) + 1]
    /\ Goto(a, "anchor")
    /\ UNCHANGED <<kind, tries, todo, cut, list, appends, cuts, anchors, storeVars, faults>>

NumberBatch(a) ==
    /\ pc[a] = "number"
    /\ seq' = seq + 1
    /\ num' = [num EXCEPT ![a] = seq + 1]
    /\ Goto(a, "anchor")
    /\ UNCHANGED <<kind, tries, todo, cut, list, appends, cuts, anchors, storeVars, faults>>

\* Redis raises; the counter may have moved.
NumberError(a) ==
    /\ Fault
    /\ pc[a] = "number"
    /\ seq' \in {seq, seq + 1}
    /\ cut' = [cut EXCEPT ![a] = <<>>]
    /\ Uncaught(a)
    /\ UNCHANGED <<kind, tries, num, list, appends, cuts, anchors, storeVars>>

Anchor(a) == [number |-> num[a], leaves |-> cut[a]]

Release(a) ==
    /\ cut' = [cut EXCEPT ![a] = <<>>]
    /\ num' = [num EXCEPT ![a] = 0]

InsertAnchor(a) ==
    /\ pc[a] = "anchor" /\ CanInsert(a)
    /\ anchors' = anchors \cup {Anchor(a)}
    /\ Release(a)
    /\ Finish(a)
    /\ UNCHANGED <<kind, tries, todo, list, seq, appends, cuts, storeVars, faults>>

\* All five attempts failed, the last one perhaps only in its answer.  A job
\* re-raises, a replay worker counts a failed replay.
AnchorExhausted(a) ==
    /\ Fault
    /\ pc[a] = "anchor" /\ CanInsert(a)
    /\ anchors' \in {anchors, anchors \cup {Anchor(a)}}
    /\ Release(a)
    /\ Goto(a, IF a \in Jobs THEN "failed" ELSE "failure")
    /\ UNCHANGED <<kind, tries, todo, list, seq, appends, cuts, storeVars>>

(***************************************************************************)
(* Parking and replay.                                                     *)
(***************************************************************************)
NewRow(m) == [manifest |-> m, status |-> "pending", attempts |-> 0]

\* _park_failed_clickhouse_insert: a failed_evidence row, or the Redis list
\* when there is no pool.
Park(j) ==
    /\ pc[j] = "park"
    /\ IF PgConfigured
       THEN rows' = Append(rows, NewRow(ManifestOf[j])) /\ Goto(j, "done")
       ELSE UNCHANGED rows /\ Goto(j, "deadletter")
    /\ UNCHANGED <<kind, tries, todo, batchVars, evidence, dlq, faults>>

\* Variant: a failed write to Postgres is only logged.
ParkFallsThrough(j) ==
    /\ Fault
    /\ pc[j] = "park" /\ PgConfigured
    /\ Goto(j, "done")
    /\ UNCHANGED <<kind, tries, todo, batchVars, storeVars>>

\* Postgres raises, the row perhaps written all the same: the Redis list.
ParkFallsBack(j) ==
    /\ Fault
    /\ pc[j] = "park" /\ PgConfigured
    /\ rows' \in {rows, Append(rows, NewRow(ManifestOf[j]))}
    /\ Goto(j, "deadletter")
    /\ UNCHANGED <<kind, tries, todo, batchVars, evidence, dlq>>

\* A payload that does not decode, fits no registered schema or could not be
\* parked goes to a dead-letter list in Redis.
DeadLetter(j) ==
    /\ pc[j] = "deadletter"
    /\ dlq' = dlq \cup {ManifestOf[j]}
    /\ Goto(j, "done")
    /\ UNCHANGED <<kind, tries, todo, batchVars, evidence, rows, faults>>

DeadLetterError(j) ==
    /\ Fault
    /\ pc[j] = "deadletter"
    /\ dlq' \in {dlq, dlq \cup {ManifestOf[j]}}
    /\ Goto(j, "failed")
    /\ UNCHANGED <<kind, tries, todo, batchVars, evidence, rows>>

\* Variant: every row that is not replayed.
PendingOrAbandoned == {i \in 1 .. Len(rows) : rows[i].status # "replayed"}

\* Ids of the pending rows.
Pending == {i \in 1 .. Len(rows) : rows[i].status = "pending"}

\* How many of them one poll fetches, and that ids are those, oldest first.
FetchCount == IF Cardinality(Pending) < ReplayLimit THEN Cardinality(Pending) ELSE ReplayLimit

Oldest(ids) ==
    /\ \A k \in 1 .. Len(ids) - 1 : ids[k] < ids[k + 1]
    /\ \A i \in Pending : i < ids[Len(ids)] => \E k \in 1 .. Len(ids) : ids[k] = i

FetchPending(w) ==
    /\ pc[w] = "idle"
    /\ Pending # {}
    /\ \E ids \in [1 .. FetchCount -> Pending] :
          Oldest(ids) /\ todo' = [todo EXCEPT ![w] = ids]
    /\ Goto(w, "insert")
    /\ UNCHANGED <<kind, tries, batchVars, storeVars, faults>>

\* The loop goes on with the next fetched row, or polls again.
NextRow(w) ==
    /\ todo' = [todo EXCEPT ![w] = Tail(@)]
    /\ Goto(w, IF Len(todo[w]) > 1 THEN "insert" ELSE "idle")

\* Variant: the row is left as it was.
MarkReplayedNever(w) ==
    /\ pc[w] = "success"
    /\ NextRow(w)
    /\ UNCHANGED <<kind, tries, batchVars, storeVars, faults>>

MarkReplayed(w) ==
    /\ pc[w] = "success"
    /\ rows' = [rows EXCEPT ![todo[w][1]].status = "replayed"]
    /\ NextRow(w)
    /\ UNCHANGED <<kind, tries, batchVars, evidence, dlq, faults>>

\* Variant: the attempt is not counted.
FailedUncounted(row) ==
    [row EXCEPT !.status = IF row.attempts + 1 >= AbandonAfter THEN "abandoned" ELSE @]

Failed(row) ==
    [row EXCEPT !.attempts = @ + 1,
                !.status = IF row.attempts + 1 >= AbandonAfter THEN "abandoned" ELSE @]

MarkReplayFailure(w) ==
    /\ pc[w] = "failure"
    /\ rows' = [rows EXCEPT ![todo[w][1]] = Failed(@)]
    /\ NextRow(w)
    /\ UNCHANGED <<kind, tries, batchVars, evidence, dlq, faults>>

\* The call of anyio.to_thread raises a TypeError, which no except clause names.
TypeErrorAt(w) == pc[w] \in {"insert", "anchor"} /\ ~CanInsert(w)

\* The process ends and is started again: on that TypeError, when Postgres
\* raises while the row is marked, the mark perhaps set, or by dying.
ReplayDies(w) ==
    /\ pc[w] # "idle"
    /\ IF TypeErrorAt(w) THEN UNCHANGED faults ELSE Fault
    /\ \/ UNCHANGED rows
       \/ pc[w] = "success" /\ rows' = [rows EXCEPT ![todo[w][1]].status = "replayed"]
       \/ pc[w] = "failure" /\ rows' = [rows EXCEPT ![todo[w][1]] = Failed(@)]
    /\ Goto(w, "idle")
    /\ todo' = [todo EXCEPT ![w] = <<>>]
    /\ Release(w)
    /\ UNCHANGED <<kind, tries, list, seq, appends, cuts, anchors, evidence, dlq>>

JobProgress(j) ==
    \/ Start(j) \/ InsertEvidence(j) \/ InsertExhausted(j) \/ AppendLeaf(j) \/ NumberBatch(j)
    \/ InsertAnchor(j) \/ Park(j) \/ DeadLetter(j)

ReplayProgress(w) ==
    \/ FetchPending(w) \/ InsertEvidence(w) \/ InsertExhausted(w) \/ AppendLeaf(w)
    \/ NumberBatch(w) \/ InsertAnchor(w) \/ MarkReplayed(w) \/ MarkReplayFailure(w)

PathFault(a) ==
    InsertAnswerLost(a) \/ AppendError(a) \/ NumberError(a) \/ AnchorExhausted(a)

Next ==
    \/ \E j \in Jobs :
         Enqueue(j) \/ JobProgress(j) \/ JobDies(j) \/ ParkFallsBack(j) \/ DeadLetterError(j)
    \/ \E w \in Replayers : ReplayProgress(w) \/ ReplayDies(w)
    \/ \E a \in Actors : PathFault(a)

Spec == Init /\ [][Next]_vars

\* arq keeps starting queued jobs and the event loop runs them; the replay
\* worker polls forever and is started again when it ends.
FairSpec ==
    /\ Spec
    /\ \A j \in Jobs : WF_vars(JobProgress(j))
    /\ \A w \in Replayers : WF_vars(ReplayProgress(w) \/ (TypeErrorAt(w) /\ ReplayDies(w)))

(***************************************************************************)
(* Properties.                                                             *)
(***************************************************************************)
Leaves == {list[i] : i \in 1 .. Len(list)}
             \cup (UNION {{cut[a][i] : i \in 1 .. Len(cut[a])} : a \in Actors})
             \cup (UNION {{x.leaves[i] : i \in 1 .. Len(x.leaves)} : x \in anchors})

\* Every variable holds a value of its type, and a replay worker that is not
\* idle has a row to work on.
TypeOK ==
    /\ kind \in [Manifests -> Kinds]
    /\ pc \in [Actors -> JobPC \cup ReplayPC]
    /\ \A j \in Jobs : pc[j] \in JobPC
    /\ \A w \in Replayers : pc[w] \in ReplayPC
    /\ tries \in [Jobs -> 0 .. MaxTries]
    /\ todo \in [Replayers -> Seq(1 .. Len(rows))]
    /\ \A w \in Replayers : pc[w] # "idle" => todo[w] # <<>>
    /\ cut \in [Actors -> Seq(Manifests)]
    /\ num \in [Actors -> Nat]
    /\ evidence \in [Manifests -> Nat]
    /\ list \in Seq(Manifests)
    /\ seq \in Nat
    /\ appends \in [Manifests -> Nat]
    /\ cuts \in Nat
    /\ anchors \subseteq [number : Nat, leaves : Seq(Manifests)]
    /\ rows \in Seq(Row)
    /\ dlq \subseteq Manifests
    /\ faults \in 0 .. MaxFaults

\* What is anchored can be shown: every leaf on the batch list, in a drawn
\* batch or under an anchor has its row in evidence_manifests, because both
\* sink_manifest and _process_row append only after the insert returned.
LeavesAreStored == \A m \in Leaves : evidence[m] > 0

\* No two batches get the same batch_seq, though the INCR is a call of its own
\* after the script that drew the batch: the numbers of written anchors and of
\* batches about to be written are distinct and not above the counter.
NumbersAreUnique ==
    /\ \A x \in anchors : x.number \in 1 .. seq /\ Len(x.leaves) = BatchSize
    /\ \A x, y \in anchors : x.number = y.number => x = y
    /\ \A a \in Actors : pc[a] = "anchor" =>
          /\ num[a] \in 1 .. seq /\ Len(cut[a]) = BatchSize
          /\ \A x \in anchors : x.number # num[a]
          /\ \A b \in Actors : pc[b] = "anchor" /\ num[b] = num[a] => b = a

\* A job that ended without an exception left its manifest in a place of
\* record: stored and on the way to an anchor, a failed_evidence row, or a
\* dead-letter list.  And a row is marked replayed only for a manifest that is
\* stored and on the list or past it.
InRecord(m) == appends[m] > 0 /\ evidence[m] > 0
DoneIsKept ==
    /\ \A j \in Jobs : pc[j] = "done" =>
          \/ InRecord(ManifestOf[j])
          \/ \E i \in 1 .. Len(rows) : rows[i].manifest = ManifestOf[j]
          \/ ManifestOf[j] \in dlq
    /\ \A i \in 1 .. Len(rows) : rows[i].status = "replayed" => InRecord(rows[i].manifest)

\* Actors between the script that drew their batch and its anchor.
Held == {a \in Actors : pc[a] \in {"number", "anchor"}}

\* A batch drawn from the list whose anchor is never written is owed to a
\* fault of its own: without crash, outage or lost answer, every drawn batch
\* is anchored or held by the actor that is about to anchor it.
OrphansCaused == cuts <= Cardinality(anchors) + Cardinality(Held) + Used

\* Neither table nor list repeats a manifest of its own accord: each row of
\* evidence_manifests and each leaf beyond the first is owed to a fault of its
\* own (an answer lost, a job run or enqueued again, a replay after the insert
\* had landed), and so is each job that ended in an exception.
RepetitionsCaused ==
    /\ \A m \in Manifests : evidence[m] <= 1 + Used /\ appends[m] <= 1 + Used
    /\ Cardinality({j \in Jobs : pc[j] = "failed"}) <= Used

\* A settled row stays settled: the single replay worker never touches a row
\* again after it marked it replayed or abandoned.
SettledRowsStay ==
    [][\A i \in 1 .. Len(rows) : rows[i].status # "pending" => rows'[i] = rows[i]]_vars

\* The backlog drains: again and again every accepted job has ended and every
\* parked row has been replayed or, after replay_abandon_after_attempts
\* failures, abandoned.
Drained ==
    /\ \A j \in Jobs : pc[j] \in {"absent", "done", "failed"}
    /\ \A i \in 1 .. Len(rows) : rows[i].status # "pending"
BacklogDrains == []<>Drained
==============================================================================
