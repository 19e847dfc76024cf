---------------------------- MODULE SarTransport ----------------------------
(***************************************************************************)
(* SAR filing in case-api: generate_sar stores the report and a transport  *)
(* intent, analysts approve the intent, queue it and edit its notes, and   *)
(* the transport worker (sar_transport_worker.py) claims queued intents,   *)
(* uploads them over SFTP and records the outcome.  Every change of status *)
(* appends a row to sar_audit_log in the same transaction.                 *)
(*                                                                         *)
(* The database is PostgreSQL: the worker's row lock holds from its claim  *)
(* to its commit and an endpoint's UPDATE waits for it.  The endpoints     *)
(* read the intent without a lock.  One intent per call of generate_sar.   *)
(***************************************************************************)
EXTENDS Integers, Sequences, FiniteSets

CONSTANTS
    Intents,            \* calls of generate_sar, each with the intent it stores
    Clients,            \* requests of analysts in flight at the same time
    Workers,            \* replicas of the transport worker
    SeparateAck,        \* settings.sar_transport_require_separate_ack
    MaxEdits,           \* bound: edits of the notes of an intent
    MaxFaults           \* bound: crashes, lost answers, redeployments, overtaken requests

ASSUME BoundsAssumption == MaxEdits \in Nat /\ MaxFaults \in Nat
ASSUME FlagAssumption == SeparateAck \in BOOLEAN
ASSUME NoIntentAssumption == "none" \notin Intents

Status == {"PENDING_REVIEW", "APPROVED", "SFTP_QUEUED", "TRANSMITTED", "ACKNOWLEDGED", "FAILED"}

\* _ALLOWED_TRANSITIONS; "none" stands for NULL.
Allowed ==
    {<<"none", "PENDING_REVIEW">>, <<"PENDING_REVIEW", "APPROVED">>,
     <<"APPROVED", "SFTP_QUEUED">>, <<"SFTP_QUEUED", "TRANSMITTED">>,
     <<"TRANSMITTED", "ACKNOWLEDGED">>}
        \cup {<<s, "FAILED">> :
              s \in {"none", "PENDING_REVIEW", "APPROVED", "SFTP_QUEUED", "TRANSMITTED"}}

\* SAR_UPLOADED_STATUSES
Uploaded == {"TRANSMITTED", "ACKNOWLEDGED"}

VARIABLES
    gen,        \* per intent: where its generate_sar stands
    artifact,   \* intents whose report is stored
    intent,     \* per intent: its status, "none" before there is a row
    order,      \* the intents in order of created_at
    audit,      \* per intent: its rows of sar_audit_log, <<from, to>>
    notes,      \* per intent: edits of its notes so far
    op,         \* per client: the request it serves, "idle" when none
    on,         \* per client: the intent of that request
    wpc,        \* per worker: where process_sar_transport_once stands
    claim,      \* per worker: the intent whose row it has locked
    sent,       \* per intent: uploads that reached the SFTP server
    config,     \* the SFTP settings: complete, without host, without user
    faults      \* faults the environment may still inject

filingVars == <<gen, artifact, order>>
rowVars == <<intent, audit, notes>>
clientVars == <<op, on>>
workerVars == <<wpc, claim, sent>>
vars == <<filingVars, rowVars, clientVars, workerVars, config, faults>>

Op == {"approve", "queue", "notes"}
Config == {"complete", "nohost", "nouser"}
Used == MaxFaults - faults
Fault == faults > 0 /\ faults' = faults - 1

Init ==
    /\ gen = [i \in Intents |-> "new"]
    /\ artifact = {}
    /\ intent = [i \in Intents |-> "none"]
    /\ order = <<>>
    /\ audit = [i \in Intents |-> <<>>]
    /\ notes = [i \in Intents |-> 0]
    /\ op = [c \in Clients |-> "idle"]
    /\ on = [c \in Clients |-> "none"]
    /\ wpc = [w \in Workers |-> "idle"]
    /\ claim = [w \in Workers |-> "none"]
    /\ sent = [i \in Intents |-> 0]
    /\ config \in {"complete", "nohost"}
    /\ faults = MaxFaults

\* The service is deployed again with other settings.
Redeploy ==
    /\ Fault
    /\ config' \in Config \ {config}
    /\ UNCHANGED <<filingVars, rowVars, clientVars, workerVars>>

(***************************************************************************)
(* generate_sar.                                                           *)
(***************************************************************************)
\* A new row of sar_filing_intents with its first audit row.
NewIntent(i, status) ==
    /\ intent' = [intent EXCEPT ![i] = status]
    /\ audit' = [audit EXCEPT ![i] = Append(@, <<"none", status>>)]
    /\ order' = Append(order, i)

\* The report fails the pre-filing validation: a FAILED intent, answer 422.
GenerateInvalid(i) ==
    /\ gen[i] = "new"
    /\ NewIntent(i, "FAILED")
    /\ gen' = [gen EXCEPT ![i] = "rejected"]
    /\ UNCHANGED <<artifact, notes, clientVars, workerVars, config, faults>>

\* The report is stored in a transaction of its own.
StoreArtifact(i) ==
    /\ gen[i] = "new"
    /\ artifact' = artifact \cup {i}
    /\ gen' = [gen EXCEPT ![i] = "stored"]
    /\ UNCHANGED <<order, rowVars, clientVars, workerVars, config, faults>>

\* Then the intent, pending when an SFTP host is set, in a second one.
StoreIntent(i) ==
    /\ gen[i] = "stored"
    /\ NewIntent(i, IF config = "nohost" THEN "FAILED" ELSE "PENDING_REVIEW")
    /\ gen' = [gen EXCEPT ![i] = "answered"]
    /\ UNCHANGED <<artifact, notes, clientVars, workerVars, config, faults>>

\* The database fails one of the transactions, or the process dies: 503.
GenerateError(i) ==
    /\ Fault
    /\ gen[i] \in {"new", "stored"}
    /\ gen' = [gen EXCEPT ![i] = "error"]
    /\ UNCHANGED <<artifact, order, rowVars, clientVars, workerVars, config>>

(***************************************************************************)
(* The endpoints on an intent: read, then commit.                          *)
(***************************************************************************)
\* Variant: queue-sftp takes an intent in any status.
MayBeginUnreviewed(o, status) ==
    \/ o = "approve" /\ status = "PENDING_REVIEW"
    \/ o = "queue" /\ status \in Status
    \/ o = "notes" /\ status \in Status \ Uploaded

\* Variant: notes are not locked.
MayBeginUnlocked(o, status) ==
    \/ o = "approve" /\ status = "PENDING_REVIEW"
    \/ o = "queue" /\ status = "APPROVED"
    \/ o = "notes" /\ status \in Status

\* The status an endpoint demands when it reads the intent.
MayBegin(o, status) ==
    \/ o = "approve" /\ status = "PENDING_REVIEW"
    \/ o = "queue" /\ status = "APPROVED"
    \/ o = "notes" /\ status \in Status \ Uploaded

BeginRequest(c, o, i) ==
    /\ op[c] = "idle"
    /\ MayBegin(o, intent[i])
    /\ o = "notes" => notes[i] < MaxEdits
    /\ op' = [op EXCEPT ![c] = o]
    /\ on' = [on EXCEPT ![c] = i]
    /\ UNCHANGED <<filingVars, rowVars, workerVars, config, faults>>

EndRequest(c) ==
    /\ op' = [op EXCEPT ![c] = "idle"]
    /\ on' = [on EXCEPT ![c] = "none"]

Unlocked(i) == \A w \in Workers : claim[w] # i

\* A commit on an intent that has since left the status the request was
\* admitted in: the request was overtaken, which counts as a fault.
Overtaken(c) == IF MayBegin(op[c], intent[on[c]]) THEN UNCHANGED faults ELSE Fault

\* transition_sar_intent from the status as read, in the endpoint's transaction.
CommitTransition(c, o, from, to) ==
    /\ op[c] = o
    /\ Unlocked(on[c])
    /\ Overtaken(c)
    /\ intent' = [intent EXCEPT ![on[c]] = to]
    /\ audit' = [audit EXCEPT ![on[c]] = Append(@, <<from, to>>)]
    /\ EndRequest(c)
    /\ UNCHANGED <<filingVars, notes, workerVars, config>>

Approve(c) == CommitTransition(c, "approve", "PENDING_REVIEW", "APPROVED")
Queue(c) == CommitTransition(c, "queue", "APPROVED", "SFTP_QUEUED")

PatchNotes(c) ==
    /\ op[c] = "notes"
    /\ Unlocked(on[c])
    /\ Overtaken(c)
    /\ notes[on[c]] < MaxEdits
    /\ notes' = [notes EXCEPT ![on[c]] = @ + 1]
    /\ EndRequest(c)
    /\ UNCHANGED <<filingVars, intent, audit, workerVars, config>>

\* The request dies before its commit, or the commit fails.
RequestError(c) ==
    /\ op[c] # "idle"
    /\ EndRequest(c)
    /\ UNCHANGED <<filingVars, rowVars, workerVars, config, faults>>

(***************************************************************************)
(* process_sar_transport_once, started by a tick.                          *)
(***************************************************************************)
\* Variant: the claim takes no row lock.
ClaimableTwice(i) == intent[i] = "SFTP_QUEUED"

Claimable(i) == intent[i] = "SFTP_QUEUED" /\ Unlocked(i)

\* Variant: with incomplete settings the worker leaves the row alone.
ClaimConfigured(w) ==
    /\ wpc[w] = "idle" /\ config = "complete"
    /\ \E i \in artifact :
          /\ Claimable(i)
          /\ claim' = [claim EXCEPT ![w] = i]
    /\ wpc' = [wpc EXCEPT ![w] = "upload"]
    /\ UNCHANGED <<filingVars, rowVars, clientVars, sent, config, faults>>

\* claim_next_sftp_queued_intent: the oldest queued row nobody has locked.
Claim(w) ==
    /\ wpc[w] = "idle"
    /\ \E k \in 1 .. Len(order) :
          /\ Claimable(order[k])
          /\ \A n \in 1 .. k - 1 : ~Claimable(order[n])
          /\ claim' = [claim EXCEPT ![w] = order[k]]
          /\ wpc' = [wpc EXCEPT ![w] =
                        IF config = "complete" /\ order[k] \in artifact THEN "upload" ELSE "fail"]
    /\ UNCHANGED <<filingVars, rowVars, clientVars, sent, config, faults>>

Upload(w) ==
    /\ wpc[w] = "upload"
    /\ sent' = [sent EXCEPT ![claim[w]] = @ + 1]
    /\ wpc' = [wpc EXCEPT ![w] = "sent"]
    /\ UNCHANGED <<filingVars, rowVars, clientVars, claim, config, faults>>

\* Variant: the exception is logged and the filing counts as sent.
UploadErrorSwallowed(w) ==
    /\ Fault
    /\ wpc[w] = "upload"
    /\ wpc' = [wpc EXCEPT ![w] = "sent"]
    /\ UNCHANGED <<filingVars, rowVars, clientVars, claim, sent, config>>

\* The upload raises; the file may be there all the same.
UploadError(w) ==
    /\ Fault
    /\ wpc[w] = "upload"
    /\ sent' \in {sent, [sent EXCEPT ![claim[w]] = @ + 1]}
    /\ wpc' = [wpc EXCEPT ![w] = "fail"]
    /\ UNCHANGED <<filingVars, rowVars, clientVars, claim, config>>

\* The audit rows the worker's transaction adds.
Outcome(w) ==
    IF wpc[w] = "fail" THEN <<<<"SFTP_QUEUED", "FAILED">>>>
    ELSE IF SeparateAck THEN <<<<"SFTP_QUEUED", "TRANSMITTED">>>>
    ELSE <<<<"SFTP_QUEUED", "TRANSMITTED">>, <<"TRANSMITTED", "ACKNOWLEDGED">>>>

\* Variant: the acknowledgement has no audit row.
RecordUnaudited(w) ==
    /\ wpc[w] \in {"sent", "fail"}
    /\ intent' = [intent EXCEPT ![claim[w]] = Outcome(w)[Len(Outcome(w))][2]]
    /\ audit' = [audit EXCEPT ![claim[w]] = Append(@, Outcome(w)[1])]
    /\ wpc' = [wpc EXCEPT ![w] = "idle"]
    /\ claim' = [claim EXCEPT ![w] = "none"]
    /\ UNCHANGED <<filingVars, notes, clientVars, sent, config, faults>>

\* Variant: the lock outlives the transaction.
RecordHolds(w) ==
    /\ wpc[w] \in {"sent", "fail"}
    /\ intent' = [intent EXCEPT ![claim[w]] = Outcome(w)[Len(Outcome(w))][2]]
    /\ audit' = [audit EXCEPT ![claim[w]] = @ \o Outcome(w)]
    /\ wpc' = [wpc EXCEPT ![w] = "idle"]
    /\ UNCHANGED <<filingVars, notes, clientVars, claim, sent, config, faults>>

Record(w) ==
    /\ wpc[w] \in {"sent", "fail"}
    /\ intent' = [intent EXCEPT ![claim[w]] = Outcome(w)[Len(Outcome(w))][2]]
    /\ audit' = [audit EXCEPT ![claim[w]] = @ \o Outcome(w)]
    /\ wpc' = [wpc EXCEPT ![w] = "idle"]
    /\ claim' = [claim EXCEPT ![w] = "none"]
    /\ UNCHANGED <<filingVars, notes, clientVars, sent, config, faults>>

\* The worker dies or its commit fails: the transaction and the lock are
\* gone, an upload that had begun may have reached the server.
WorkerDies(w) ==
    /\ Fault
    /\ wpc[w] # "idle"
    /\ \/ UNCHANGED sent
       \/ wpc[w] = "upload" /\ sent' = [sent EXCEPT ![claim[w]] = @ + 1]
    /\ wpc' = [wpc EXCEPT ![w] = "idle"]
    /\ claim' = [claim EXCEPT ![w] = "none"]
    /\ UNCHANGED <<filingVars, rowVars, clientVars, config>>

WorkerStep(w) == Claim(w) \/ Upload(w) \/ Record(w)

Next ==
    \/ Redeploy
    \/ \E i \in Intents :
          GenerateInvalid(i) \/ StoreArtifact(i) \/ StoreIntent(i) \/ GenerateError(i)
    \/ \E c \in Clients :
          \/ \E o \in Op, i \in Intents : BeginRequest(c, o, i)
          \/ Approve(c) \/ Queue(c) \/ PatchNotes(c) \/ RequestError(c)
    \/ \E w \in Workers : WorkerStep(w) \/ UploadError(w) \/ WorkerDies(w)

Spec == Init /\ [][Next]_vars

\* _tick_loop publishes a tick every sar_transport_tick_seconds and swallows
\* every failure to do so; each tick runs the worker once.
FairSpec == Spec /\ \A w \in Workers : WF_vars(WorkerStep(w))

(***************************************************************************)
(* Properties.                                                             *)
(***************************************************************************)
\* Every variable holds a value of its type, and a worker has a row locked
\* exactly while it processes one.
TypeOK ==
    /\ gen \in [Intents -> {"new", "rejected", "stored", "answered", "error"}]
    /\ artifact \subseteq Intents
    /\ intent \in [Intents -> Status \cup {"none"}]
    /\ order \in Seq(Intents)
    /\ audit \in [Intents -> Seq((Status \cup {"none"}) \X Status)]
    /\ notes \in [Intents -> 0 .. MaxEdits]
    /\ op \in [Clients -> Op \cup {"idle"}]
    /\ on \in [Clients -> Intents \cup {"none"}]
    /\ wpc \in [Workers -> {"idle", "upload", "sent", "fail"}]
    /\ claim \in [Workers -> Intents \cup {"none"}]
    /\ sent \in [Intents -> Nat]
    /\ config \in Config
    /\ faults \in 0 .. MaxFaults
    /\ \A w \in Workers : (claim[w] = "none") <=> (wpc[w] = "idle")
    /\ \A c \in Clients : (on[c] = "none") <=> (op[c] = "idle")

\* sar_audit_log is true to the intents: each of its rows is a transition that
\* _ALLOWED_TRANSITIONS has, and the last row of an intent tells its present
\* status, whatever requests and workers overlap.
AuditTellsStatus ==
    \A i \in Intents :
        /\ \A k \in 1 .. Len(audit[i]) : audit[i][k] \in Allowed
        /\ intent[i] = IF audit[i] = <<>> THEN "none" ELSE audit[i][Len(audit[i])][2]

\* The rows of an intent form one chain from the first status to the present
\* one, as the state machine says; each break in a chain is owed to a request
\* of its own that was overtaken between its read and its commit.
Breaks ==
    UNION {{<<i, k>> : k \in {n \in 2 .. Len(audit[i]) : audit[i][n][1] # audit[i][n - 1][2]}} :
             i \in Intents}
BreaksCaused == Cardinality(Breaks) <= Used

\* Only what was stored, approved and queued is transmitted, and only what was
\* transmitted is recorded as such.
Passed(i, status) == \E k \in 1 .. Len(audit[i]) : audit[i][k][2] = status
TransmissionBacked ==
    \A i \in Intents :
        /\ intent[i] \in Uploaded => sent[i] > 0
        /\ sent[i] > 0 => i \in artifact /\ Passed(i, "APPROVED") /\ Passed(i, "SFTP_QUEUED")

\* A filing is uploaded once: each further upload is owed to a fault of its
\* own, a worker that died before its commit or a request that was overtaken.
UploadsCaused == \A i \in Intents : sent[i] <= 1 + Used

\* Notes are read-only once the intent is uploaded, save for a request that
\* was admitted before and overtaken by the worker.
NotesFrozen ==
    [][\A i \in Intents : intent[i] \in Uploaded /\ notes'[i] # notes[i] => faults' < faults]_vars

\* A queued intent does not stay queued: the workers get it to TRANSMITTED or
\* FAILED, so that again and again none waits.
QueueDrains == []<>(\A i \in Intents : intent[i] # "SFTP_QUEUED")
==============================================================================
