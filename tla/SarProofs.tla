----------------------------- MODULE SarProofs -----------------------------
(***************************************************************************)
(* Proofs about SarTransport for every set of intents, requests and        *)
(* workers and every number of faults.                                     *)
(***************************************************************************)
EXTENDS SarTransport, TLAPS

\* Most leaves are first-order: Zenon is asked before SMT.
USE Zenon, SMT

AuditRow == (Status \cup {"none"}) \X Status

(***************************************************************************)
(* Type correctness.                                                       *)
(***************************************************************************)
LEMMA OutcomeType ==
    ASSUME NEW w \in Workers
    PROVE  /\ Outcome(w) \in Seq(AuditRow)
           /\ Len(Outcome(w)) \in 1 .. 2
           /\ Outcome(w)[Len(Outcome(w))][2] \in Status
           /\ \A k \in 1 .. Len(Outcome(w)) : Outcome(w)[k] \in Allowed
           /\ Outcome(w)[Len(Outcome(w))][2] \in Uploaded => wpc[w] # "fail"
           /\ Outcome(w)[Len(Outcome(w))][2] # "SFTP_QUEUED"
  <1> DEFINE t == <<"SFTP_QUEUED", "TRANSMITTED">>
             f == <<"SFTP_QUEUED", "FAILED">>
             k == <<"TRANSMITTED", "ACKNOWLEDGED">>
  <1>1. t \in AuditRow /\ f \in AuditRow /\ k \in AuditRow
    BY DEF AuditRow, Status
  <1>2. t \in Allowed /\ f \in Allowed /\ k \in Allowed
    BY DEF Allowed
  <1>3. CASE wpc[w] = "fail"
    <2>1. Outcome(w) = <<f>>
      BY <1>3 DEF Outcome
    <2> QED
      BY <2>1, <1>1, <1>2, <1>3 DEF Status, Uploaded
  <1>4. CASE wpc[w] # "fail" /\ SeparateAck
    <2>1. Outcome(w) = <<t>>
      BY <1>4 DEF Outcome
    <2> QED
      BY <2>1, <1>1, <1>2, <1>4 DEF Status, Uploaded
  <1>5. CASE wpc[w] # "fail" /\ ~SeparateAck
    <2>1. Outcome(w) = <<t, k>>
      BY <1>5 DEF Outcome
    <2> QED
      BY <2>1, <1>1, <1>2, <1>5 DEF Status, Uploaded
  <1> QED
    BY <1>3, <1>4, <1>5

\* The types of the variables that most steps are about.
LEMMA Types ==
    ASSUME TypeOK
    PROVE  /\ wpc \in [Workers -> {"idle", "upload", "sent", "fail"}]
           /\ claim \in [Workers -> Intents \cup {"none"}]
           /\ sent \in [Intents -> Nat]
           /\ audit \in [Intents -> Seq(AuditRow)]
           /\ faults \in Int /\ MaxFaults \in Nat
  BY BoundsAssumption DEF TypeOK, AuditRow

LEMMA InitTypeOK == Init => TypeOK
  BY BoundsAssumption, NoIntentAssumption DEF Init, TypeOK, Status, Op, Config

LEMMA NewIntentType ==
    ASSUME TypeOK, NEW i \in Intents, NEW s \in Status, NewIntent(i, s)
    PROVE  /\ intent' \in [Intents -> Status \cup {"none"}]
           /\ audit' \in [Intents -> Seq((Status \cup {"none"}) \X Status)]
           /\ order' \in Seq(Intents)
  <1>1. <<"none", s>> \in (Status \cup {"none"}) \X Status
    OBVIOUS
  <1> QED
    BY <1>1 DEF NewIntent, TypeOK

LEMMA NextTypeOK == TypeOK /\ [Next]_vars => TypeOK'
  <1> SUFFICES ASSUME TypeOK, [Next]_vars PROVE TypeOK'
    OBVIOUS
  <1> USE BoundsAssumption, NoIntentAssumption
  <1> USE DEF filingVars, rowVars, clientVars, workerVars
  <1>1. CASE UNCHANGED vars
    BY <1>1 DEF vars, TypeOK
  <1>2. CASE Redeploy
    BY <1>2 DEF Redeploy, Fault, TypeOK
  <1>3. ASSUME NEW i \in Intents, GenerateInvalid(i) PROVE TypeOK'
    <2>1. gen' \in [Intents -> {"new", "rejected", "stored", "answered", "error"}]
      BY <1>3 DEF GenerateInvalid, TypeOK
    <2>2. "FAILED" \in Status /\ NewIntent(i, "FAILED")
      BY <1>3 DEF GenerateInvalid, Status
    <2>3. UNCHANGED <<artifact, notes, clientVars, workerVars, config, faults>>
      BY <1>3 DEF GenerateInvalid
    <2> QED
      BY <2>1, <2>2, <2>3, NewIntentType DEF TypeOK
  <1>4. ASSUME NEW i \in Intents, StoreArtifact(i) PROVE TypeOK'
    BY <1>4 DEF StoreArtifact, TypeOK
  <1>5. ASSUME NEW i \in Intents, StoreIntent(i) PROVE TypeOK'
    <2>1. gen' \in [Intents -> {"new", "rejected", "stored", "answered", "error"}]
      BY <1>5 DEF StoreIntent, TypeOK
    <2>2. PICK s \in Status : NewIntent(i, s)
      BY <1>5 DEF StoreIntent, Status
    <2>3. UNCHANGED <<artifact, notes, clientVars, workerVars, config, faults>>
      BY <1>5 DEF StoreIntent
    <2> QED
      BY <2>1, <2>2, <2>3, NewIntentType DEF TypeOK
  <1>6. ASSUME NEW i \in Intents, GenerateError(i) PROVE TypeOK'
    BY <1>6 DEF GenerateError, Fault, TypeOK
  <1>7. ASSUME NEW c \in Clients, NEW o \in Op, NEW i \in Intents, BeginRequest(c, o, i)
        PROVE  TypeOK'
    BY <1>7 DEF BeginRequest, Op, TypeOK
  <1>8. ASSUME NEW c \in Clients, NEW o \in Op, NEW from \in Status, NEW to \in Status,
               CommitTransition(c, o, from, to)
        PROVE  TypeOK'
    <2>1. on[c] \in Intents
      BY <1>8 DEF CommitTransition, TypeOK, Op
    <2>2. <<from, to>> \in AuditRow
      BY DEF AuditRow
    <2>3. faults' \in 0 .. MaxFaults
      BY <1>8 DEF CommitTransition, Overtaken, Fault, TypeOK
    <2>4. audit' \in [Intents -> Seq((Status \cup {"none"}) \X Status)]
      BY <1>8, <2>1, <2>2 DEF CommitTransition, TypeOK, AuditRow
    <2>5. /\ intent' \in [Intents -> Status \cup {"none"}]
          /\ op' \in [Clients -> Op \cup {"idle"}] /\ on' \in [Clients -> Intents \cup {"none"}]
      BY <1>8, <2>1 DEF CommitTransition, EndRequest, TypeOK
    <2>6. UNCHANGED <<gen, artifact, order, notes, wpc, claim, sent, config>>
      BY <1>8 DEF CommitTransition, filingVars, workerVars
    <2>7. \A d \in Clients : (on'[d] = "none") <=> (op'[d] = "idle")
      BY <1>8 DEF CommitTransition, EndRequest, TypeOK
    <2> QED
      BY <2>3, <2>4, <2>5, <2>6, <2>7 DEF TypeOK
  <1>9. ASSUME NEW c \in Clients, Approve(c) PROVE TypeOK'
    BY <1>8, <1>9 DEF Approve, Status, Op
  <1>10. ASSUME NEW c \in Clients, Queue(c) PROVE TypeOK'
    BY <1>8, <1>10 DEF Queue, Status, Op
  <1>11. ASSUME NEW c \in Clients, PatchNotes(c) PROVE TypeOK'
    <2>1. on[c] \in Intents
      BY <1>11 DEF PatchNotes, TypeOK
    <2>2. faults' \in 0 .. MaxFaults
      BY <1>11 DEF PatchNotes, Overtaken, Fault, TypeOK
    <2>3. notes' \in [Intents -> 0 .. MaxEdits]
      BY <1>11, <2>1 DEF PatchNotes, TypeOK
    <2>4. /\ op' \in [Clients -> Op \cup {"idle"}]
          /\ on' \in [Clients -> Intents \cup {"none"}]
          /\ \A d \in Clients : (on'[d] = "none") <=> (op'[d] = "idle")
      BY <1>11 DEF PatchNotes, EndRequest, TypeOK
    <2> QED
      BY <1>11, <2>2, <2>3, <2>4 DEF PatchNotes, TypeOK
  <1>12. ASSUME NEW c \in Clients, RequestError(c) PROVE TypeOK'
    BY <1>12 DEF RequestError, EndRequest, TypeOK
  <1>13. ASSUME NEW w \in Workers, Claim(w) PROVE TypeOK'
    <2>1. PICK k \in 1 .. Len(order) :
             /\ claim' = [claim EXCEPT ![w] = order[k]]
             /\ wpc' = [wpc EXCEPT ![w] =
                           IF config = "complete" /\ order[k] \in artifact THEN "upload" ELSE "fail"]
      BY <1>13 DEF Claim
    <2>2. order[k] \in Intents
      BY DEF TypeOK
    <2> QED
      BY <1>13, <2>1, <2>2 DEF Claim, TypeOK
  <1>14. ASSUME NEW w \in Workers, Upload(w) PROVE TypeOK'
    BY <1>14 DEF Upload, TypeOK
  <1>15. ASSUME NEW w \in Workers, Record(w) PROVE TypeOK'
    <2>1. claim[w] \in Intents
      BY <1>15 DEF Record, TypeOK
    <2>2. audit'[claim[w]] \in Seq(AuditRow)
      BY <1>15, <2>1, OutcomeType DEF Record, TypeOK, AuditRow
    <2>3. audit' \in [Intents -> Seq(AuditRow)]
      BY <1>15, <2>1, <2>2 DEF Record, TypeOK, AuditRow
    <2>4. intent' \in [Intents -> Status \cup {"none"}]
      BY <1>15, <2>1, OutcomeType DEF Record, TypeOK
    <2>5. /\ wpc' \in [Workers -> {"idle", "upload", "sent", "fail"}]
          /\ claim' \in [Workers -> Intents \cup {"none"}]
          /\ \A v \in Workers : (claim'[v] = "none") <=> (wpc'[v] = "idle")
      BY <1>15 DEF Record, TypeOK
    <2> QED
      BY <1>15, <2>3, <2>4, <2>5 DEF Record, TypeOK, AuditRow
  <1>16. ASSUME NEW w \in Workers, UploadError(w) PROVE TypeOK'
    BY <1>16 DEF UploadError, Fault, TypeOK
  <1>17. ASSUME NEW w \in Workers, WorkerDies(w) PROVE TypeOK'
    <2>1. sent' \in [Intents -> Nat]
      BY <1>17 DEF WorkerDies, TypeOK
    <2>2. /\ wpc' \in [Workers -> {"idle", "upload", "sent", "fail"}]
          /\ claim' \in [Workers -> Intents \cup {"none"}]
          /\ \A v \in Workers : (claim'[v] = "none") <=> (wpc'[v] = "idle")
      BY <1>17 DEF WorkerDies, TypeOK
    <2>3. faults' \in 0 .. MaxFaults
      BY <1>17 DEF WorkerDies, Fault, TypeOK
    <2> QED
      BY <1>17, <2>1, <2>2, <2>3 DEF WorkerDies, TypeOK
  <1> QED
    BY <1>1, <1>2, <1>3, <1>4, <1>5, <1>6, <1>7, <1>9, <1>10, <1>11, <1>12, <1>13, <1>14,
       <1>15, <1>16, <1>17
    DEF Next, WorkerStep

\* Every variable of SarTransport keeps its type, and a worker has a row locked
\* exactly while it processes one.
THEOREM TypeCorrect == Spec => []TypeOK
  BY InitTypeOK, NextTypeOK, PTL DEF Spec

(***************************************************************************)
(* The notes.                                                              *)
(***************************************************************************)
\* The notes of an uploaded intent only change in a request that was admitted
\* before the upload was recorded (update_sar_intent_notes reads, the worker
\* commits, the endpoint commits).
THEOREM NotesStayFrozen == Spec => NotesFrozen
  <1>1. TypeOK /\ [Next]_vars =>
          [\A i \in Intents : intent[i] \in Uploaded /\ notes'[i] # notes[i] => faults' < faults]_vars
    <2> SUFFICES ASSUME TypeOK, Next, NEW i \in Intents,
                        intent[i] \in Uploaded, notes'[i] # notes[i]
                 PROVE  faults' < faults
      OBVIOUS
    <2>1. PICK c \in Clients : PatchNotes(c)
      BY DEF Next, WorkerStep, Redeploy, GenerateInvalid, StoreArtifact, StoreIntent, GenerateError,
             BeginRequest, Approve, Queue, CommitTransition, RequestError, Claim, Upload, Record,
             UploadError, WorkerDies, rowVars
    <2>2. on[c] = i
      BY <2>1 DEF PatchNotes, TypeOK
    <2>3. ~MayBegin(op[c], intent[on[c]])
      BY <2>1, <2>2 DEF PatchNotes, MayBegin
    <2> QED
      BY <2>1, <2>3, BoundsAssumption DEF PatchNotes, Overtaken, Fault, TypeOK
  <1> QED
    BY <1>1, TypeCorrect, PTL DEF Spec, NotesFrozen

(***************************************************************************)
(* The audit trail.  Every action that writes an intent's status extends   *)
(* its trail by rows of _ALLOWED_TRANSITIONS of which the last one tells   *)
(* the new status; every other action leaves both alone.                   *)
(***************************************************************************)
\* The rows r are appended to the trail of i and its status follows the last.
Extends(i, r) ==
    /\ i \in Intents
    /\ r \in Seq(AuditRow) /\ Len(r) > 0
    /\ \A k \in 1 .. Len(r) : r[k] \in Allowed
    /\ audit' = [audit EXCEPT ![i] = @ \o r]
    /\ intent' = [intent EXCEPT ![i] = r[Len(r)][2]]

LEMMA AppendOne ==
    ASSUME NEW S, NEW q \in Seq(S), NEW x \in S
    PROVE  Append(q, x) = q \o <<x>>
  OBVIOUS

\* A transition appends one row.
LEMMA OneRowExtends ==
    ASSUME TypeOK, NEW i \in Intents, NEW row \in AuditRow, row \in Allowed,
           audit' = [audit EXCEPT ![i] = Append(@, row)],
           intent' = [intent EXCEPT ![i] = row[2]]
    PROVE  Extends(i, <<row>>)
  <1> DEFINE r == <<row>>
  <1>1. r \in Seq(AuditRow) /\ Len(r) = 1 /\ r[1] = row
    OBVIOUS
  <1>2. audit[i] \in Seq(AuditRow)
    BY DEF TypeOK, AuditRow
  <1>3. Append(audit[i], row) = audit[i] \o r
    BY <1>2, AppendOne
  <1>4. audit' = [audit EXCEPT ![i] = @ \o r]
    BY <1>3
  <1> HIDE DEF r
  <1>5. \A k \in 1 .. Len(r) : r[k] \in Allowed
    BY <1>1
  <1>6. intent' = [intent EXCEPT ![i] = r[Len(r)][2]]
    BY <1>1
  <1>7. Len(r) > 0
    BY <1>1
  <1>8. Extends(i, r)
    BY <1>1, <1>4, <1>5, <1>6, <1>7 DEF Extends
  <1> QED
    BY <1>8 DEF r

LEMMA TrailStep ==
    ASSUME TypeOK, NEW i, NEW r, Extends(i, r)
    PROVE  /\ audit'[i] \in Seq(AuditRow)
           /\ Len(audit'[i]) = Len(audit[i]) + Len(r)
           /\ \A k \in 1 .. Len(audit[i]) : audit'[i][k] = audit[i][k]
           /\ \A k \in 1 .. Len(r) : audit'[i][Len(audit[i]) + k] = r[k]
           /\ \A j \in Intents : j # i => audit'[j] = audit[j] /\ intent'[j] = intent[j]
           /\ intent'[i] = r[Len(r)][2]
  <1>1. audit[i] \in Seq(AuditRow) /\ r \in Seq(AuditRow)
    BY DEF Extends, TypeOK, AuditRow
  <1>2. audit'[i] = audit[i] \o r
    BY DEF Extends, TypeOK
  <1>3. intent'[i] = r[Len(r)][2]
    BY DEF Extends, TypeOK
  <1>4. \A j \in Intents : j # i => audit'[j] = audit[j] /\ intent'[j] = intent[j]
    BY DEF Extends, TypeOK
  <1> QED
    BY <1>1, <1>2, <1>3, <1>4

LEMMA ExtendsKeepsAudit ==
    ASSUME TypeOK, AuditTellsStatus, NEW i, NEW r, Extends(i, r)
    PROVE  AuditTellsStatus'
  <1> SUFFICES ASSUME NEW j \in Intents
               PROVE  /\ \A k \in 1 .. Len(audit'[j]) : audit'[j][k] \in Allowed
                      /\ intent'[j] = IF audit'[j] = <<>> THEN "none"
                                      ELSE audit'[j][Len(audit'[j])][2]
    BY DEF AuditTellsStatus
  <1>1. CASE j # i
    BY <1>1, TrailStep DEF AuditTellsStatus
  <1>2. CASE j = i
    <2> DEFINE n == Len(audit[i])
               m == Len(r)
    <2>1. n \in Nat /\ m \in Nat /\ m > 0
      BY DEF Extends, TypeOK
    <2>2. Len(audit'[i]) = n + m
      BY TrailStep
    <2>3. ASSUME NEW k \in 1 .. n + m PROVE audit'[i][k] \in Allowed
      <3>1. CASE k \in 1 .. n
        BY <3>1, <1>2, TrailStep DEF AuditTellsStatus
      <3>2. CASE k \notin 1 .. n
        <4> DEFINE q == k - n
        <4>1. q \in 1 .. m /\ k = n + q
          BY <3>2, <2>1
        <4> HIDE DEF q
        <4>2. audit'[i][n + q] = r[q]
          BY <4>1, TrailStep
        <4> QED
          BY <4>1, <4>2 DEF Extends
      <3> QED
        BY <3>1, <3>2
    <2>4. audit'[i] # <<>>
      BY <2>1, <2>2
    <2>5. audit'[i][n + m] = r[m]
      <3>1. m \in 1 .. m
        BY <2>1
      <3> QED
        BY <3>1, TrailStep
    <2>6. intent'[i] = r[m][2]
      BY TrailStep
    <2> QED
      BY <1>2, <2>2, <2>3, <2>4, <2>5, <2>6
  <1> QED
    BY <1>1, <1>2

\* What an intent has passed it has passed for good, and it has passed the
\* status it is given.
LEMMA ExtendsKeepsPassed ==
    ASSUME TypeOK, NEW i, NEW r, Extends(i, r)
    PROVE  /\ \A j \in Intents, s \in Status : Passed(j, s) => Passed(j, s)'
           /\ Passed(i, r[Len(r)][2])'
  <1>1. Len(audit[i]) \in Nat /\ Len(r) \in Nat /\ Len(r) > 0 /\ i \in Intents
    BY DEF Extends, TypeOK
  <1>2. ASSUME NEW j \in Intents, NEW s \in Status, Passed(j, s) PROVE Passed(j, s)'
    <2>1. CASE j = i
      <3>1. PICK k \in 1 .. Len(audit[i]) : audit[i][k][2] = s
        BY <1>2, <2>1 DEF Passed
      <3>2. k \in 1 .. Len(audit'[i]) /\ audit'[i][k][2] = s
        BY <3>1, <1>1, TrailStep
      <3> QED
        BY <3>2, <2>1 DEF Passed
    <2>2. CASE j # i
      BY <1>2, <2>2, TrailStep DEF Passed
    <2> QED
      BY <2>1, <2>2
  <1>3. Passed(i, r[Len(r)][2])'
    <2>1. Len(r) \in 1 .. Len(r) /\ Len(audit[i]) + Len(r) \in 1 .. Len(audit'[i])
      BY <1>1, TrailStep
    <2>2. audit'[i][Len(audit[i]) + Len(r)] = r[Len(r)]
      BY <2>1, TrailStep
    <2> QED
      BY <2>1, <2>2 DEF Passed
  <1> QED
    BY <1>2, <1>3

(***************************************************************************)
(* What backs a transmission.  A request to queue was admitted because the *)
(* intent was approved when it was read, and a worker uploads a row it     *)
(* found queued: both facts outlive the status they were read from, since  *)
(* the trail keeps them.                                                   *)
(***************************************************************************)
Sendable(i) == i \in artifact /\ Passed(i, "APPROVED") /\ Passed(i, "SFTP_QUEUED")

Reviewed ==
    /\ \A i \in Intents : intent[i] = "SFTP_QUEUED" => Passed(i, "APPROVED")
    /\ \A c \in Clients : op[c] = "queue" => Passed(on[c], "APPROVED")
    /\ \A w \in Workers : wpc[w] = "upload" => Sendable(claim[w])
    /\ \A w \in Workers : wpc[w] = "sent" => sent[claim[w]] > 0
    /\ \A i \in Intents : sent[i] > 0 => Sendable(i)
    /\ \A i \in Intents : intent[i] \in Uploaded => sent[i] > 0

IInv == AuditTellsStatus /\ Reviewed

LEMMA InitIInv == Init => IInv
  BY DEF Init, IInv, AuditTellsStatus, Reviewed, Uploaded

\* The present status of an intent is one it has passed.
LEMMA PresentPassed ==
    ASSUME TypeOK, AuditTellsStatus, NEW i \in Intents, intent[i] # "none"
    PROVE  Passed(i, intent[i])
  <1>1. audit[i] \in Seq(AuditRow) /\ audit[i] # <<>>
    BY DEF TypeOK, AuditRow, AuditTellsStatus
  <1>2. Len(audit[i]) \in 1 .. Len(audit[i])
    BY <1>1
  <1> QED
    BY <1>1, <1>2 DEF AuditTellsStatus, Passed

\* A step that extends a trail and sends nothing.
LEMMA ExtendsKeepsReviewed ==
    ASSUME TypeOK, Reviewed, NEW i, NEW r, Extends(i, r),
           UNCHANGED <<artifact, sent>>,
           r[Len(r)][2] = "SFTP_QUEUED" => Passed(i, "APPROVED"),
           r[Len(r)][2] \in Uploaded => sent[i] > 0,
           \A c \in Clients : op'[c] = "queue" => op[c] = "queue" /\ on'[c] = on[c],
           \A w \in Workers : wpc'[w] # "idle" => wpc'[w] = wpc[w] /\ claim'[w] = claim[w]
    PROVE  Reviewed'
  <1> "APPROVED" \in Status /\ "SFTP_QUEUED" \in Status /\ i \in Intents
    BY DEF Status, Extends
  <1>1. \A j \in Intents, s \in Status : Passed(j, s) => Passed(j, s)'
    BY ExtendsKeepsPassed
  <1>2. \A j \in Intents : j # i => intent'[j] = intent[j]
    BY TrailStep
  <1>3. intent'[i] = r[Len(r)][2]
    BY TrailStep
  <1>4. \A j \in Intents : Sendable(j) => Sendable(j)'
    BY <1>1 DEF Sendable
  <1>5. \A c \in Clients : op[c] = "queue" => on[c] \in Intents
    BY DEF TypeOK
  <1>6. \A w \in Workers : wpc[w] # "idle" => claim[w] \in Intents
    BY DEF TypeOK
  <1>7. \A j \in Intents : intent'[j] = "SFTP_QUEUED" => Passed(j, "APPROVED")'
    BY <1>1, <1>2, <1>3 DEF Reviewed
  <1>8. \A c \in Clients : (op[c] = "queue" => Passed(on[c], "APPROVED"))'
    <2> SUFFICES ASSUME NEW c \in Clients, op'[c] = "queue" PROVE Passed(on[c], "APPROVED")'
      OBVIOUS
    <2>1. PICK j \in Intents : j = on[c] /\ j = on'[c]
      BY <1>5
    <2>2. Passed(j, "APPROVED")'
      BY <1>1, <2>1 DEF Reviewed
    <2> QED
      BY <2>1, <2>2 DEF Passed
  <1>9. \A w \in Workers : (wpc[w] = "upload" => Sendable(claim[w]))'
    <2> SUFFICES ASSUME NEW w \in Workers, wpc'[w] = "upload" PROVE Sendable(claim[w])'
      OBVIOUS
    <2>1. PICK j \in Intents : j = claim[w] /\ j = claim'[w]
      BY <1>6
    <2>2. Sendable(j)'
      BY <1>4, <2>1 DEF Reviewed
    <2> QED
      BY <2>1, <2>2 DEF Sendable, Passed
  <1>10. \A w \in Workers : (wpc[w] = "sent" => sent[claim[w]] > 0)'
    BY DEF Reviewed
  <1>11. \A j \in Intents : (sent[j] > 0 => Sendable(j))'
    BY <1>4 DEF Reviewed
  <1>12. \A j \in Intents : (intent[j] \in Uploaded => sent[j] > 0)'
    BY <1>2, <1>3 DEF Reviewed, Uploaded
  <1> QED
    BY <1>7, <1>8, <1>9, <1>10, <1>11, <1>12 DEF Reviewed

\* A step that leaves the rows of the intents and the trail alone.
LEMMA RowsKeepIInv ==
    ASSUME TypeOK, IInv, UNCHANGED <<intent, audit>>,
           artifact \subseteq artifact', sent' \in [Intents -> Nat],
           \A i \in Intents : sent'[i] >= sent[i],
           \A i \in Intents : sent'[i] > sent[i] => Sendable(i),
           \A c \in Clients : op'[c] = "queue" => Passed(on'[c], "APPROVED"),
           \A w \in Workers : wpc'[w] = "upload" => Sendable(claim'[w]),
           \A w \in Workers : wpc'[w] = "sent" => claim'[w] \in Intents /\ sent'[claim'[w]] > 0
    PROVE  IInv'
  <1>1. AuditTellsStatus'
    BY DEF IInv, AuditTellsStatus
  <1>2. \A i \in Intents : (sent[i] > 0 => Sendable(i))'
    <2>1. \A i \in Intents : Sendable(i) => Sendable(i)'
      BY DEF Sendable, Passed
    <2>2. \A i \in Intents : sent[i] \in Nat /\ (sent[i] > 0 => Sendable(i))
      BY Types DEF IInv, Reviewed
    <2> QED
      BY <2>1, <2>2
  <1>3. \A i \in Intents : (intent[i] \in Uploaded => sent[i] > 0)'
    <2>1. \A i \in Intents : sent[i] \in Nat /\ (intent[i] \in Uploaded => sent[i] > 0)
      BY Types DEF IInv, Reviewed
    <2> QED
      BY <2>1
  <1>4. \A i \in Intents : (intent[i] = "SFTP_QUEUED" => Passed(i, "APPROVED"))'
    BY DEF IInv, Reviewed, Passed
  <1>5. \A c \in Clients : (op[c] = "queue" => Passed(on[c], "APPROVED"))'
    BY DEF Passed
  <1>6. \A w \in Workers : (wpc[w] = "upload" => Sendable(claim[w]))'
    BY DEF Passed, Sendable
  <1>7. \A w \in Workers : (wpc[w] = "sent" => sent[claim[w]] > 0)'
    OBVIOUS
  <1> QED
    BY <1>1, <1>2, <1>3, <1>4, <1>5, <1>6, <1>7 DEF IInv, Reviewed

\* A new row: its status is neither queued nor uploaded.
LEMMA NewIntentKeeps ==
    ASSUME TypeOK, IInv, NEW i \in Intents, NEW s \in {"FAILED", "PENDING_REVIEW"},
           NewIntent(i, s), UNCHANGED <<artifact, clientVars, workerVars>>
    PROVE  IInv'
  <1> DEFINE row == <<"none", s>>
             r == <<row>>
  <1>1. row \in AuditRow /\ row[2] = s /\ row \in Allowed /\ Len(r) = 1 /\ r[1] = row
    BY DEF AuditRow, Status, Allowed
  <1>2. Extends(i, r)
    <2>1. /\ audit' = [audit EXCEPT ![i] = Append(@, row)]
          /\ intent' = [intent EXCEPT ![i] = row[2]]
      BY DEF NewIntent
    <2> HIDE DEF row
    <2> QED
      BY <1>1, <2>1, OneRowExtends
  <1> HIDE DEF r
  <1>3. AuditTellsStatus'
    BY <1>2, ExtendsKeepsAudit DEF IInv
  <1>4. r[Len(r)][2] # "SFTP_QUEUED" /\ r[Len(r)][2] \notin Uploaded
    BY <1>1 DEF Uploaded
  <1>5. Reviewed'
    BY <1>2, <1>4, ExtendsKeepsReviewed DEF IInv, clientVars, workerVars
  <1> QED
    BY <1>3, <1>5 DEF IInv

\* The commit of an endpoint: to queue it needs the approval it read.
LEMMA CommitKeeps ==
    ASSUME TypeOK, IInv, NEW c \in Clients, NEW o \in Op, NEW from \in Status, NEW to \in Status,
           CommitTransition(c, o, from, to), <<from, to>> \in Allowed,
           to \notin Uploaded, to = "SFTP_QUEUED" => o = "queue"
    PROVE  IInv'
  <1>1. PICK i \in Intents : i = on[c]
    BY DEF CommitTransition, TypeOK, Op
  <1> DEFINE row == <<from, to>>
             r == <<row>>
  <1>2. row \in AuditRow /\ row[2] = to /\ row \in Allowed /\ Len(r) = 1 /\ r[1] = row
    BY DEF AuditRow
  <1>3. Extends(i, r)
    <2>1. /\ audit' = [audit EXCEPT ![i] = Append(@, row)]
          /\ intent' = [intent EXCEPT ![i] = row[2]]
      BY <1>1 DEF CommitTransition
    <2> HIDE DEF row
    <2> QED
      BY <1>2, <2>1, OneRowExtends
  <1> HIDE DEF r
  <1>4. AuditTellsStatus'
    BY <1>3, ExtendsKeepsAudit DEF IInv
  <1>5. r[Len(r)][2] = "SFTP_QUEUED" => Passed(i, "APPROVED")
    BY <1>1, <1>2 DEF IInv, Reviewed, CommitTransition
  <1>6. \A d \in Clients : op'[d] = "queue" => op[d] = "queue" /\ on'[d] = on[d]
    BY DEF CommitTransition, EndRequest, TypeOK
  <1>7. r[Len(r)][2] \notin Uploaded
    BY <1>2
  <1>8. UNCHANGED <<artifact, sent, wpc, claim>>
    BY DEF CommitTransition, filingVars, workerVars
  <1>9. Reviewed'
    BY <1>3, <1>5, <1>6, <1>7, <1>8, ExtendsKeepsReviewed DEF IInv
  <1> QED
    BY <1>4, <1>9 DEF IInv

\* The worker's commit: it records as uploaded only what it sent.
LEMMA RecordKeeps ==
    ASSUME TypeOK, IInv, NEW w \in Workers, Record(w)
    PROVE  IInv'
  <1>1. PICK i \in Intents : i = claim[w]
    BY DEF Record, TypeOK
  <1>2. PICK r : r = Outcome(w)
    OBVIOUS
  <1>3. Extends(i, r)
    BY <1>1, <1>2, OutcomeType DEF Record, Extends
  <1>4. AuditTellsStatus'
    BY <1>3, ExtendsKeepsAudit DEF IInv
  <1>5. r[Len(r)][2] # "SFTP_QUEUED"
    BY <1>2, OutcomeType
  <1>6. r[Len(r)][2] \in Uploaded => sent[i] > 0
    BY <1>1, <1>2, OutcomeType DEF Record, IInv, Reviewed
  <1>7. UNCHANGED <<artifact, sent, op, on>>
    BY DEF Record, filingVars, clientVars
  <1>8. \A v \in Workers : wpc'[v] # "idle" => wpc'[v] = wpc[v] /\ claim'[v] = claim[v]
    BY DEF Record, TypeOK
  <1>9. Reviewed'
    BY <1>3, <1>5, <1>6, <1>7, <1>8, ExtendsKeepsReviewed DEF IInv
  <1> QED
    BY <1>4, <1>9 DEF IInv

\* One more upload of the row that worker w has locked.
LEMMA UploadSends ==
    ASSUME TypeOK, IInv, NEW w \in Workers, wpc[w] = "upload",
           sent' = [sent EXCEPT ![claim[w]] = @ + 1]
    PROVE  /\ claim[w] \in Intents
           /\ sent' \in [Intents -> Nat]
           /\ \A i \in Intents : sent'[i] >= sent[i]
           /\ \A i \in Intents : sent'[i] > sent[i] => Sendable(i)
           /\ sent'[claim[w]] > 0
  <1>1. claim[w] \in Intents /\ Sendable(claim[w])
    BY DEF TypeOK, IInv, Reviewed
  <1> QED
    BY <1>1 DEF TypeOK

\* The locked rows of the other workers are unaffected.
LEMMA OthersKeep ==
    ASSUME TypeOK, IInv, NEW w \in Workers,
           sent' \in [Intents -> Nat], \A i \in Intents : sent'[i] >= sent[i],
           \A v \in Workers : v # w => wpc'[v] = wpc[v] /\ claim'[v] = claim[v],
           wpc'[w] = "upload" => Sendable(claim'[w]),
           wpc'[w] = "sent" => claim'[w] \in Intents /\ sent'[claim'[w]] > 0
    PROVE  /\ \A v \in Workers : wpc'[v] = "upload" => Sendable(claim'[v])
           /\ \A v \in Workers : wpc'[v] = "sent" => claim'[v] \in Intents /\ sent'[claim'[v]] > 0
  <1>1. ASSUME NEW v \in Workers, wpc'[v] = "upload" PROVE Sendable(claim'[v])
    BY <1>1 DEF IInv, Reviewed
  <1>2. ASSUME NEW v \in Workers, wpc'[v] = "sent"
        PROVE  claim'[v] \in Intents /\ sent'[claim'[v]] > 0
    <2>1. CASE v = w
      BY <1>2, <2>1
    <2>2. CASE v # w
      <3>1. wpc[v] = "sent" /\ claim[v] \in Intents /\ sent[claim[v]] > 0
        BY <1>2, <2>2 DEF IInv, Reviewed, TypeOK
      <3> QED
        BY <2>2, <3>1 DEF TypeOK
    <2> QED
      BY <2>1, <2>2
  <1> QED
    BY <1>1, <1>2

LEMMA NextIInv == TypeOK /\ IInv /\ [Next]_vars => IInv'
  <1> SUFFICES ASSUME TypeOK, IInv, [Next]_vars PROVE IInv'
    OBVIOUS
  <1> USE DEF filingVars, rowVars, clientVars, workerVars
  <1> DEFINE Idle == UNCHANGED <<intent, audit, op, on, wpc, claim, sent>>
  <1>1. ASSUME Idle, artifact \subseteq artifact' PROVE IInv'
    <2>1. /\ sent' \in [Intents -> Nat]
          /\ \A i \in Intents : sent'[i] >= sent[i] /\ ~(sent'[i] > sent[i])
      BY <1>1 DEF TypeOK
    <2>2. \A c \in Clients : op'[c] = "queue" => Passed(on'[c], "APPROVED")
      BY <1>1 DEF IInv, Reviewed
    <2>3. \A w \in Workers : wpc'[w] = "upload" => Sendable(claim'[w])
      BY <1>1 DEF IInv, Reviewed
    <2>4. \A w \in Workers : wpc'[w] = "sent" => claim'[w] \in Intents /\ sent'[claim'[w]] > 0
      BY <1>1 DEF IInv, Reviewed, TypeOK
    <2> QED
      BY <1>1, <2>1, <2>2, <2>3, <2>4, RowsKeepIInv
  <1>2. CASE UNCHANGED vars
    BY <1>1, <1>2 DEF vars
  <1>3. CASE Redeploy
    BY <1>1, <1>3 DEF Redeploy
  <1>4. ASSUME NEW i \in Intents, GenerateInvalid(i) PROVE IInv'
    BY <1>4, NewIntentKeeps DEF GenerateInvalid
  <1>5. ASSUME NEW i \in Intents, StoreArtifact(i) PROVE IInv'
    BY <1>1, <1>5 DEF StoreArtifact
  <1>6. ASSUME NEW i \in Intents, StoreIntent(i) PROVE IInv'
    <2>1. PICK s \in {"FAILED", "PENDING_REVIEW"} : NewIntent(i, s)
      BY <1>6 DEF StoreIntent
    <2> QED
      BY <1>6, <2>1, NewIntentKeeps DEF StoreIntent
  <1>7. ASSUME NEW i \in Intents, GenerateError(i) PROVE IInv'
    BY <1>1, <1>7 DEF GenerateError
  <1>8. ASSUME UNCHANGED <<intent, audit, artifact, wpc, claim, sent>>,
               \A c \in Clients : op'[c] = "queue" => Passed(on'[c], "APPROVED")
        PROVE  IInv'
    <2>1. /\ sent' \in [Intents -> Nat]
          /\ \A i \in Intents : sent'[i] >= sent[i] /\ ~(sent'[i] > sent[i])
      BY <1>8 DEF TypeOK
    <2>2. \A w \in Workers : wpc'[w] = "upload" => Sendable(claim'[w])
      BY <1>8 DEF IInv, Reviewed
    <2>3. \A w \in Workers : wpc'[w] = "sent" => claim'[w] \in Intents /\ sent'[claim'[w]] > 0
      BY <1>8 DEF IInv, Reviewed, TypeOK
    <2> QED
      BY <1>8, <2>1, <2>2, <2>3, RowsKeepIInv
  <1>9. ASSUME NEW c \in Clients, NEW o \in Op, NEW i \in Intents, BeginRequest(c, o, i)
        PROVE  IInv'
    <2>1. o = "queue" => Passed(i, "APPROVED")
      BY <1>9, PresentPassed DEF BeginRequest, MayBegin, IInv
    <2>2. \A d \in Clients : op'[d] = "queue" => Passed(on'[d], "APPROVED")
      BY <1>9, <2>1 DEF BeginRequest, TypeOK, IInv, Reviewed
    <2> QED
      BY <1>8, <1>9, <2>2 DEF BeginRequest
  <1>10. ASSUME NEW c \in Clients, Approve(c) PROVE IInv'
    BY <1>10, CommitKeeps DEF Approve, Status, Op, Allowed, Uploaded
  <1>11. ASSUME NEW c \in Clients, Queue(c) PROVE IInv'
    BY <1>11, CommitKeeps DEF Queue, Status, Op, Allowed, Uploaded
  <1>12. ASSUME NEW c \in Clients, EndRequest(c),
                UNCHANGED <<intent, audit, artifact, wpc, claim, sent>>
         PROVE  IInv'
    <2>1. \A d \in Clients : op'[d] = "queue" => Passed(on'[d], "APPROVED")
      BY <1>12 DEF EndRequest, TypeOK, IInv, Reviewed
    <2> QED
      BY <1>8, <1>12, <2>1
  <1>13. ASSUME NEW c \in Clients, PatchNotes(c) PROVE IInv'
    BY <1>12, <1>13 DEF PatchNotes
  <1>14. ASSUME NEW c \in Clients, RequestError(c) PROVE IInv'
    BY <1>12, <1>14 DEF RequestError
  <1>15. ASSUME NEW w \in Workers,
                UNCHANGED <<intent, audit, artifact, op, on>>,
                sent' \in [Intents -> Nat],
                \A i \in Intents : sent'[i] >= sent[i],
                \A i \in Intents : sent'[i] > sent[i] => Sendable(i),
                \A v \in Workers : v # w => wpc'[v] = wpc[v] /\ claim'[v] = claim[v],
                wpc'[w] = "upload" => Sendable(claim'[w]),
                wpc'[w] = "sent" => claim'[w] \in Intents /\ sent'[claim'[w]] > 0
         PROVE  IInv'
    <2>1. \A c \in Clients : op'[c] = "queue" => Passed(on'[c], "APPROVED")
      BY <1>15 DEF IInv, Reviewed
    <2>2. /\ \A v \in Workers : wpc'[v] = "upload" => Sendable(claim'[v])
          /\ \A v \in Workers : wpc'[v] = "sent" => claim'[v] \in Intents /\ sent'[claim'[v]] > 0
      BY <1>15, OthersKeep
    <2>3. artifact \subseteq artifact'
      BY <1>15
    <2> QED
      BY <1>15, <2>1, <2>2, <2>3, RowsKeepIInv
  <1>16. ASSUME NEW w \in Workers, Claim(w) PROVE IInv'
    <2>1. PICK k \in 1 .. Len(order) :
             /\ Claimable(order[k])
             /\ claim' = [claim EXCEPT ![w] = order[k]]
             /\ wpc' = [wpc EXCEPT ![w] =
                           IF config = "complete" /\ order[k] \in artifact THEN "upload" ELSE "fail"]
      BY <1>16 DEF Claim
    <2>2. PICK i \in Intents : i = order[k]
      BY DEF TypeOK
    <2>3. Passed(i, "APPROVED") /\ Passed(i, "SFTP_QUEUED")
      BY <2>1, <2>2, PresentPassed DEF Claimable, IInv, Reviewed
    <2>4. wpc'[w] = "upload" => Sendable(claim'[w])
      BY <2>1, <2>2, <2>3 DEF Sendable, TypeOK
    <2>5. wpc'[w] # "sent"
      BY <2>1 DEF TypeOK
    <2>6. \A v \in Workers : v # w => wpc'[v] = wpc[v] /\ claim'[v] = claim[v]
      BY <2>1 DEF TypeOK
    <2>7. /\ sent' \in [Intents -> Nat]
          /\ \A j \in Intents : sent'[j] >= sent[j] /\ ~(sent'[j] > sent[j])
      <3>1. sent' = sent
        BY <1>16 DEF Claim
      <3> QED
        BY <3>1 DEF TypeOK
    <2>8. UNCHANGED <<intent, audit, artifact, op, on>>
      BY <1>16 DEF Claim
    <2> QED
      BY <1>15, <2>4, <2>5, <2>6, <2>7, <2>8
  <1>17. ASSUME NEW w \in Workers, Upload(w) PROVE IInv'
    <2>1. wpc[w] = "upload" /\ sent' = [sent EXCEPT ![claim[w]] = @ + 1]
      BY <1>17 DEF Upload
    <2>2. wpc'[w] = "sent" /\ claim'[w] = claim[w]
      BY <1>17 DEF Upload, TypeOK
    <2>3. \A v \in Workers : v # w => wpc'[v] = wpc[v] /\ claim'[v] = claim[v]
      BY <1>17 DEF Upload, TypeOK
    <2>4. UNCHANGED <<intent, audit, artifact, op, on>>
      BY <1>17 DEF Upload
    <2> QED
      BY <1>15, <2>1, <2>2, <2>3, <2>4, UploadSends
  <1>18. ASSUME NEW w \in Workers, Record(w) PROVE IInv'
    BY <1>18, RecordKeeps
  <1>19. ASSUME NEW w \in Workers, wpc'[w] \in {"idle", "fail"},
                sent' = sent \/ (wpc[w] = "upload" /\ sent' = [sent EXCEPT ![claim[w]] = @ + 1]),
                \A v \in Workers : v # w => wpc'[v] = wpc[v] /\ claim'[v] = claim[v],
                UNCHANGED <<intent, audit, artifact, op, on>>
         PROVE  IInv'
    <2>1. /\ sent' \in [Intents -> Nat]
          /\ \A i \in Intents : sent'[i] >= sent[i]
          /\ \A i \in Intents : sent'[i] > sent[i] => Sendable(i)
      <3>1. CASE sent' = sent
        BY <3>1 DEF TypeOK
      <3>2. CASE wpc[w] = "upload" /\ sent' = [sent EXCEPT ![claim[w]] = @ + 1]
        BY <3>2, UploadSends
      <3> QED
        BY <1>19, <3>1, <3>2
    <2> QED
      BY <1>15, <1>19, <2>1
  <1>20. ASSUME NEW w \in Workers, UploadError(w) PROVE IInv'
    <2>1. wpc'[w] = "fail" /\ \A v \in Workers : v # w => wpc'[v] = wpc[v] /\ claim'[v] = claim[v]
      BY <1>20 DEF UploadError, TypeOK
    <2> QED
      BY <1>19, <1>20, <2>1 DEF UploadError
  <1>21. ASSUME NEW w \in Workers, WorkerDies(w) PROVE IInv'
    <2>1. wpc'[w] = "idle" /\ \A v \in Workers : v # w => wpc'[v] = wpc[v] /\ claim'[v] = claim[v]
      BY <1>21 DEF WorkerDies, TypeOK
    <2> QED
      BY <1>19, <1>21, <2>1 DEF WorkerDies
  <1> QED
    BY <1>2, <1>3, <1>4, <1>5, <1>6, <1>7, <1>9, <1>10, <1>11, <1>13, <1>14, <1>16, <1>17, <1>18,
       <1>20, <1>21
    DEF Next, WorkerStep

\* The inductive invariant: the trail tells the truth, and whatever is queued,
\* claimed or sent has the approvals in its trail.
THEOREM Inductive == Spec => []IInv
  BY InitIInv, NextIInv, TypeCorrect, PTL DEF Spec

\* sar_audit_log is true to the intents for any number of overlapping requests
\* and workers: transition_sar_intent and the worker write the row and its
\* trail in one transaction.
THEOREM AuditAlwaysTellsStatus == Spec => []AuditTellsStatus
  BY Inductive, PTL DEF IInv

\* The worker transmits only what was stored, approved and queued, and records
\* as transmitted only what it sent.
THEOREM TransmissionAlwaysBacked == Spec => []TransmissionBacked
  <1>1. IInv => TransmissionBacked
    BY DEF IInv, Reviewed, TransmissionBacked, Sendable
  <1> QED
    BY <1>1, Inductive, PTL

(***************************************************************************)
(* The row lock.  A locked row stays queued until its worker commits, no   *)
(* two workers have one row locked, and generate_sar writes the row of an  *)
(* intent once.                                                            *)
(***************************************************************************)
LockInv ==
    /\ \A w \in Workers : claim[w] # "none" => intent[claim[w]] = "SFTP_QUEUED"
    /\ \A v, w \in Workers : claim[w] # "none" /\ claim[v] = claim[w] => v = w
    /\ \A i \in Intents : gen[i] \in {"new", "stored"} => intent[i] = "none"

LEMMA InitLock == Init => LockInv
  BY DEF Init, LockInv

\* A request is served on an intent that has a row.
Admitted == \A c \in Clients : op[c] # "idle" => intent[on[c]] # "none"

\* The steps that touch neither the status of an intent nor a lock.
Bystander ==
    /\ UNCHANGED <<intent, audit, wpc, claim, sent>>
    /\ \A i \in Intents : gen'[i] \in {"new", "stored"} => gen[i] \in {"new", "stored"}
    /\ faults' \in {faults, faults - 1}

\* What one step does to statuses, trails, locks and uploads.
RowStep(i, r) ==
    /\ Extends(i, r) /\ sent' = sent
    /\ \A k \in 2 .. Len(r) : r[k][1] = r[k - 1][2]

Stores(i, r) ==
    /\ RowStep(i, r) /\ gen[i] \in {"new", "stored"} /\ r[Len(r)][2] \in {"FAILED", "PENDING_REVIEW"}
    /\ gen'[i] \notin {"new", "stored"} /\ \A j \in Intents : j # i => gen'[j] = gen[j]
    /\ UNCHANGED <<wpc, claim, faults>>

Commits(i, r) ==
    /\ RowStep(i, r) /\ Unlocked(i) /\ Len(r) = 1 /\ intent[i] # "none"
    /\ r[1] \in {<<"PENDING_REVIEW", "APPROVED">>, <<"APPROVED", "SFTP_QUEUED">>}
    /\ (r[1][1] = intent[i] /\ faults' = faults) \/ faults' = faults - 1
    /\ UNCHANGED <<gen, wpc, claim>>

Records(w, i, r) ==
    /\ RowStep(i, r) /\ claim[w] = i /\ r[1][1] = "SFTP_QUEUED"
    /\ r[Len(r)][2] \in {"TRANSMITTED", "ACKNOWLEDGED", "FAILED"}
    /\ wpc' = [wpc EXCEPT ![w] = "idle"] /\ claim' = [claim EXCEPT ![w] = "none"]
    /\ UNCHANGED <<gen, faults>>

Locks(w, i) ==
    /\ Claimable(i) /\ wpc[w] = "idle"
    /\ claim' = [claim EXCEPT ![w] = i]
    /\ \E p \in {"upload", "fail"} : wpc' = [wpc EXCEPT ![w] = p]
    /\ UNCHANGED <<gen, intent, audit, sent, faults>>

Sends(w, i) ==
    /\ claim[w] = i /\ wpc[w] = "upload"
    /\ sent' = [sent EXCEPT ![i] = @ + 1]
    /\ wpc' = [wpc EXCEPT ![w] = "sent"]
    /\ UNCHANGED <<gen, intent, audit, claim, faults>>

GivesUp(w, i) ==
    /\ claim[w] = i /\ wpc[w] # "idle" /\ faults' = faults - 1
    /\ sent' = sent \/ (wpc[w] = "upload" /\ sent' = [sent EXCEPT ![i] = @ + 1])
    /\ \/ wpc[w] = "upload" /\ wpc' = [wpc EXCEPT ![w] = "fail"] /\ claim' = claim
       \/ wpc' = [wpc EXCEPT ![w] = "idle"] /\ claim' = [claim EXCEPT ![w] = "none"]
    /\ UNCHANGED <<gen, intent, audit>>

Moves ==
    \/ Bystander
    \/ \E i \in Intents, r \in Seq(AuditRow) : Stores(i, r) \/ Commits(i, r)
    \/ \E w \in Workers, i \in Intents, r \in Seq(AuditRow) : Records(w, i, r)
    \/ \E w \in Workers, i \in Intents : Locks(w, i) \/ Sends(w, i) \/ GivesUp(w, i)

\* One audit row is a row step.
LEMMA OneRowStep ==
    ASSUME TypeOK, NEW i \in Intents, NEW row \in AuditRow, row \in Allowed,
           audit' = [audit EXCEPT ![i] = Append(@, row)],
           intent' = [intent EXCEPT ![i] = row[2]],
           sent' = sent
    PROVE  \E r \in Seq(AuditRow) : RowStep(i, r) /\ Len(r) = 1 /\ r[1] = row
  <1> DEFINE r == <<row>>
  <1>1. Extends(i, r)
    BY OneRowExtends
  <1>2. r \in Seq(AuditRow) /\ Len(r) = 1 /\ r[1] = row
    OBVIOUS
  <1> HIDE DEF r
  <1>3. RowStep(i, r)
    BY <1>1, <1>2 DEF RowStep
  <1> QED
    BY <1>2, <1>3

LEMMA StoreMoves ==
    ASSUME TypeOK, NEW i \in Intents, NEW s \in {"FAILED", "PENDING_REVIEW"}, NewIntent(i, s),
           NEW g \in {"rejected", "answered"}, gen[i] \in {"new", "stored"},
           gen' = [gen EXCEPT ![i] = g], UNCHANGED <<wpc, claim, sent, faults>>
    PROVE  Moves
  <1> DEFINE row == <<"none", s>>
  <1>1. row \in AuditRow /\ row[2] = s /\ row \in Allowed
    BY DEF AuditRow, Status, Allowed
  <1>2. /\ audit' = [audit EXCEPT ![i] = Append(@, row)]
        /\ intent' = [intent EXCEPT ![i] = row[2]]
    BY DEF NewIntent
  <1> HIDE DEF row
  <1>3. PICK r \in Seq(AuditRow) : RowStep(i, r) /\ Len(r) = 1 /\ r[1] = row
    BY <1>1, <1>2, OneRowStep
  <1>4. gen'[i] = g /\ \A j \in Intents : j # i => gen'[j] = gen[j]
    BY DEF TypeOK
  <1>5. Stores(i, r)
    BY <1>1, <1>3, <1>4 DEF Stores
  <1> QED
    BY <1>5 DEF Moves

LEMMA CommitMoves ==
    ASSUME TypeOK, Admitted, NEW c \in Clients, NEW o \in Op, NEW from, NEW to,
           <<from, to>> \in {<<"PENDING_REVIEW", "APPROVED">>, <<"APPROVED", "SFTP_QUEUED">>},
           \A s \in Status \cup {"none"} : MayBegin(o, s) => s = from,
           CommitTransition(c, o, from, to)
    PROVE  Moves
  <1>1. PICK i \in Intents : i = on[c]
    BY DEF CommitTransition, TypeOK, Op
  <1> DEFINE row == <<from, to>>
  <1>2. row \in AuditRow /\ row[1] = from /\ row[2] = to /\ row \in Allowed
    BY DEF AuditRow, Status, Allowed
  <1>3. /\ audit' = [audit EXCEPT ![i] = Append(@, row)]
        /\ intent' = [intent EXCEPT ![i] = row[2]]
    BY <1>1 DEF CommitTransition
  <1>4. row \in {<<"PENDING_REVIEW", "APPROVED">>, <<"APPROVED", "SFTP_QUEUED">>}
    OBVIOUS
  <1> HIDE DEF row
  <1>5. sent' = sent /\ UNCHANGED <<gen, wpc, claim>>
    BY DEF CommitTransition, workerVars, filingVars
  <1>6. PICK r \in Seq(AuditRow) : RowStep(i, r) /\ Len(r) = 1 /\ r[1] = row
    BY <1>2, <1>3, <1>5, OneRowStep
  <1>7. Unlocked(i)
    BY <1>1 DEF CommitTransition
  <1>8. (intent[i] = from /\ faults' = faults) \/ faults' = faults - 1
    <2>1. CASE MayBegin(o, intent[i])
      <3>1. intent[i] \in Status \cup {"none"}
        BY DEF TypeOK
      <3> QED
        BY <1>1, <2>1, <3>1 DEF CommitTransition, Overtaken
    <2>2. CASE ~MayBegin(o, intent[i])
      BY <1>1, <2>2 DEF CommitTransition, Overtaken, Fault
    <2> QED
      BY <2>1, <2>2
  <1>9. intent[i] # "none"
    BY <1>1 DEF CommitTransition, Op, Admitted
  <1>10. Commits(i, r)
    BY <1>2, <1>9, <1>4, <1>5, <1>6, <1>7, <1>8 DEF Commits
  <1> QED
    BY <1>10 DEF Moves

LEMMA RecordMoves ==
    ASSUME TypeOK, NEW w \in Workers, Record(w)
    PROVE  Moves
  <1>1. PICK i \in Intents : i = claim[w]
    BY DEF Record, TypeOK
  <1>2. PICK r : r = Outcome(w)
    OBVIOUS
  <1>3. Extends(i, r) /\ r \in Seq(AuditRow)
    <2>1. /\ r \in Seq(AuditRow) /\ Len(r) > 0
          /\ \A k \in 1 .. Len(r) : r[k] \in Allowed
      <3>1. r \in Seq(AuditRow) /\ Len(r) \in 1 .. 2
        BY <1>2, OutcomeType
      <3>2. \A k \in 1 .. Len(r) : r[k] \in Allowed
        BY <1>2, OutcomeType
      <3> QED
        BY <3>1, <3>2
    <2> QED
      BY <1>1, <1>2, <2>1 DEF Record, Extends
  <1>4. /\ r[1][1] = "SFTP_QUEUED"
        /\ r[Len(r)][2] \in {"TRANSMITTED", "ACKNOWLEDGED", "FAILED"}
        /\ \A k \in 2 .. Len(r) : r[k][1] = r[k - 1][2]
    <2>1. CASE wpc[w] = "fail"
      BY <1>2, <2>1 DEF Outcome
    <2>2. CASE wpc[w] # "fail" /\ SeparateAck
      BY <1>2, <2>2 DEF Outcome
    <2>3. CASE wpc[w] # "fail" /\ ~SeparateAck
      <3>1. r = <<<<"SFTP_QUEUED", "TRANSMITTED">>, <<"TRANSMITTED", "ACKNOWLEDGED">>>>
        BY <1>2, <2>3 DEF Outcome
      <3> QED
        BY <3>1
    <2> QED
      BY <2>1, <2>2, <2>3
  <1>5. /\ wpc' = [wpc EXCEPT ![w] = "idle"] /\ claim' = [claim EXCEPT ![w] = "none"]
        /\ UNCHANGED <<gen, faults, sent>>
    BY DEF Record, filingVars
  <1>6. Records(w, i, r)
    BY <1>1, <1>3, <1>4, <1>5 DEF Records, RowStep
  <1> QED
    BY <1>3, <1>6 DEF Moves

LEMMA ClaimMoves ==
    ASSUME TypeOK, NEW w \in Workers, Claim(w)
    PROVE  Moves
  <1>1. PICK k \in 1 .. Len(order) :
           /\ Claimable(order[k])
           /\ claim' = [claim EXCEPT ![w] = order[k]]
           /\ wpc' = [wpc EXCEPT ![w] =
                         IF config = "complete" /\ order[k] \in artifact THEN "upload" ELSE "fail"]
    BY Zenon DEF Claim
  <1>2. PICK i \in Intents : i = order[k]
    BY DEF TypeOK
  <1>3. \E p \in {"upload", "fail"} : wpc' = [wpc EXCEPT ![w] = p]
    BY <1>1
  <1>4. wpc[w] = "idle" /\ UNCHANGED <<gen, intent, audit, sent, faults>>
    BY DEF Claim, filingVars, rowVars
  <1>5. Locks(w, i)
    BY <1>1, <1>2, <1>3, <1>4 DEF Locks
  <1> QED
    BY <1>5 DEF Moves

LEMMA FailureMoves ==
    ASSUME TypeOK, NEW w \in Workers, UploadError(w) \/ WorkerDies(w)
    PROVE  Moves
  <1>1. PICK i \in Intents : i = claim[w]
    BY DEF UploadError, WorkerDies, TypeOK
  <1>2. CASE UploadError(w)
    BY <1>1, <1>2 DEF UploadError, Fault, GivesUp, Moves, filingVars, rowVars
  <1>3. CASE WorkerDies(w)
    BY <1>1, <1>3 DEF WorkerDies, Fault, GivesUp, Moves, filingVars, rowVars
  <1> QED
    BY <1>2, <1>3

LEMMA StepMoves ==
    ASSUME TypeOK, Admitted, [Next]_vars
    PROVE  Moves
  <1> USE DEF filingVars, rowVars, clientVars, workerVars, Fault
  <1> DEFINE Idle == UNCHANGED <<intent, audit, wpc, claim, sent>> /\ faults' \in {faults, faults - 1}
  <1>1. ASSUME Idle, gen' = gen PROVE Moves
    BY <1>1 DEF Bystander, Moves
  <1>2. CASE UNCHANGED vars
    BY <1>1, <1>2 DEF vars
  <1>3. CASE Redeploy
    BY <1>1, <1>3 DEF Redeploy
  <1>4. ASSUME NEW i \in Intents, GenerateInvalid(i) PROVE Moves
    BY <1>4, StoreMoves DEF GenerateInvalid
  <1>5. ASSUME NEW i \in Intents, Idle, NEW g \in {"stored", "error"}, gen[i] \in {"new", "stored"},
               gen' = [gen EXCEPT ![i] = g]
        PROVE  Moves
    BY <1>5 DEF Bystander, Moves, TypeOK
  <1>6. ASSUME NEW i \in Intents, StoreArtifact(i) PROVE Moves
    BY <1>5, <1>6 DEF StoreArtifact
  <1>7. ASSUME NEW i \in Intents, StoreIntent(i) PROVE Moves
    <2>1. PICK s \in {"FAILED", "PENDING_REVIEW"} : NewIntent(i, s)
      BY <1>7 DEF StoreIntent
    <2> QED
      BY <1>7, <2>1, StoreMoves DEF StoreIntent
  <1>8. ASSUME NEW i \in Intents, GenerateError(i) PROVE Moves
    BY <1>5, <1>8 DEF GenerateError
  <1>9. ASSUME NEW c \in Clients, NEW o \in Op, NEW i \in Intents, BeginRequest(c, o, i) PROVE Moves
    BY <1>1, <1>9 DEF BeginRequest
  <1>10. ASSUME NEW c \in Clients, Approve(c) PROVE Moves
    <2>1. \A s \in Status \cup {"none"} : MayBegin("approve", s) => s = "PENDING_REVIEW"
      BY DEF MayBegin
    <2>2. "approve" \in Op
      BY DEF Op
    <2> QED
      BY <1>10, <2>1, <2>2, CommitMoves DEF Approve
  <1>11. ASSUME NEW c \in Clients, Queue(c) PROVE Moves
    <2>1. \A s \in Status \cup {"none"} : MayBegin("queue", s) => s = "APPROVED"
      BY DEF MayBegin
    <2>2. "queue" \in Op
      BY DEF Op
    <2> QED
      BY <1>11, <2>1, <2>2, CommitMoves DEF Queue
  <1>12. ASSUME NEW c \in Clients, PatchNotes(c) PROVE Moves
    BY <1>1, <1>12 DEF PatchNotes, Overtaken
  <1>13. ASSUME NEW c \in Clients, RequestError(c) PROVE Moves
    BY <1>1, <1>13 DEF RequestError
  <1>14. ASSUME NEW w \in Workers, Upload(w) PROVE Moves
    <2>1. PICK i \in Intents : i = claim[w]
      BY <1>14 DEF Upload, TypeOK
    <2>2. Sends(w, i)
      BY <1>14, <2>1 DEF Upload, Sends
    <2> QED
      BY <2>2 DEF Moves
  <1> QED
    BY <1>2, <1>3, <1>4, <1>6, <1>7, <1>8, <1>9, <1>10, <1>11, <1>12, <1>13, <1>14, ClaimMoves,
       RecordMoves, FailureMoves
    DEF Next, WorkerStep

LEMMA NextAdmitted == TypeOK /\ Admitted /\ [Next]_vars => Admitted'
  <1> SUFFICES ASSUME TypeOK, Admitted, [Next]_vars, NEW c \in Clients, op'[c] # "idle"
               PROVE  intent'[on'[c]] # "none"
    BY DEF Admitted
  <1>1. \A j \in Intents : intent[j] # "none" => intent'[j] # "none"
    <2>1. ASSUME NEW i \in Intents, NEW r \in Seq(AuditRow), Extends(i, r), NEW j \in Intents,
                 intent[j] # "none"
          PROVE  intent'[j] # "none"
      <3>1. r[Len(r)] \in AuditRow
        <4>0. Len(r) > 0 /\ Len(r) \in Nat
          <5>1. Len(r) \in Nat
            OBVIOUS
          <5> QED
            BY <2>1, <5>1 DEF Extends
        <4>1. Len(r) \in 1 .. Len(r)
          BY <4>0
        <4> QED
          BY <2>1, <4>1
      <3>2. r[Len(r)][2] # "none"
        BY <3>1 DEF AuditRow, Status
      <3> QED
        BY <2>1, <3>2, TrailStep
    <2>2. \/ intent' = intent
          \/ \E i \in Intents, r \in Seq(AuditRow) : Extends(i, r)
      BY StepMoves
      DEF Moves, Bystander, Stores, Commits, Records, RowStep, Locks, Sends, GivesUp
    <2> QED
      BY <2>1, <2>2
  <1>2. \/ op[c] # "idle" /\ on'[c] = on[c]
        \/ intent' = intent /\ intent[on'[c]] # "none"
    <2> USE DEF clientVars, rowVars
    <2>1. CASE UNCHANGED clientVars
      BY <2>1
    <2>2. ASSUME NEW d \in Clients, EndRequest(d) PROVE op[c] # "idle" /\ on'[c] = on[c]
      BY <2>2 DEF EndRequest, TypeOK
    <2>3. ASSUME NEW d \in Clients, NEW o \in Op, NEW i \in Intents, BeginRequest(d, o, i)
          PROVE  \/ op[c] # "idle" /\ on'[c] = on[c]
                 \/ intent' = intent /\ intent[on'[c]] # "none"
      <3>1. intent' = intent /\ intent[i] # "none"
        BY <2>3 DEF BeginRequest, MayBegin, Status
      <3>2. on'[d] = i /\ (c # d => op'[c] = op[c] /\ on'[c] = on[c])
        BY <2>3 DEF BeginRequest, TypeOK
      <3> QED
        BY <3>1, <3>2
    <2> QED
      BY <2>1, <2>2, <2>3
      DEF Next, vars, WorkerStep, Redeploy, GenerateInvalid, StoreArtifact, StoreIntent, GenerateError,
          Approve, Queue, CommitTransition, PatchNotes, RequestError, Claim, Upload, Record,
          UploadError, WorkerDies
  <1>3. op[c] # "idle" => on[c] \in Intents /\ intent[on[c]] # "none"
    BY DEF TypeOK, Admitted
  <1> QED
    BY <1>1, <1>2, <1>3

LEMMA AdmittedInductive == Spec => []Admitted
  <1>1. Init => Admitted
    BY DEF Init, Admitted
  <1> QED
    BY <1>1, NextAdmitted, TypeCorrect, PTL DEF Spec

LEMMA NextLock == TypeOK /\ Admitted /\ LockInv /\ [Next]_vars => LockInv'
  <1> SUFFICES ASSUME TypeOK, Admitted, LockInv, [Next]_vars PROVE LockInv'
    OBVIOUS
  <1>1. CASE Bystander
    BY <1>1 DEF Bystander, LockInv
  <1>2. ASSUME NEW i \in Intents, NEW r \in Seq(AuditRow), Stores(i, r) PROVE LockInv'
    <2>1. \A j \in Intents : j # i => intent'[j] = intent[j] /\ gen'[j] = gen[j]
      BY <1>2, TrailStep DEF Stores, RowStep
    <2>2. intent[i] = "none" /\ claim' = claim /\ gen'[i] \notin {"new", "stored"}
      BY <1>2 DEF Stores, LockInv
    <2>3. \A w \in Workers : claim[w] # "none" => claim[w] \in Intents /\ claim[w] # i
      BY <2>2 DEF LockInv, TypeOK
    <2> QED
      BY <2>1, <2>2, <2>3 DEF LockInv
  <1>3. ASSUME NEW i \in Intents, NEW r \in Seq(AuditRow), Commits(i, r) PROVE LockInv'
    <2>1. \A j \in Intents : j # i => intent'[j] = intent[j]
      BY <1>3, TrailStep DEF Commits, RowStep
    <2>2. UNCHANGED <<gen, claim>> /\ \A w \in Workers : claim[w] # i
      BY <1>3 DEF Commits, Unlocked
    <2>3. \A w \in Workers : claim[w] # "none" => claim[w] \in Intents
      BY DEF TypeOK
    <2>4. gen[i] \notin {"new", "stored"}
      BY <1>3 DEF Commits, LockInv
    <2> QED
      BY <2>1, <2>2, <2>3, <2>4 DEF LockInv
  <1>4. ASSUME NEW w \in Workers, NEW i \in Intents, NEW r \in Seq(AuditRow), Records(w, i, r)
        PROVE  LockInv'
    <2>1. \A j \in Intents : j # i => intent'[j] = intent[j]
      BY <1>4, TrailStep DEF Records, RowStep
    <2>2. gen' = gen /\ claim[w] = i /\ claim' = [claim EXCEPT ![w] = "none"]
      BY <1>4 DEF Records
    <2>3. claim'[w] = "none" /\ \A v \in Workers : v # w => claim'[v] = claim[v]
      BY <2>2 DEF TypeOK
    <2>4. i # "none" /\ intent[i] = "SFTP_QUEUED" /\ gen[i] \notin {"new", "stored"}
      BY <2>2, NoIntentAssumption DEF LockInv
    <2>5. \A v \in Workers : v # w /\ claim[v] # "none" => claim[v] \in Intents /\ claim[v] # i
      BY <2>2, <2>4 DEF LockInv, TypeOK
    <2> QED
      BY <2>1, <2>2, <2>3, <2>4, <2>5 DEF LockInv
  <1>5. ASSUME NEW w \in Workers, NEW i \in Intents, Locks(w, i) PROVE LockInv'
    <2>1. UNCHANGED <<gen, intent>> /\ intent[i] = "SFTP_QUEUED" /\ \A v \in Workers : claim[v] # i
      BY <1>5 DEF Locks, Claimable, Unlocked
    <2>2. claim'[w] = i /\ \A v \in Workers : v # w => claim'[v] = claim[v]
      BY <1>5 DEF Locks, TypeOK
    <2> QED
      BY <2>1, <2>2 DEF LockInv
  <1>6. ASSUME NEW w \in Workers, NEW i \in Intents, Sends(w, i) PROVE LockInv'
    BY <1>6 DEF Sends, LockInv
  <1>7. ASSUME NEW w \in Workers, NEW i \in Intents, GivesUp(w, i) PROVE LockInv'
    <2>1. /\ UNCHANGED <<gen, intent>>
          /\ \A v \in Workers : claim'[v] \in {claim[v], "none"}
      BY <1>7, Types DEF GivesUp
    <2>2. \A v \in Workers : claim'[v] # "none" => claim'[v] = claim[v]
      BY <2>1
    <2> QED
      BY <2>1, <2>2 DEF LockInv
  <1> QED
    BY <1>1, <1>2, <1>3, <1>4, <1>5, <1>6, <1>7, StepMoves DEF Moves

LEMMA LockInductive == Spec => []LockInv
  BY InitLock, NextLock, AdmittedInductive, TypeCorrect, PTL DEF Spec

(***************************************************************************)
(* Uploads.  An intent may be uploaded without a further fault as long as  *)
(* it is neither settled nor in the hands of a worker that has sent it; a  *)
(* filing that left that state comes back to it by a fault only.           *)
(***************************************************************************)
Unsent(i) ==
    /\ intent[i] \notin {"TRANSMITTED", "ACKNOWLEDGED", "FAILED"}
    /\ \A w \in Workers : ~(claim[w] = i /\ wpc[w] = "sent")

UploadInv ==
    \A i \in Intents : sent[i] <= Used + 1 /\ (Unsent(i) => sent[i] <= Used)

LEMMA InitUpload == Init => UploadInv
  BY BoundsAssumption DEF Init, UploadInv, Used

\* An intent whose row is locked by a worker that has yet to send it.
LEMMA LockedUnsent ==
    ASSUME TypeOK, LockInv, NEW w \in Workers, NEW i \in Intents, claim[w] = i, wpc[w] # "sent"
    PROVE  Unsent(i)
  <1>1. intent[i] = "SFTP_QUEUED" /\ \A v \in Workers : claim[v] = i => v = w
    BY NoIntentAssumption DEF LockInv
  <1> QED
    BY <1>1 DEF Unsent

LEMMA NextUpload ==
    TypeOK /\ TypeOK' /\ Admitted /\ LockInv /\ UploadInv /\ [Next]_vars => UploadInv'
  <1> SUFFICES ASSUME TypeOK, TypeOK', Admitted, LockInv, UploadInv, [Next]_vars PROVE UploadInv'
    OBVIOUS
  <1>1. faults \in Int /\ faults' \in Int /\ MaxFaults \in Nat
    BY BoundsAssumption DEF TypeOK
  <1>2. \A i \in Intents : sent[i] \in Nat
    BY DEF TypeOK
  \* Steps that send nothing: what becomes sendable again does so by a fault.
  <1>3. ASSUME sent' = sent, faults' \in {faults, faults - 1},
               \A i \in Intents : Unsent(i)' => Unsent(i) \/ faults' = faults - 1
        PROVE  UploadInv'
    BY <1>1, <1>2, <1>3 DEF UploadInv, Used
  <1>4. CASE Bystander
    BY <1>3, <1>4 DEF Bystander, Unsent
  <1>5. ASSUME NEW i \in Intents, NEW r \in Seq(AuditRow), Stores(i, r) PROVE UploadInv'
    <2>1. \A j \in Intents : j # i => intent'[j] = intent[j]
      BY <1>5, TrailStep DEF Stores, RowStep
    <2>2. intent[i] = "none" /\ UNCHANGED <<claim, wpc, sent, faults>>
      BY <1>5 DEF Stores, RowStep, LockInv
    <2>3. \A j \in Intents : Unsent(j)' => Unsent(j)
      BY <2>1, <2>2 DEF Unsent
    <2> QED
      BY <1>3, <2>2, <2>3
  <1>6. ASSUME NEW i \in Intents, NEW r \in Seq(AuditRow), Commits(i, r) PROVE UploadInv'
    <2>1. \A j \in Intents : j # i => intent'[j] = intent[j]
      BY <1>6, TrailStep DEF Commits, RowStep
    <2>2. UNCHANGED <<claim, wpc, sent>> /\ faults' \in {faults, faults - 1}
      BY <1>6 DEF Commits, RowStep
    <2>3. faults' = faults => intent[i] \in {"PENDING_REVIEW", "APPROVED"}
      <3>1. r[1][1] \in {"PENDING_REVIEW", "APPROVED"}
        BY <1>6 DEF Commits
      <3>2. faults' = faults => r[1][1] = intent[i]
        <4>1. faults - 1 # faults
          BY <1>1
        <4> QED
          BY <1>6, <4>1 DEF Commits
      <3> QED
        BY <3>1, <3>2
    <2>4. \A j \in Intents : Unsent(j)' => Unsent(j) \/ faults' = faults - 1
      BY <2>1, <2>2, <2>3 DEF Unsent
    <2> QED
      BY <1>3, <2>2, <2>4
  <1>7. ASSUME NEW w \in Workers, NEW i \in Intents, NEW r \in Seq(AuditRow), Records(w, i, r)
        PROVE  UploadInv'
    <2>1. (\A j \in Intents : j # i => intent'[j] = intent[j]) /\ intent'[i] = r[Len(r)][2]
      BY <1>7, TrailStep DEF Records, RowStep
    <2>2. /\ claim[w] = i /\ UNCHANGED <<sent, faults>>
          /\ \A v \in Workers : v # w => claim'[v] = claim[v] /\ wpc'[v] = wpc[v]
      BY <1>7, Types DEF Records, RowStep
    <2>3. ~Unsent(i)'
      BY <1>7, <2>1 DEF Unsent, Records
    <2>4. \A j \in Intents : Unsent(j)' => Unsent(j)
      BY <2>1, <2>2, <2>3 DEF Unsent
    <2> QED
      BY <1>3, <2>2, <2>4
  <1>8. ASSUME NEW w \in Workers, NEW i \in Intents, Locks(w, i) PROVE UploadInv'
    <2>1. UNCHANGED <<intent, sent, faults>> /\ wpc[w] = "idle"
      BY <1>8 DEF Locks
    <2>2. \A v \in Workers : v # w => claim'[v] = claim[v] /\ wpc'[v] = wpc[v]
      BY <1>8, Types DEF Locks
    <2>3. \A j \in Intents : Unsent(j)' => Unsent(j)
      BY <2>1, <2>2 DEF Unsent
    <2> QED
      BY <1>3, <2>1, <2>3
  <1>9. ASSUME NEW w \in Workers, NEW i \in Intents, Sends(w, i) PROVE UploadInv'
    <2>1. Unsent(i)
      BY <1>9, LockedUnsent DEF Sends
    <2>2. /\ UNCHANGED <<intent, claim, faults>> /\ claim[w] = i /\ wpc'[w] = "sent"
          /\ \A v \in Workers : v # w => wpc'[v] = wpc[v]
          /\ wpc[w] = "upload"
      BY <1>9, Types DEF Sends
    <2>3. sent'[i] = sent[i] + 1 /\ \A j \in Intents : j # i => sent'[j] = sent[j]
      BY <1>9, Types DEF Sends
    <2>4. ~Unsent(i)' /\ \A j \in Intents : Unsent(j)' => Unsent(j)
      BY <2>2 DEF Unsent
    <2>5. sent[i] <= MaxFaults - faults
      BY <2>1 DEF UploadInv, Used
    <2>6. \A j \in Intents : /\ sent[j] <= MaxFaults - faults + 1
                             /\ Unsent(j) => sent[j] <= MaxFaults - faults
      BY DEF UploadInv, Used
    <2>7. \A j \in Intents : j # i => /\ sent'[j] <= MaxFaults - faults' + 1
                                      /\ Unsent(j)' => sent'[j] <= MaxFaults - faults'
      BY <2>2, <2>3, <2>4, <2>6
    <2>8. sent'[i] <= MaxFaults - faults' + 1
      BY <1>1, <1>2, <2>2, <2>3, <2>5
    <2> QED
      BY <2>4, <2>7, <2>8 DEF UploadInv, Used
  <1>10. ASSUME NEW w \in Workers, NEW i \in Intents, GivesUp(w, i) PROVE UploadInv'
    <2>1. faults' = faults - 1 /\ claim[w] = i
      BY <1>10 DEF GivesUp
    <2>2. CASE sent' = sent
      BY <1>3, <2>1, <2>2
    <2>3. CASE wpc[w] = "upload" /\ sent' = [sent EXCEPT ![i] = @ + 1]
      <3>1. Unsent(i)
        BY <2>1, <2>3, LockedUnsent
      <3>2. sent'[i] = sent[i] + 1 /\ \A j \in Intents : j # i => sent'[j] = sent[j]
        BY <2>3, Types
      <3>3. \A j \in Intents : sent[j] <= MaxFaults - faults + 1
        BY DEF UploadInv, Used
      <3>4. sent[i] <= MaxFaults - faults
        BY <3>1 DEF UploadInv, Used
      <3>5. \A j \in Intents : sent'[j] <= MaxFaults - faults'
        BY <1>1, <1>2, <2>1, <3>2, <3>3, <3>4
      <3> QED
        <4>1. \A j \in Intents : sent'[j] \in Int
          BY <1>2, <3>2
        <4>2. \A j \in Intents : sent'[j] <= MaxFaults - faults' + 1
          BY <1>1, <3>5, <4>1
        <4> QED
          BY <3>5, <4>2 DEF UploadInv, Used
    <2> QED
      BY <1>10, <2>2, <2>3 DEF GivesUp
  <1> QED
    BY <1>4, <1>5, <1>6, <1>7, <1>8, <1>9, <1>10, StepMoves DEF Moves

\* A filing is uploaded once, each further upload being owed to a fault of its
\* own, for any number of intents, requests and workers: a row the transport
\* worker has sent leaves SFTP_QUEUED in the transaction that holds its lock.
THEOREM UploadsAlwaysCaused == Spec => []UploadsCaused
  <1>1. TypeOK /\ UploadInv => UploadsCaused
    BY BoundsAssumption DEF UploadInv, UploadsCaused, Used, TypeOK
  <1>2. Spec => []UploadInv
    BY InitUpload, NextUpload, LockInductive, AdmittedInductive, TypeCorrect, PTL DEF Spec
  <1> QED
    BY <1>1, <1>2, TypeCorrect, PTL

(***************************************************************************)
(* Breaks.  A row that is appended starts where the trail ends, unless it  *)
(* is the commit of a request that was overtaken.                          *)
(***************************************************************************)
LEMMA IsBreak ==
    ASSUME NEW i \in Intents, NEW k \in 2 .. Len(audit[i]), audit[i][k][1] # audit[i][k - 1][2]
    PROVE  <<i, k>> \in Breaks
  BY DEF Breaks

\* The only new break a row step can bring is before its first row.
LEMMA RowStepBreaks ==
    ASSUME TypeOK, AuditTellsStatus, NEW i \in Intents, NEW r \in Seq(AuditRow), RowStep(i, r)
    PROVE  /\ Breaks' \subseteq Breaks \cup {<<i, Len(audit[i]) + 1>>}
           /\ r[1][1] = intent[i] \/ intent[i] = "none" => Breaks' \subseteq Breaks
  <1> DEFINE n == Len(audit[i])
             m == Len(r)
  <1>0. audit[i] \in Seq(AuditRow)
    BY Types
  <1>1. n \in Nat /\ m \in Nat /\ m > 0
    BY <1>0 DEF RowStep, Extends
  <1>2. /\ Len(audit'[i]) = n + m
        /\ \A k \in 1 .. n : audit'[i][k] = audit[i][k]
        /\ \A k \in 1 .. m : audit'[i][n + k] = r[k]
        /\ \A j \in Intents : j # i => audit'[j] = audit[j]
    <2>1. Extends(i, r)
      BY DEF RowStep
    <2>2. Len(audit'[i]) = n + m
      BY <2>1, TrailStep
    <2>3. \A k \in 1 .. n : audit'[i][k] = audit[i][k]
      BY <2>1, TrailStep
    <2>4. \A k \in 1 .. m : audit'[i][n + k] = r[k]
      BY <2>1, TrailStep
    <2>5. \A j \in Intents : j # i => audit'[j] = audit[j]
      BY <2>1, TrailStep
    <2> QED
      BY <2>2, <2>3, <2>4, <2>5
  <1>3. \A k \in 2 .. m : r[k][1] = r[k - 1][2]
    BY DEF RowStep
  <1>4. intent[i] = IF audit[i] = <<>> THEN "none" ELSE audit[i][n][2]
    BY DEF AuditTellsStatus
  <1>5. audit[i] = <<>> <=> n = 0
    BY <1>0
  <1> SUFFICES ASSUME NEW x \in Breaks'
               PROVE  \/ x \in Breaks
                      \/ /\ x = <<i, n + 1>>
                         /\ ~(r[1][1] = intent[i] \/ intent[i] = "none")
    OBVIOUS
  <1>6. PICK j \in Intents : \E k \in 2 .. Len(audit'[j]) :
                               x = <<j, k>> /\ audit'[j][k][1] # audit'[j][k - 1][2]
    BY DEF Breaks
  <1>7. PICK k \in 2 .. Len(audit'[j]) : x = <<j, k>> /\ audit'[j][k][1] # audit'[j][k - 1][2]
    BY <1>6
  <1>8. CASE j # i
    <2>1. audit'[j] = audit[j]
      BY <1>2, <1>8
    <2>2. <<j, k>> \in Breaks
      BY <1>7, <2>1, IsBreak
    <2> QED
      BY <1>7, <2>2
  <1>9. CASE j = i /\ k <= n
    <2>1. k \in 2 .. n /\ k \in 1 .. n /\ k - 1 \in 1 .. n
      BY <1>1, <1>2, <1>7, <1>9
    <2>2. audit'[i][k] = audit[i][k] /\ audit'[i][k - 1] = audit[i][k - 1]
      BY <1>2, <2>1
    <2>3. <<i, k>> \in Breaks
      BY <1>7, <1>9, <2>1, <2>2, IsBreak
    <2> QED
      BY <1>7, <1>9, <2>3
  <1>10. CASE j = i /\ k > n + 1
    <2> DEFINE q == k - n
    <2>1. q \in 2 .. m /\ q \in 1 .. m /\ q - 1 \in 1 .. m /\ n + q = k /\ n + (q - 1) = k - 1
      BY <1>1, <1>2, <1>7, <1>10
    <2> HIDE DEF q
    <2>2. audit'[i][n + q] = r[q] /\ audit'[i][n + (q - 1)] = r[q - 1]
      BY <1>2, <2>1
    <2>3. r[q][1] = r[q - 1][2]
      BY <1>3, <2>1
    <2> QED
      BY <1>7, <1>10, <2>1, <2>2, <2>3
  <1>11. CASE j = i /\ k = n + 1
    <2>1. n > 0 /\ n \in 1 .. n /\ 1 \in 1 .. m /\ k - 1 = n
      BY <1>1, <1>7, <1>11
    <2>2. audit'[i][n + 1] = r[1] /\ audit'[i][n] = audit[i][n]
      BY <1>2, <2>1
    <2>3. intent[i] = audit[i][n][2]
      BY <1>4, <1>5, <2>1
    <2>4. intent[i] # "none"
      <3>1. audit[i][n] \in AuditRow
        BY <1>0, <2>1
      <3> QED
        BY <2>3, <3>1 DEF AuditRow, Status
    <2>5. r[1][1] # intent[i]
      BY <1>7, <1>11, <2>1, <2>2, <2>3
    <2>6. x = <<i, n + 1>>
      BY <1>7, <1>11
    <2> QED
      BY <2>4, <2>5, <2>6
  <1>12. k <= n \/ k > n + 1 \/ k = n + 1
    BY <1>1, <1>7
  <1> QED
    BY <1>8, <1>9, <1>10, <1>11, <1>12

INSTANCE FiniteSetTheorems

BreakInv == BreaksCaused /\ IsFiniteSet(Breaks)

LEMMA InitBreak == Init => BreakInv
  <1> SUFFICES ASSUME Init PROVE BreakInv
    OBVIOUS
  <1>1. \A i \in Intents : Len(audit[i]) = 0
    BY DEF Init
  <1>2. Breaks = {}
    BY <1>1 DEF Breaks
  <1> QED
    BY <1>2, FS_EmptySet, BoundsAssumption DEF Init, BreakInv, BreaksCaused, Used

LEMMA BoundMoves ==
    ASSUME NEW a \in Nat, NEW b \in Nat, NEW n \in Nat, NEW f \in Int, NEW g \in Int,
           b <= n - f, (a <= b /\ g <= f) \/ (a <= b + 1 /\ g = f - 1)
    PROVE  a <= n - g
  OBVIOUS

\* The count of breaks, whatever the step appends.
LEMMA BreaksCounted ==
    ASSUME TypeOK, TypeOK', BreakInv, NEW x, faults' \in {faults, faults - 1},
           Breaks' \subseteq Breaks \/ (Breaks' \subseteq Breaks \cup {x} /\ faults' = faults - 1)
    PROVE  BreakInv'
  <1>0. faults \in Int /\ MaxFaults \in Nat
    BY Types
  <1>1. faults \in Int /\ faults' \in Int /\ MaxFaults \in Nat /\ faults' <= faults
    BY <1>0
  <1> DEFINE b == Cardinality(Breaks)
             more == Cardinality(Breaks \cup {x})
             after == Cardinality(Breaks')
  <1>2. b \in Nat /\ b <= MaxFaults - faults
    BY FS_CardinalityType DEF BreakInv, BreaksCaused, Used
  <1>3. IsFiniteSet(Breaks \cup {x}) /\ more \in Nat /\ more <= b + 1
    <2>1. IsFiniteSet(Breaks \cup {x}) /\ (more = b \/ more = b + 1)
      BY FS_AddElement DEF BreakInv
    <2> QED
      BY <1>2, <2>1
  <1>4. CASE Breaks' \subseteq Breaks
    <2>1. IsFiniteSet(Breaks') /\ after \in Nat /\ after <= b
      BY <1>4, FS_Subset, FS_CardinalityType DEF BreakInv
    <2> HIDE DEF b, after
    <2>2. after <= MaxFaults - faults'
      BY <1>1, <1>2, <2>1, BoundMoves
    <2> QED
      BY <2>1, <2>2 DEF BreakInv, BreaksCaused, Used, after
  <1>5. CASE Breaks' \subseteq Breaks \cup {x} /\ faults' = faults - 1
    <2>1. IsFiniteSet(Breaks') /\ after \in Nat /\ after <= more
      BY <1>3, <1>5, FS_Subset, FS_CardinalityType
    <2> HIDE DEF b, after, more
    <2>2. after <= MaxFaults - faults'
      <3>1. after <= b + 1
        BY <1>2, <1>3, <2>1
      <3> QED
        BY <1>1, <1>2, <1>5, <2>1, <3>1, BoundMoves
    <2> QED
      BY <2>1, <2>2 DEF BreakInv, BreaksCaused, Used, after
  <1> QED
    BY <1>4, <1>5

LEMMA NextBreak ==
    TypeOK /\ TypeOK' /\ IInv /\ Admitted /\ LockInv /\ BreakInv /\ [Next]_vars => BreakInv'
  <1> SUFFICES ASSUME TypeOK, TypeOK', IInv, Admitted, LockInv, BreakInv, [Next]_vars
               PROVE  BreakInv'
    OBVIOUS
  <1>1. AuditTellsStatus /\ faults \in Int
    BY Types DEF IInv
  <1>2. ASSUME audit' = audit, faults' \in {faults, faults - 1} PROVE BreakInv'
    <2>1. Breaks' = Breaks
      BY <1>2 DEF Breaks
    <2> QED
      BY <1>2, <2>1, BreaksCounted
  <1>3. ASSUME NEW i \in Intents, NEW r \in Seq(AuditRow), RowStep(i, r), faults' = faults,
               r[1][1] = intent[i] \/ intent[i] = "none"
        PROVE  BreakInv'
    BY <1>1, <1>3, RowStepBreaks, BreaksCounted
  <1>4. ASSUME NEW i \in Intents, NEW r \in Seq(AuditRow), Stores(i, r) PROVE BreakInv'
    <2>1. RowStep(i, r) /\ faults' = faults /\ intent[i] = "none"
      BY <1>4 DEF Stores, LockInv
    <2> QED
      BY <1>3, <2>1
  <1>5. ASSUME NEW i \in Intents, NEW r \in Seq(AuditRow), Commits(i, r) PROVE BreakInv'
    <2>1. RowStep(i, r)
      BY <1>5 DEF Commits
    <2>2. CASE r[1][1] = intent[i] /\ faults' = faults
      BY <1>3, <2>1, <2>2
    <2>3. CASE faults' = faults - 1
      <3>1. Breaks' \subseteq Breaks \cup {<<i, Len(audit[i]) + 1>>}
        BY <1>1, <2>1, RowStepBreaks
      <3>2. PICK x : x = <<i, Len(audit[i]) + 1>>
        BY Zenon
      <3>3. Breaks' \subseteq Breaks \cup {x}
        BY <3>1, <3>2
      <3> QED
        BY <2>3, <3>3, BreaksCounted
    <2> QED
      BY <1>5, <2>2, <2>3 DEF Commits
  <1>6. ASSUME NEW w \in Workers, NEW i \in Intents, NEW r \in Seq(AuditRow), Records(w, i, r)
        PROVE  BreakInv'
    <2>1. RowStep(i, r) /\ faults' = faults /\ claim[w] = i /\ r[1][1] = "SFTP_QUEUED"
      BY <1>6 DEF Records
    <2>2. intent[i] = "SFTP_QUEUED"
      BY <2>1, NoIntentAssumption DEF LockInv
    <2> QED
      BY <1>3, <2>1, <2>2
  <1>7. CASE Bystander
    BY <1>2, <1>7 DEF Bystander
  <1>8. ASSUME NEW w \in Workers, NEW i \in Intents, Locks(w, i) \/ Sends(w, i) \/ GivesUp(w, i)
        PROVE  BreakInv'
    BY <1>2, <1>8 DEF Locks, Sends, GivesUp
  <1> QED
    BY <1>4, <1>5, <1>6, <1>7, <1>8, StepMoves DEF Moves

\* The rows of an intent form one chain, each break in it being owed to a
\* request of its own that was overtaken between its read and its commit, for
\* any number of intents, requests and workers: the endpoints check the status
\* they read, and the worker writes under the row lock.
THEOREM BreaksAlwaysCaused == Spec => []BreaksCaused
  <1>1. Spec => []BreakInv
    BY InitBreak, NextBreak, Inductive, LockInductive, AdmittedInductive, TypeCorrect, PTL DEF Spec
  <1> QED
    BY <1>1, PTL DEF BreakInv
==============================================================================
