--------------------------- MODULE EvidenceProofs ---------------------------
(***************************************************************************)
(* Proofs about EvidenceAnchor for all sets of manifests and jobs, any     *)
(* number of replay workers, every batch size and every number of faults.  *)
(***************************************************************************)
EXTENDS EvidenceAnchor, TLAPS

\* Most leaves are first-order: Zenon is asked before SMT.
USE Zenon, SMT

(***************************************************************************)
(* Frames: what a step of actor a leaves alone.                            *)
(***************************************************************************)
LEMMA RolesDiffer ==
    ASSUME NEW a \in Actors
    PROVE  /\ a \in Jobs => a \notin Replayers
           /\ a \notin Jobs => a \in Replayers
  BY ActorsAssumption DEF Actors

LEMMA ManifestAtType ==
    ASSUME TypeOK, NEW a \in Actors, a \in Jobs \/ pc[a] # "idle"
    PROVE  ManifestAt(a) \in Manifests
  <1>1. CASE a \in Jobs
    BY <1>1, ActorsAssumption DEF ManifestAt
  <1>2. CASE a \notin Jobs
    <2>1. a \in Replayers /\ todo[a] \in Seq(1 .. Len(rows)) /\ todo[a] # <<>>
      BY <1>2, RolesDiffer DEF TypeOK
    <2>2. todo[a][1] \in 1 .. Len(rows)
      BY <2>1
    <2>3. rows[todo[a][1]] \in Row
      BY <2>2 DEF TypeOK
    <2> QED
      BY <1>2, <2>3 DEF ManifestAt, Row
  <1> QED
    BY <1>1, <1>2

\* The script keeps the list's type and draws batches of exactly BatchSize.
LEMMA ScriptType ==
    ASSUME NEW S, list \in Seq(S), NEW m \in S
    PROVE  /\ Script(m).rest \in Seq(S)
           /\ Script(m).batch \in Seq(S)
           /\ Script(m).full => Len(Script(m).batch) = BatchSize
           /\ ~Script(m).full => Script(m).batch = <<>>
  <1> DEFINE pushed == Append(list, m)
  <1>1. pushed \in Seq(S) /\ Len(pushed) \in Nat
    OBVIOUS
  <1>2. BatchSize \in Nat /\ BatchSize > 0
    BY BoundsAssumption
  <1>3. Script(m).full <=> Len(pushed) >= BatchSize
    BY DEF Script
  <1>4. /\ Script(m).batch = IF Len(pushed) >= BatchSize THEN SubSeq(pushed, 1, BatchSize) ELSE <<>>
        /\ Script(m).rest = IF Len(pushed) >= BatchSize
                            THEN SubSeq(pushed, BatchSize + 1, Len(pushed)) ELSE pushed
    BY DEF Script
  <1> HIDE DEF pushed
  <1>5. CASE Len(pushed) >= BatchSize
    <2>1. SubSeq(pushed, 1, BatchSize) \in Seq(S) /\ Len(SubSeq(pushed, 1, BatchSize)) = BatchSize
      BY <1>1, <1>2, <1>5
    <2>2. SubSeq(pushed, BatchSize + 1, Len(pushed)) \in Seq(S)
      BY <1>1, <1>2, <1>5
    <2> QED
      BY <1>3, <1>4, <1>5, <2>1, <2>2
  <1>6. CASE ~(Len(pushed) >= BatchSize)
    <2>1. Script(m).batch = <<>> /\ Script(m).rest = pushed
      BY <1>4, <1>6
    <2>2. <<>> \in Seq(S)
      OBVIOUS
    <2> QED
      BY <1>1, <1>3, <1>6, <2>1, <2>2
  <1> QED
    BY <1>5, <1>6

(***************************************************************************)
(* Type correctness.                                                       *)
(***************************************************************************)
LEMMA InitTypeOK == Init => TypeOK
  BY BoundsAssumption, KindsAssumption, ActorsAssumption
  DEF Init, TypeOK, Actors, JobPC, ReplayPC

\* pc moves to a step of the actor's own kind.
LEMMA GotoType ==
    ASSUME TypeOK, NEW a \in Actors, NEW step, Goto(a, step),
           a \in Jobs => step \in JobPC, a \notin Jobs => step \in ReplayPC
    PROVE  /\ pc' \in [Actors -> JobPC \cup ReplayPC]
           /\ \A j \in Jobs : pc'[j] \in JobPC
           /\ \A w \in Replayers : pc'[w] \in ReplayPC
           /\ \A b \in Actors : b # a => pc'[b] = pc[b]
           /\ pc'[a] = step
  BY ActorsAssumption DEF Goto, TypeOK, Actors

\* A step on the path from the evidence row to the anchor leaves the rows of
\* failed_evidence alone; a replay worker keeps or drops its rows.
LEMMA RunScriptType ==
    ASSUME TypeOK, NEW a \in Actors, ManifestAt(a) \in Manifests, RunScript(a)
    PROVE  /\ list' \in Seq(Manifests)
           /\ appends' \in [Manifests -> Nat]
           /\ cuts' \in Nat
  <1>1. list' \in Seq(Manifests)
    <2>1. list \in Seq(Manifests)
      BY DEF TypeOK
    <2> QED
      BY <2>1, ScriptType DEF RunScript
  <1>2. appends' \in [Manifests -> Nat] /\ cuts' \in Nat
    BY DEF RunScript, TypeOK
  <1> QED
    BY <1>1, <1>2

\* An exception nobody catches.
LEMMA UncaughtType ==
    ASSUME TypeOK, NEW a \in Actors, Uncaught(a)
    PROVE  /\ pc' \in [Actors -> JobPC \cup ReplayPC]
           /\ \A j \in Jobs : pc'[j] \in JobPC
           /\ \A w \in Replayers : pc'[w] \in ReplayPC
           /\ todo' \in [Replayers -> Seq(1 .. Len(rows))]
           /\ \A w \in Replayers : pc'[w] # "idle" => todo'[w] # <<>>
           /\ \A b \in Actors : b # a => pc'[b] = pc[b]
           /\ pc'[a] \in {"failed", "idle"}
           /\ \A w \in Replayers : w # a => todo'[w] = todo[w]
  <1> DEFINE step == IF a \in Jobs THEN "failed" ELSE "idle"
  <1>1. Goto(a, step)
    BY DEF Uncaught
  <1>2. (a \in Jobs => step \in JobPC) /\ (a \notin Jobs => step \in ReplayPC)
    BY DEF JobPC, ReplayPC
  <1>3. step \in {"failed", "idle"} /\ (a \notin Jobs => step = "idle")
    OBVIOUS
  <1> HIDE DEF step
  <1>4. /\ pc' \in [Actors -> JobPC \cup ReplayPC]
        /\ \A j \in Jobs : pc'[j] \in JobPC
        /\ \A w \in Replayers : pc'[w] \in ReplayPC
        /\ \A b \in Actors : b # a => pc'[b] = pc[b]
        /\ pc'[a] = step
    BY <1>1, <1>2, GotoType
  <1>5. Replayers \subseteq Actors /\ (a \in Jobs => a \notin Replayers)
    BY RolesDiffer DEF Actors
  <1>6. CASE a \in Jobs
    <2>1. todo' = todo
      BY <1>6 DEF Uncaught
    <2> QED
      BY <1>3, <1>4, <1>5, <1>6, <2>1 DEF TypeOK
  <1>7. CASE a \notin Jobs
    <2>1. todo' = [todo EXCEPT ![a] = <<>>]
      BY <1>7 DEF Uncaught
    <2>2. todo' \in [Replayers -> Seq(1 .. Len(rows))]
      <3>1. <<>> \in Seq(1 .. Len(rows))
        OBVIOUS
      <3> QED
        BY <2>1, <3>1 DEF TypeOK
    <2>3. \A w \in Replayers : w # a => todo'[w] = todo[w]
      BY <2>1 DEF TypeOK
    <2> QED
      BY <1>3, <1>4, <1>5, <1>7, <2>2, <2>3 DEF TypeOK
  <1> QED
    BY <1>6, <1>7

\* The part of TypeOK about control.
ControlOK ==
    /\ pc \in [Actors -> JobPC \cup ReplayPC]
    /\ \A j \in Jobs : pc[j] \in JobPC
    /\ \A w \in Replayers : pc[w] \in ReplayPC
    /\ todo \in [Replayers -> Seq(1 .. Len(rows))]
    /\ \A w \in Replayers : pc[w] # "idle" => todo[w] # <<>>

\* A step of a job, or of a replay worker inside a row.
LEMMA MoveType ==
    ASSUME TypeOK, NEW a \in Actors, NEW step, Goto(a, step),
           a \in Jobs => step \in JobPC,
           a \notin Jobs => step \in ReplayPC /\ pc[a] # "idle",
           UNCHANGED todo, rows' = rows \/ Len(rows') = Len(rows) + 1, Len(rows') \in Nat
    PROVE  ControlOK'
  <1>1. /\ pc' \in [Actors -> JobPC \cup ReplayPC]
        /\ \A j \in Jobs : pc'[j] \in JobPC
        /\ \A w \in Replayers : pc'[w] \in ReplayPC
        /\ \A b \in Actors : b # a => pc'[b] = pc[b]
        /\ pc'[a] = step
    BY GotoType
  <1>2. Len(rows) \in Nat /\ 1 .. Len(rows) \subseteq 1 .. Len(rows')
    BY DEF TypeOK
  <1>3. \A q \in Seq(1 .. Len(rows)) : q \in Seq(1 .. Len(rows'))
    BY <1>2
  <1>4. todo' \in [Replayers -> Seq(1 .. Len(rows'))]
    BY <1>3 DEF TypeOK
  <1>5. \A w \in Replayers : pc'[w] # "idle" => todo'[w] # <<>>
    <2> SUFFICES ASSUME NEW w \in Replayers, pc'[w] # "idle" PROVE todo[w] # <<>>
      OBVIOUS
    <2>1. w \in Actors /\ w \notin Jobs
      BY ActorsAssumption DEF Actors
    <2>2. pc[w] # "idle"
      BY <1>1, <2>1
    <2> QED
      BY <2>2 DEF TypeOK
  <1> QED
    BY <1>1, <1>4, <1>5 DEF ControlOK

LEMMA TailFacts ==
    ASSUME NEW S, NEW q \in Seq(S), q # <<>>
    PROVE  Tail(q) \in Seq(S) /\ (Len(q) > 1 => Tail(q) # <<>>)
  <1>1. Tail(q) \in Seq(S) /\ Len(Tail(q)) = Len(q) - 1
    OBVIOUS
  <1>2. PICK t \in Seq(S) : t = Tail(q)
    BY <1>1
  <1>3. Len(t) = Len(q) - 1
    BY <1>1, <1>2
  <1>4. Len(q) > 1 => t # <<>>
    BY <1>3
  <1> QED
    BY <1>2, <1>4

\* A replay worker goes on to its next row or becomes idle.
LEMMA NextRowType ==
    ASSUME TypeOK, NEW w \in Replayers, pc[w] # "idle", NextRow(w), Len(rows') = Len(rows)
    PROVE  ControlOK'
  <1> DEFINE step == IF Len(todo[w]) > 1 THEN "insert" ELSE "idle"
  <1>1. w \in Actors /\ w \notin Jobs /\ Goto(w, step) /\ step \in ReplayPC
    BY ActorsAssumption DEF Actors, NextRow, ReplayPC
  <1>2. step = "insert" => Len(todo[w]) > 1
    OBVIOUS
  <1>3. step # "insert" => step = "idle"
    OBVIOUS
  <1> HIDE DEF step
  <1>4. /\ pc' \in [Actors -> JobPC \cup ReplayPC]
        /\ \A j \in Jobs : pc'[j] \in JobPC
        /\ \A v \in Replayers : pc'[v] \in ReplayPC
        /\ \A b \in Actors : b # w => pc'[b] = pc[b]
        /\ pc'[w] = step
    BY <1>1, GotoType
  <1>5. todo[w] \in Seq(1 .. Len(rows)) /\ todo[w] # <<>>
    BY DEF TypeOK
  <1>6. Tail(todo[w]) \in Seq(1 .. Len(rows)) /\ (Len(todo[w]) > 1 => Tail(todo[w]) # <<>>)
    BY <1>5, TailFacts
  <1>7. todo' = [todo EXCEPT ![w] = Tail(todo[w])]
    BY DEF NextRow
  <1>8. todo' \in [Replayers -> Seq(1 .. Len(rows'))]
    BY <1>6, <1>7 DEF TypeOK
  <1>9. \A v \in Replayers : pc'[v] # "idle" => todo'[v] # <<>>
    <2> SUFFICES ASSUME NEW v \in Replayers, pc'[v] # "idle" PROVE todo'[v] # <<>>
      OBVIOUS
    <2>1. CASE v = w
      BY <1>2, <1>3, <1>4, <1>6, <1>7, <2>1 DEF TypeOK
    <2>2. CASE v # w
      BY <1>4, <1>7, <2>2 DEF TypeOK, Actors
    <2> QED
      BY <2>1, <2>2
  <1> QED
    BY <1>4, <1>8, <1>9 DEF ControlOK

\* One worker dies: its rows and its place are gone.
LEMMA IdleType ==
    ASSUME TypeOK, NEW w \in Replayers, Goto(w, "idle"), Len(rows') = Len(rows),
           todo' = [todo EXCEPT ![w] = <<>>]
    PROVE  ControlOK'
  <1>1. w \in Actors /\ w \notin Jobs /\ "idle" \in ReplayPC
    BY ActorsAssumption DEF Actors, ReplayPC
  <1>2. /\ pc' \in [Actors -> JobPC \cup ReplayPC]
        /\ \A j \in Jobs : pc'[j] \in JobPC
        /\ \A v \in Replayers : pc'[v] \in ReplayPC
        /\ \A b \in Actors : b # w => pc'[b] = pc[b]
        /\ pc'[w] = "idle"
    BY <1>1, GotoType
  <1>3. <<>> \in Seq(1 .. Len(rows))
    OBVIOUS
  <1>4. todo' \in [Replayers -> Seq(1 .. Len(rows'))]
    BY <1>3 DEF TypeOK
  <1>5. \A v \in Replayers : pc'[v] # "idle" => todo'[v] # <<>>
    BY <1>2 DEF TypeOK, Actors
  <1> QED
    BY <1>2, <1>4, <1>5 DEF ControlOK

\* The part of TypeOK about data.
DataOK ==
    /\ kind \in [Manifests -> Kinds]
    /\ tries \in [Jobs -> 0 .. MaxTries]
    /\ cut \in [Actors -> Seq(Manifests)]
    /\ num \in [Actors -> Nat]
    /\ evidence \in [Manifests -> Nat]
    /\ list \in Seq(Manifests)
    /\ seq \in Nat
    /\ appends \in [Manifests -> Nat]
    /\ cuts \in Nat
    /\ anchors \subseteq [number : Nat, leaves : Seq(Manifests)]
    /\ rows \in Seq(Row)
    /\ dlq \subseteq Manifests
    /\ faults \in 0 .. MaxFaults

LEMMA TypeParts == TypeOK <=> ControlOK /\ DataOK
  BY DEF TypeOK, ControlOK, DataOK

LEMMA FaultType ==
    ASSUME TypeOK, Fault
    PROVE  faults' \in 0 .. MaxFaults
  BY BoundsAssumption DEF TypeOK, Fault

LEMMA ReleaseType ==
    ASSUME TypeOK, NEW a \in Actors, Release(a)
    PROVE  cut' \in [Actors -> Seq(Manifests)] /\ num' \in [Actors -> Nat]
  <1>1. <<>> \in Seq(Manifests)
    OBVIOUS
  <1> QED
    BY <1>1 DEF Release, TypeOK

LEMMA AnchorType ==
    ASSUME TypeOK, NEW a \in Actors
    PROVE  Anchor(a) \in [number : Nat, leaves : Seq(Manifests)]
  BY DEF TypeOK, Anchor

\* A parked row, and a row marked by the replay worker.
LEMMA RowsType ==
    ASSUME TypeOK
    PROVE  /\ \A m \in Manifests : /\ Append(rows, NewRow(m)) \in Seq(Row)
                                   /\ Len(Append(rows, NewRow(m))) = Len(rows) + 1
           /\ \A k \in 1 .. Len(rows) :
                 /\ [rows EXCEPT ![k].status = "replayed"] \in Seq(Row)
                 /\ Len([rows EXCEPT ![k].status = "replayed"]) = Len(rows)
                 /\ [rows EXCEPT ![k] = Failed(@)] \in Seq(Row)
                 /\ Len([rows EXCEPT ![k] = Failed(@)]) = Len(rows)
  <1>1. rows \in Seq(Row)
    BY DEF TypeOK
  <1>2. ASSUME NEW m \in Manifests
        PROVE  /\ Append(rows, NewRow(m)) \in Seq(Row)
               /\ Len(Append(rows, NewRow(m))) = Len(rows) + 1
    <2>1. NewRow(m) \in Row
      BY DEF NewRow, Row
    <2> QED
      BY <1>1, <2>1
  <1>3. ASSUME NEW k \in 1 .. Len(rows)
        PROVE  /\ [rows EXCEPT ![k].status = "replayed"] \in Seq(Row)
               /\ Len([rows EXCEPT ![k].status = "replayed"]) = Len(rows)
    <2>1. rows[k] \in Row
      BY <1>1
    <2>2. [rows[k] EXCEPT !.status = "replayed"] \in Row
      BY <2>1 DEF Row
    <2> QED
      BY <1>1, <2>2
  <1>4. ASSUME NEW k \in 1 .. Len(rows)
        PROVE  /\ [rows EXCEPT ![k] = Failed(@)] \in Seq(Row)
               /\ Len([rows EXCEPT ![k] = Failed(@)]) = Len(rows)
    <2>1. rows[k] \in Row
      BY <1>1
    <2>2. Failed(rows[k]) \in Row
      <3> DEFINE s == IF rows[k].attempts + 1 >= AbandonAfter THEN "abandoned" ELSE rows[k].status
      <3>1. s \in {"pending", "replayed", "abandoned"}
        BY <2>1 DEF Row
      <3>2. rows[k].attempts + 1 \in Nat /\ rows[k].manifest \in Manifests
        BY <2>1 DEF Row
      <3>3. Failed(rows[k]) = [rows[k] EXCEPT !.attempts = rows[k].attempts + 1, !.status = s]
        BY DEF Failed
      <3> HIDE DEF s
      <3>4. Failed(rows[k]) = [manifest |-> rows[k].manifest, status |-> s,
                               attempts |-> rows[k].attempts + 1]
        BY <2>1, <3>3 DEF Row
      <3> QED
        BY <3>1, <3>2, <3>4 DEF Row
    <2> QED
      BY <1>1, <2>2
  <1> QED
    BY <1>2, <1>3, <1>4

\* A poll that finds a row fetches one; see FetchType.
FetchesRows == Pending # {} => FetchCount \in Nat /\ FetchCount > 0

LEMMA NextTypeOK == TypeOK /\ FetchesRows /\ [Next]_vars => TypeOK'
  <1> SUFFICES ASSUME TypeOK, FetchesRows, [Next]_vars PROVE ControlOK' /\ DataOK'
    BY DEF TypeOK, ControlOK, DataOK
  <1> USE DEF batchVars, storeVars
  <1>1. Jobs \subseteq Actors /\ Replayers \subseteq Actors /\ Jobs \cap Replayers = {}
    BY ActorsAssumption DEF Actors
  <1>2. \A j \in Jobs : ManifestOf[j] \in Manifests
    BY ActorsAssumption
  <1>3. \A w \in Replayers : pc[w] # "idle" => todo[w][1] \in 1 .. Len(rows)
    BY DEF TypeOK
  <1>4. \A a \in Actors : a \in Jobs \/ pc[a] # "idle" => ManifestAt(a) \in Manifests
    BY ManifestAtType
  <1>5. Len(rows) \in Nat /\ DataOK
    BY TypeParts DEF TypeOK
  \* A step of job j that stays within the table of rows.
  <1>6. ASSUME NEW j \in Jobs, NEW step \in JobPC, Goto(j, step), UNCHANGED todo,
               rows' = rows \/ rows' = Append(rows, NewRow(ManifestOf[j]))
        PROVE  ControlOK' /\ rows' \in Seq(Row)
    <2>1. rows' \in Seq(Row) /\ (rows' = rows \/ Len(rows') = Len(rows) + 1) /\ Len(rows') \in Nat
      <3>1. CASE rows' = rows
        BY <1>5, <3>1 DEF DataOK
      <3>2. CASE rows' = Append(rows, NewRow(ManifestOf[j]))
        BY <1>2, <1>5, <3>2, RowsType
      <3> QED
        BY <1>6, <3>1, <3>2
    <2> QED
      BY <1>1, <1>6, <2>1, MoveType
  \* A step of actor a down the path.
  <1>7. ASSUME NEW a \in Actors, NEW step, Goto(a, step),
               a \in Jobs => step \in JobPC, a \notin Jobs => step \in ReplayPC,
               a \in Jobs \/ pc[a] # "idle", UNCHANGED <<todo, rows>>
        PROVE  ControlOK'
    BY <1>5, <1>7, MoveType
  <1>8. CASE UNCHANGED vars
    BY <1>8, TypeParts DEF vars, TypeOK, ControlOK, DataOK
  <1>9. ASSUME NEW j \in Jobs, Enqueue(j) PROVE ControlOK' /\ DataOK'
    <2>1. ControlOK'
      BY <1>6, <1>9 DEF Enqueue, JobPC
    <2>2. faults' \in 0 .. MaxFaults
      BY <1>9, FaultType DEF Enqueue, TypeOK
    <2> QED
      BY <1>5, <1>9, <2>1, <2>2 DEF Enqueue, DataOK
  <1>10. ASSUME NEW j \in Jobs, Start(j) PROVE ControlOK' /\ DataOK'
    <2>1. ControlOK'
      BY <1>6, <1>10 DEF Start, JobPC
    <2>2. tries' \in [Jobs -> 0 .. MaxTries]
      <3>1. MaxTries \in Nat
        BY BoundsAssumption
      <3>2. tries \in [Jobs -> 0 .. MaxTries] /\ tries[j] \in 0 .. MaxTries
        BY DEF TypeOK
      <3>3. CASE tries[j] = MaxTries
        BY <1>10, <3>2, <3>3 DEF Start
      <3>4. CASE tries[j] # MaxTries
        <4>1. tries' = [tries EXCEPT ![j] = tries[j] + 1]
          BY <1>10, <3>4 DEF Start
        <4>2. tries[j] + 1 \in 0 .. MaxTries
          BY <3>1, <3>2, <3>4
        <4> QED
          BY <3>2, <4>1, <4>2
      <3> QED
        BY <3>3, <3>4
    <2> QED
      BY <1>5, <1>10, <2>1, <2>2 DEF Start, DataOK
  <1>11. ASSUME NEW j \in Jobs, JobDies(j) PROVE ControlOK' /\ DataOK'
    <2>1. ControlOK'
      BY <1>6, <1>11 DEF JobDies, JobPC
    <2>2. faults' \in 0 .. MaxFaults
      BY <1>11, FaultType DEF JobDies
    <2>3. cut' \in [Actors -> Seq(Manifests)] /\ num' \in [Actors -> Nat]
      BY <1>1, <1>11, ReleaseType DEF JobDies, Release
    <2> QED
      BY <1>5, <1>11, <2>1, <2>2, <2>3 DEF JobDies, DataOK
  <1>12. ASSUME NEW a \in Actors, InsertEvidence(a) PROVE ControlOK' /\ DataOK'
    <2>1. ControlOK'
      BY <1>7, <1>12 DEF InsertEvidence, JobPC, ReplayPC
    <2>2. evidence' \in [Manifests -> Nat]
      BY <1>4, <1>12 DEF InsertEvidence, TypeOK
    <2> QED
      BY <1>5, <1>12, <2>1, <2>2 DEF InsertEvidence, DataOK
  <1>13. ASSUME NEW a \in Actors, InsertAnswerLost(a) PROVE ControlOK' /\ DataOK'
    <2>1. ControlOK'
      BY <1>13, TypeParts DEF InsertAnswerLost, ControlOK
    <2>2. evidence' \in [Manifests -> Nat]
      BY <1>4, <1>13 DEF InsertAnswerLost, TypeOK
    <2>3. faults' \in 0 .. MaxFaults
      BY <1>13, FaultType DEF InsertAnswerLost
    <2> QED
      BY <1>5, <1>13, <2>1, <2>2, <2>3 DEF InsertAnswerLost, DataOK
  <1>14. ASSUME NEW a \in Actors, InsertExhausted(a) PROVE ControlOK' /\ DataOK'
    <2>1. ControlOK'
      BY <1>7, <1>14 DEF InsertExhausted, JobPC, ReplayPC
    <2>2. evidence' \in [Manifests -> Nat]
      BY <1>4, <1>14 DEF InsertExhausted, TypeOK
    <2>3. faults' \in 0 .. MaxFaults
      BY <1>14, FaultType DEF InsertExhausted, TypeOK
    <2> QED
      BY <1>5, <1>14, <2>1, <2>2, <2>3 DEF InsertExhausted, DataOK
  <1>15. ASSUME NEW a \in Actors, AppendLeaf(a) PROVE ControlOK' /\ DataOK'
    <2>1. ManifestAt(a) \in Manifests /\ pc[a] # "idle" /\ UNCHANGED <<todo, rows>>
      BY <1>4, <1>15 DEF AppendLeaf
    <2>2. PICK step : /\ Goto(a, step)
                      /\ a \in Jobs => step \in JobPC
                      /\ a \notin Jobs => step \in ReplayPC
      BY <1>15 DEF AppendLeaf, Finish, JobPC, ReplayPC
    <2>3. ControlOK'
      BY <1>7, <2>1, <2>2
    <2>4. list' \in Seq(Manifests) /\ appends' \in [Manifests -> Nat] /\ cuts' \in Nat
      BY <1>15, <2>1, RunScriptType DEF AppendLeaf
    <2>5. cut' \in [Actors -> Seq(Manifests)]
      <3>1. Script(ManifestAt(a)).batch \in Seq(Manifests)
        BY <2>1, <1>5, ScriptType DEF DataOK
      <3> QED
        BY <1>15, <3>1 DEF AppendLeaf, TypeOK
    <2> QED
      BY <1>5, <1>15, <2>3, <2>4, <2>5 DEF AppendLeaf, DataOK
  <1>16. ASSUME NEW a \in Actors, AppendError(a) PROVE ControlOK' /\ DataOK'
    <2>1. ManifestAt(a) \in Manifests /\ rows' = rows
      BY <1>4, <1>16 DEF AppendError
    <2>2. ControlOK'
      BY <1>16, <2>1, UncaughtType DEF AppendError, ControlOK
    <2>3. list' \in Seq(Manifests) /\ appends' \in [Manifests -> Nat] /\ cuts' \in Nat
      <3>1. CASE RunScript(a)
        BY <2>1, <3>1, RunScriptType
      <3>2. CASE UNCHANGED <<list, appends, cuts>>
        BY <1>5, <3>2 DEF DataOK
      <3> QED
        BY <1>16, <3>1, <3>2 DEF AppendError
    <2>4. faults' \in 0 .. MaxFaults
      BY <1>16, FaultType DEF AppendError
    <2> QED
      BY <1>5, <1>16, <2>2, <2>3, <2>4 DEF AppendError, DataOK
  <1>17. ASSUME NEW a \in Actors, NumberBatch(a) PROVE ControlOK' /\ DataOK'
    <2>1. ControlOK'
      BY <1>7, <1>17 DEF NumberBatch, JobPC, ReplayPC
    <2>2. seq' \in Nat /\ num' \in [Actors -> Nat]
      BY <1>17 DEF NumberBatch, TypeOK
    <2> QED
      BY <1>5, <1>17, <2>1, <2>2 DEF NumberBatch, DataOK
  <1>18. ASSUME NEW a \in Actors, NumberError(a) PROVE ControlOK' /\ DataOK'
    <2>1. rows' = rows
      BY <1>18 DEF NumberError
    <2>2. ControlOK'
      BY <1>18, <2>1, UncaughtType DEF NumberError, ControlOK
    <2>3. seq' \in Nat
      BY <1>18 DEF NumberError, TypeOK
    <2>4. cut' \in [Actors -> Seq(Manifests)]
      <3>1. <<>> \in Seq(Manifests)
        OBVIOUS
      <3> QED
        BY <1>18, <3>1 DEF NumberError, TypeOK
    <2>5. faults' \in 0 .. MaxFaults
      BY <1>18, FaultType DEF NumberError
    <2> QED
      BY <1>5, <1>18, <2>2, <2>3, <2>4, <2>5 DEF NumberError, DataOK
  <1>19. ASSUME NEW a \in Actors, InsertAnchor(a) PROVE ControlOK' /\ DataOK'
    <2>1. PICK step : /\ Goto(a, step)
                      /\ a \in Jobs => step \in JobPC
                      /\ a \notin Jobs => step \in ReplayPC
      BY <1>19 DEF InsertAnchor, Finish, JobPC, ReplayPC
    <2>2. ControlOK'
      BY <1>7, <1>19, <2>1 DEF InsertAnchor
    <2>3. cut' \in [Actors -> Seq(Manifests)] /\ num' \in [Actors -> Nat]
      BY <1>19, ReleaseType DEF InsertAnchor
    <2>4. anchors' \subseteq [number : Nat, leaves : Seq(Manifests)]
      BY <1>5, <1>19, AnchorType DEF InsertAnchor, DataOK
    <2> QED
      BY <1>5, <1>19, <2>2, <2>3, <2>4 DEF InsertAnchor, DataOK
  <1>20. ASSUME NEW a \in Actors, AnchorExhausted(a) PROVE ControlOK' /\ DataOK'
    <2>1. ControlOK'
      BY <1>7, <1>20 DEF AnchorExhausted, JobPC, ReplayPC
    <2>2. cut' \in [Actors -> Seq(Manifests)] /\ num' \in [Actors -> Nat]
      BY <1>20, ReleaseType DEF AnchorExhausted
    <2>3. anchors' \subseteq [number : Nat, leaves : Seq(Manifests)]
      BY <1>5, <1>20, AnchorType DEF AnchorExhausted, DataOK
    <2>4. faults' \in 0 .. MaxFaults
      BY <1>20, FaultType DEF AnchorExhausted
    <2> QED
      BY <1>5, <1>20, <2>1, <2>2, <2>3, <2>4 DEF AnchorExhausted, DataOK
  <1>21. ASSUME NEW j \in Jobs, Park(j) PROVE ControlOK' /\ DataOK'
    <2>1. ControlOK' /\ rows' \in Seq(Row)
      BY <1>6, <1>21 DEF Park, JobPC
    <2> QED
      BY <1>5, <1>21, <2>1 DEF Park, DataOK
  <1>22. ASSUME NEW j \in Jobs, ParkFallsBack(j) PROVE ControlOK' /\ DataOK'
    <2>1. ControlOK' /\ rows' \in Seq(Row)
      BY <1>6, <1>22 DEF ParkFallsBack, JobPC
    <2>2. faults' \in 0 .. MaxFaults
      BY <1>22, FaultType DEF ParkFallsBack
    <2> QED
      BY <1>5, <1>22, <2>1, <2>2 DEF ParkFallsBack, DataOK
  <1>23. ASSUME NEW j \in Jobs, DeadLetter(j) PROVE ControlOK' /\ DataOK'
    <2>1. ControlOK'
      BY <1>6, <1>23 DEF DeadLetter, JobPC
    <2> QED
      BY <1>2, <1>5, <1>23, <2>1 DEF DeadLetter, DataOK
  <1>24. ASSUME NEW j \in Jobs, DeadLetterError(j) PROVE ControlOK' /\ DataOK'
    <2>1. ControlOK'
      BY <1>6, <1>24 DEF DeadLetterError, JobPC
    <2>2. faults' \in 0 .. MaxFaults
      BY <1>24, FaultType DEF DeadLetterError
    <2> QED
      BY <1>2, <1>5, <1>24, <2>1, <2>2 DEF DeadLetterError, DataOK
  <1>25. ASSUME NEW w \in Replayers, FetchPending(w) PROVE ControlOK' /\ DataOK'
    <2>1. PICK ids \in [1 .. FetchCount -> Pending] : todo' = [todo EXCEPT ![w] = ids]
      BY <1>25 DEF FetchPending
    <2>2. FetchCount \in Nat /\ FetchCount > 0
      BY <1>25 DEF FetchPending, FetchesRows
    <2>3. Pending \subseteq 1 .. Len(rows)
      BY DEF Pending
    <2>4. ids \in Seq(1 .. Len(rows)) /\ Len(ids) = FetchCount
      <3>1. PICK n \in Nat : n = FetchCount
        BY <2>2
      <3>2. ids \in [1 .. n -> 1 .. Len(rows)]
        BY <2>3, <3>1
      <3>3. ids \in Seq(1 .. Len(rows)) /\ Len(ids) = n
        BY <3>2
      <3> QED
        BY <3>1, <3>3
    <2>5. ids # <<>>
      BY <2>2, <2>4
    <2>6. Goto(w, "insert") /\ w \in Actors /\ w \notin Jobs /\ rows' = rows
      BY <1>1, <1>25 DEF FetchPending
    <2>7. /\ pc' \in [Actors -> JobPC \cup ReplayPC]
          /\ \A j \in Jobs : pc'[j] \in JobPC
          /\ \A v \in Replayers : pc'[v] \in ReplayPC
          /\ \A b \in Actors : b # w => pc'[b] = pc[b]
      <3>1. "insert" \in ReplayPC
        BY DEF ReplayPC
      <3> QED
        BY <2>6, <3>1, GotoType
    <2>8. todo' \in [Replayers -> Seq(1 .. Len(rows'))]
      BY <2>1, <2>4, <2>6 DEF TypeOK
    <2>9. \A v \in Replayers : pc'[v] # "idle" => todo'[v] # <<>>
      BY <1>1, <2>1, <2>5, <2>7 DEF TypeOK
    <2>10. ControlOK'
      BY <2>7, <2>8, <2>9 DEF ControlOK
    <2> QED
      BY <1>5, <1>25, <2>10 DEF FetchPending, DataOK
  <1>26. ASSUME NEW w \in Replayers, MarkReplayed(w) PROVE ControlOK' /\ DataOK'
    <2>1. todo[w][1] \in 1 .. Len(rows)
      BY <1>3, <1>26 DEF MarkReplayed
    <2>2. rows' \in Seq(Row) /\ Len(rows') = Len(rows)
      BY <1>26, <2>1, RowsType DEF MarkReplayed
    <2>3. ControlOK'
      BY <1>26, <2>2, NextRowType DEF MarkReplayed
    <2> QED
      BY <1>5, <1>26, <2>2, <2>3 DEF MarkReplayed, DataOK
  <1>27. ASSUME NEW w \in Replayers, MarkReplayFailure(w) PROVE ControlOK' /\ DataOK'
    <2>1. todo[w][1] \in 1 .. Len(rows)
      BY <1>3, <1>27 DEF MarkReplayFailure
    <2>2. rows' \in Seq(Row) /\ Len(rows') = Len(rows)
      BY <1>27, <2>1, RowsType DEF MarkReplayFailure
    <2>3. ControlOK'
      BY <1>27, <2>2, NextRowType DEF MarkReplayFailure
    <2> QED
      BY <1>5, <1>27, <2>2, <2>3 DEF MarkReplayFailure, DataOK
  <1>28. ASSUME NEW w \in Replayers, ReplayDies(w) PROVE ControlOK' /\ DataOK'
    <2>1. todo[w][1] \in 1 .. Len(rows)
      BY <1>3, <1>28 DEF ReplayDies
    <2>2. rows' \in Seq(Row) /\ Len(rows') = Len(rows)
      <3>1. CASE rows' = rows
        BY <1>5, <3>1 DEF DataOK
      <3>2. CASE rows' = [rows EXCEPT ![todo[w][1]].status = "replayed"]
        BY <2>1, <3>2, RowsType
      <3>3. CASE rows' = [rows EXCEPT ![todo[w][1]] = Failed(@)]
        BY <2>1, <3>3, RowsType
      <3> QED
        BY <1>28, <3>1, <3>2, <3>3 DEF ReplayDies
    <2>3. ControlOK'
      BY <1>28, <2>2, IdleType DEF ReplayDies
    <2>4. cut' \in [Actors -> Seq(Manifests)] /\ num' \in [Actors -> Nat]
      BY <1>1, <1>28, ReleaseType DEF ReplayDies
    <2>5. faults' \in 0 .. MaxFaults
      BY <1>5, <1>28, FaultType DEF ReplayDies, DataOK
    <2> QED
      BY <1>5, <1>28, <2>2, <2>3, <2>4, <2>5 DEF ReplayDies, DataOK
  <1> QED
    BY <1>1, <1>8, <1>9, <1>10, <1>11, <1>12, <1>13, <1>14, <1>15, <1>16, <1>17, <1>18, <1>19, <1>20, <1>21, <1>22, <1>23, <1>24, <1>25, <1>26, <1>27, <1>28
    DEF Next, JobProgress, ReplayProgress, PathFault

(***************************************************************************)
(* What is on the list, in a drawn batch or under an anchor is stored.     *)
(***************************************************************************)
\* The elements of q are stored.
AllStored(q) == \A i \in 1 .. Len(q) : evidence[q[i]] > 0

\* An actor appends only what it stored, and the digests that leave its hands
\* stay stored.
StoredInv ==
    /\ AllStored(list)
    /\ \A a \in Actors : AllStored(cut[a])
    /\ \A x \in anchors : AllStored(x.leaves)
    /\ \A a \in Actors : pc[a] = "append" => evidence[ManifestAt(a)] > 0

LEMMA InitStored == Init => StoredInv
  BY DEF Init, StoredInv, AllStored, Actors

LEMMA StoredGrows ==
    ASSUME TypeOK, evidence' \in [Manifests -> Nat],
           \A m \in Manifests : evidence'[m] >= evidence[m],
           NEW q \in Seq(Manifests), AllStored(q)
    PROVE  \A i \in 1 .. Len(q) : evidence'[q[i]] > 0
  <1> SUFFICES ASSUME NEW i \in 1 .. Len(q) PROVE evidence'[q[i]] > 0
    OBVIOUS
  <1>1. q[i] \in Manifests /\ evidence[q[i]] > 0
    BY DEF AllStored
  <1>2. evidence[q[i]] \in Nat /\ evidence'[q[i]] \in Nat /\ evidence'[q[i]] >= evidence[q[i]]
    BY <1>1 DEF TypeOK
  <1> QED
    BY <1>1, <1>2

\* The script moves elements of the list and the one it pushed.
LEMMA ScriptStored ==
    ASSUME TypeOK, StoredInv, NEW m \in Manifests, evidence[m] > 0
    PROVE  AllStored(Script(m).rest) /\ AllStored(Script(m).batch)
  <1> DEFINE pushed == Append(list, m)
             S == {x \in Manifests : evidence[x] > 0}
  <1>1. list \in Seq(S)
    <2>1. list \in Seq(Manifests) /\ \A i \in 1 .. Len(list) : list[i] \in S
      BY DEF TypeOK, StoredInv, AllStored
    <2> HIDE DEF S
    <2> QED
      BY <2>1
  <1>2. m \in S
    OBVIOUS
  <1>3. \A q \in Seq(S) : AllStored(q)
    <2> SUFFICES ASSUME NEW q \in Seq(S), NEW i \in 1 .. Len(q) PROVE evidence[q[i]] > 0
      BY DEF AllStored
    <2>1. q[i] \in S
      OBVIOUS
    <2> QED
      BY <2>1
  <1> HIDE DEF S
  <1>4. Script(m).rest \in Seq(S) /\ Script(m).batch \in Seq(S)
    BY <1>1, <1>2, ScriptType
  <1> QED
    BY <1>3, <1>4

(***************************************************************************)
(* What one step does, told once for all the invariants below.             *)
(***************************************************************************)
\* Nothing is taken out of the tables and lists of record, and an actor works
\* on the same manifest until it comes to insert the next.
Grows ==
    /\ \A m \in Manifests : evidence'[m] >= evidence[m] /\ appends'[m] >= appends[m]
    /\ dlq \subseteq dlq'
    /\ Len(rows') >= Len(rows)
    /\ \A i \in 1 .. Len(rows) : rows'[i].manifest = rows[i].manifest
    /\ \A w \in Replayers : pc'[w] \notin {"idle", "insert"} => todo'[w] = todo[w]

\* What a step of a does to batches, their numbers and their anchors.
BatchEffect(a) ==
    /\ \A b \in Actors : b # a => pc'[b] = pc[b] /\ num'[b] = num[b] /\ cut'[b] = cut[b]
    /\ \/ list' = list
       \/ pc[a] = "append" /\ list' = Script(ManifestAt(a)).rest
    /\ \/ cut'[a] = cut[a] \/ cut'[a] = <<>>
       \/ pc[a] = "append" /\ cut'[a] = Script(ManifestAt(a)).batch
    /\ seq' >= seq
    /\ \/ anchors' = anchors
       \/ pc[a] = "anchor" /\ pc'[a] # "anchor" /\ anchors' = anchors \cup {Anchor(a)}
    /\ pc'[a] = "number" => \/ pc[a] = "number" /\ cut'[a] = cut[a]
                            \/ /\ pc[a] = "append" /\ Script(ManifestAt(a)).full
                               /\ cut'[a] = Script(ManifestAt(a)).batch
    /\ pc'[a] = "anchor" =>
         /\ cut'[a] = cut[a]
         /\ \/ pc[a] = "anchor" /\ num'[a] = num[a]
            \/ pc[a] = "number" /\ seq' = seq + 1 /\ num'[a] = seq + 1

\* What a step of a does to the places where manifests are kept.
PlaceEffect(a) ==
    /\ pc'[a] = "append" => pc[a] = "append" \/ evidence'[ManifestAt(a)] > 0
    /\ pc'[a] \in {"number", "anchor", "success"} =>
         \/ pc[a] \in {"number", "anchor", "success"}
         \/ pc[a] = "append" /\ appends'[ManifestAt(a)] > 0
    /\ a \in Jobs /\ pc'[a] = "done" =>
         \/ pc[a] \in {"done", "anchor"}
         \/ pc[a] = "append" /\ appends'[ManifestOf[a]] > 0
         \/ \E i \in 1 .. Len(rows') : rows'[i].manifest = ManifestOf[a]
         \/ ManifestOf[a] \in dlq'
    /\ \A i \in 1 .. Len(rows') : rows'[i].status = "replayed" =>
         \/ i \in 1 .. Len(rows) /\ rows[i].status = "replayed"
         \/ a \in Replayers /\ pc[a] = "success" /\ i = todo[a][1]

\* A step that moves a neither to a batch nor to its anchor.
LEMMA QuietBatch ==
    ASSUME NEW a \in Actors, seq \in Nat, UNCHANGED <<list, seq, anchors>>,
           \A b \in Actors : b # a => pc'[b] = pc[b] /\ num'[b] = num[b] /\ cut'[b] = cut[b],
           cut'[a] = cut[a] \/ cut'[a] = <<>>,
           pc'[a] \notin {"number", "anchor"}
    PROVE  BatchEffect(a)
  <1>1. seq' >= seq
    OBVIOUS
  <1> QED
    BY <1>1 DEF BatchEffect

\* A count of one manifest goes up.
LEMMA CountGrows ==
    ASSUME NEW f \in [Manifests -> Nat], NEW m \in Manifests, NEW g, g = [f EXCEPT ![m] = @ + 1]
    PROVE  \A n \in Manifests : g[n] >= f[n]
  <1>1. \A n \in Manifests : f[n] \in Nat /\ g[n] = IF n = m THEN f[n] + 1 ELSE f[n]
    OBVIOUS
  <1> QED
    BY <1>1

\* A step that at most adds rows.
LEMMA RowsGrow ==
    ASSUME TypeOK, UNCHANGED <<evidence, appends, dlq, todo>>,
           Len(rows') >= Len(rows), \A i \in 1 .. Len(rows) : rows'[i].manifest = rows[i].manifest
    PROVE  Grows
  <1>1. \A m \in Manifests : evidence[m] \in Nat /\ appends[m] \in Nat
    BY DEF TypeOK
  <1> QED
    BY <1>1 DEF Grows

\* A replay worker moves on in its list of rows.
LEMMA TodoMoves ==
    ASSUME TypeOK, UNCHANGED <<evidence, appends, dlq>>, NEW w \in Replayers,
           pc'[w] \in {"idle", "insert"}, \A v \in Replayers : v # w => todo'[v] = todo[v],
           Len(rows') = Len(rows), \A i \in 1 .. Len(rows) : rows'[i].manifest = rows[i].manifest
    PROVE  Grows
  <1>1. \A m \in Manifests : evidence[m] \in Nat /\ appends[m] \in Nat
    BY DEF TypeOK
  <1>2. Len(rows') >= Len(rows)
    BY DEF TypeOK
  <1> QED
    BY <1>1, <1>2 DEF Grows

\* A parked manifest has a row of its own, which is not yet replayed.
LEMMA RowAdded ==
    ASSUME TypeOK, NEW m \in Manifests, rows' = Append(rows, NewRow(m))
    PROVE  /\ Len(rows') >= Len(rows)
           /\ \A i \in 1 .. Len(rows) : rows'[i].manifest = rows[i].manifest
           /\ Len(rows) + 1 \in 1 .. Len(rows') /\ rows'[Len(rows) + 1].manifest = m
           /\ \A i \in 1 .. Len(rows') : rows'[i].status = "replayed" =>
                 i \in 1 .. Len(rows) /\ rows[i].status = "replayed"
  <1>1. rows \in Seq(Row) /\ Len(rows) \in Nat /\ NewRow(m) \in Row
    BY DEF TypeOK, NewRow, Row
  <1>2. NewRow(m).manifest = m /\ NewRow(m).status # "replayed"
    BY DEF NewRow
  <1>3. /\ Len(rows') = Len(rows) + 1
        /\ \A i \in 1 .. Len(rows) : rows'[i] = rows[i]
        /\ rows'[Len(rows) + 1] = NewRow(m)
    BY <1>1
  <1>4. Len(rows) + 1 \in 1 .. Len(rows') /\ Len(rows') >= Len(rows)
    BY <1>1, <1>3
  <1>5. \A i \in 1 .. Len(rows') : i \in 1 .. Len(rows) \/ i = Len(rows) + 1
    BY <1>1, <1>3
  <1> QED
    BY <1>2, <1>3, <1>4, <1>5

\* What each action does, in the terms of the invariants.
LEMMA StepEffect ==
    ASSUME TypeOK, Next
    PROVE  Grows /\ \E a \in Actors : BatchEffect(a) /\ PlaceEffect(a)
  <1> USE DEF batchVars, storeVars, Goto
  <1>1. /\ Jobs \subseteq Actors /\ Replayers \subseteq Actors /\ Jobs \cap Replayers = {}
        /\ \A j \in Jobs : ManifestOf[j] \in Manifests /\ ManifestAt(j) = ManifestOf[j]
        /\ \A a \in Actors : a \in Jobs \/ pc[a] # "idle" => ManifestAt(a) \in Manifests
        /\ pc \in [Actors -> JobPC \cup ReplayPC]
    BY ActorsAssumption, ManifestAtType DEF Actors, ManifestAt, TypeOK
  <1>2. cut \in [Actors -> Seq(Manifests)] /\ num \in [Actors -> Nat] /\ seq \in Nat
    BY DEF TypeOK
  <1>3. /\ evidence \in [Manifests -> Nat] /\ appends \in [Manifests -> Nat]
        /\ rows \in Seq(Row) /\ Len(rows) \in Nat
        /\ todo \in [Replayers -> Seq(1 .. Len(rows))]
        /\ \A w \in Replayers : pc[w] # "idle" => todo[w][1] \in 1 .. Len(rows)
    BY DEF TypeOK
  \* Steps that leave the list, the counter and the anchors alone.
  <1>4. ASSUME NEW a \in Actors, UNCHANGED <<list, seq, anchors>>,
               NEW step, step \notin {"number", "anchor"}, pc' = [pc EXCEPT ![a] = step],
               \/ cut' = cut /\ num' = num
               \/ cut' = [cut EXCEPT ![a] = <<>>] /\ num' = [num EXCEPT ![a] = 0]
        PROVE  BatchEffect(a)
    <2>1. /\ \A b \in Actors : b # a => pc'[b] = pc[b] /\ num'[b] = num[b] /\ cut'[b] = cut[b]
          /\ cut'[a] = cut[a] \/ cut'[a] = <<>>
          /\ pc'[a] \notin {"number", "anchor"}
      BY <1>1, <1>2, <1>4
    <2> QED
      BY <1>2, <1>4, <2>1, QuietBatch
  <1>5. ASSUME NEW j \in Jobs, Enqueue(j) \/ Start(j) \/ JobDies(j)
        PROVE  Grows /\ BatchEffect(j) /\ PlaceEffect(j)
    <2>1. UNCHANGED <<evidence, appends, dlq, todo, rows>>
      BY <1>5 DEF Enqueue, Start, JobDies
    <2>2. \E step : step \notin {"number", "anchor"} /\ pc' = [pc EXCEPT ![j] = step]
      BY <1>5 DEF Enqueue, Start, JobDies
    <2>3. BatchEffect(j)
      BY <1>1, <1>4, <1>5, <2>2 DEF Enqueue, Start, JobDies
    <2>4. pc'[j] \in {"queued", "insert", "deadletter", "failed"}
      BY <1>1, <1>5 DEF Enqueue, Start, JobDies
    <2> QED
      BY <1>3, <2>1, <2>3, <2>4, RowsGrow DEF PlaceEffect
  <1>6. ASSUME NEW a \in Actors, InsertEvidence(a) \/ InsertAnswerLost(a) \/ InsertExhausted(a)
        PROVE  Grows /\ BatchEffect(a) /\ PlaceEffect(a)
    <2>1. PICK m \in Manifests : m = ManifestAt(a)
      BY <1>1, <1>6 DEF InsertEvidence, InsertAnswerLost, InsertExhausted
    <2>2. /\ UNCHANGED <<appends, dlq, rows, todo>>
          /\ evidence' = evidence \/ evidence' = [evidence EXCEPT ![m] = @ + 1]
      BY <1>6, <2>1 DEF InsertEvidence, InsertAnswerLost, InsertExhausted
    <2>3. \A n \in Manifests : evidence'[n] >= evidence[n] /\ appends'[n] >= appends[n]
      <3>1. \A n \in Manifests : evidence[n] >= evidence[n] /\ appends[n] >= appends[n]
        BY <1>3
      <3>2. CASE evidence' = evidence
        BY <2>2, <3>1, <3>2
      <3>3. CASE evidence' = [evidence EXCEPT ![m] = @ + 1]
        BY <1>3, <2>2, <3>1, <3>3, CountGrows
      <3> QED
        BY <2>2, <3>2, <3>3
    <2>4. Grows
      BY <1>3, <2>2, <2>3 DEF Grows
    <2>5. /\ pc[a] = "insert"
          /\ \E step \in {"insert", "append", "park", "failure"} : pc' = [pc EXCEPT ![a] = step]
      BY <1>1, <1>6 DEF InsertEvidence, InsertAnswerLost, InsertExhausted
    <2>6. BatchEffect(a)
      <3>1. PICK step \in {"insert", "append", "park", "failure"} : pc' = [pc EXCEPT ![a] = step]
        BY <2>5
      <3>2. UNCHANGED <<list, seq, anchors, cut, num>>
        BY <1>6 DEF InsertEvidence, InsertAnswerLost, InsertExhausted
      <3> QED
        BY <1>4, <3>1, <3>2
    <2>7. pc'[a] \in {"insert", "append", "park", "failure"}
      BY <1>1, <2>5
    <2>8. pc'[a] = "append" => evidence' = [evidence EXCEPT ![m] = @ + 1]
      BY <1>1, <1>6, <2>1 DEF InsertEvidence, InsertAnswerLost, InsertExhausted
    <2>9. pc'[a] = "append" => evidence'[ManifestAt(a)] > 0
      BY <1>3, <2>1, <2>8
    <2> QED
      BY <2>2, <2>4, <2>6, <2>7, <2>9 DEF PlaceEffect
  <1>7. ASSUME NEW a \in Actors, AppendLeaf(a) \/ AppendError(a)
        PROVE  Grows /\ BatchEffect(a) /\ PlaceEffect(a)
    <2>1. PICK m \in Manifests : m = ManifestAt(a)
      BY <1>1, <1>7 DEF AppendLeaf, AppendError
    <2>2. /\ UNCHANGED <<evidence, dlq, rows, seq, anchors, num>> /\ pc[a] = "append"
          /\ appends' = appends \/ appends' = [appends EXCEPT ![m] = @ + 1]
      BY <1>7, <2>1 DEF AppendLeaf, AppendError, RunScript
    <2>3. \A n \in Manifests : evidence'[n] >= evidence[n] /\ appends'[n] >= appends[n]
      <3>1. CASE appends' = appends
        BY <1>3, <2>2, <3>1
      <3>2. CASE appends' = [appends EXCEPT ![m] = @ + 1]
        BY <1>3, <2>2, <3>2
      <3> QED
        BY <2>2, <3>1, <3>2
    <2>4. \A w \in Replayers : pc'[w] \notin {"idle", "insert"} => todo'[w] = todo[w]
      BY <1>1, <1>3, <1>7 DEF AppendLeaf, AppendError, Uncaught
    <2>5. Grows
      BY <1>3, <2>2, <2>3, <2>4 DEF Grows
    <2>6. /\ \A b \in Actors : b # a => pc'[b] = pc[b] /\ cut'[b] = cut[b]
          /\ list' = list \/ list' = Script(ManifestAt(a)).rest
          /\ cut'[a] = cut[a] \/ cut'[a] = Script(ManifestAt(a)).batch
      BY <1>1, <1>2, <1>7 DEF AppendLeaf, AppendError, RunScript, Finish, Uncaught
    <2>7. /\ pc'[a] \in {"number", "done", "success", "failed", "idle"}
          /\ pc'[a] = "number" => Script(ManifestAt(a)).full /\ cut'[a] = Script(ManifestAt(a)).batch
          /\ pc'[a] \notin {"failed", "idle"} => appends' = [appends EXCEPT ![m] = @ + 1]
      BY <1>1, <1>2, <1>7, <2>1 DEF AppendLeaf, AppendError, RunScript, Finish, Uncaught
    <2>8. BatchEffect(a)
      BY <1>2, <2>2, <2>6, <2>7 DEF BatchEffect
    <2>9. pc'[a] \notin {"failed", "idle"} => appends'[m] > 0
      BY <1>3, <2>7
    <2>10. a \in Jobs => ManifestOf[a] = m
      BY <1>1, <2>1
    <2> QED
      BY <2>1, <2>2, <2>5, <2>7, <2>8, <2>9, <2>10 DEF PlaceEffect
  <1>8. ASSUME NEW a \in Actors, NumberBatch(a) \/ NumberError(a)
        PROVE  Grows /\ BatchEffect(a) /\ PlaceEffect(a)
    <2>1. UNCHANGED <<evidence, appends, dlq, rows, list, anchors>> /\ pc[a] = "number"
      BY <1>8 DEF NumberBatch, NumberError
    <2>2. /\ \A w \in Replayers : pc'[w] \notin {"idle", "insert"} => todo'[w] = todo[w]
          /\ \A b \in Actors : b # a => pc'[b] = pc[b] /\ num'[b] = num[b] /\ cut'[b] = cut[b]
      BY <1>1, <1>2, <1>3, <1>8 DEF NumberBatch, NumberError, Uncaught
    <2>3. Grows
      BY <1>3, <2>1, <2>2 DEF Grows
    <2>4. /\ pc'[a] \in {"anchor", "failed", "idle"} /\ seq' >= seq
          /\ cut'[a] = cut[a] \/ cut'[a] = <<>>
          /\ pc'[a] = "anchor" => cut'[a] = cut[a] /\ seq' = seq + 1 /\ num'[a] = seq + 1
      BY <1>1, <1>2, <1>8 DEF NumberBatch, NumberError, Uncaught
    <2> QED
      BY <2>1, <2>2, <2>3, <2>4 DEF BatchEffect, PlaceEffect
  <1>9. ASSUME NEW a \in Actors, InsertAnchor(a) \/ AnchorExhausted(a)
        PROVE  Grows /\ BatchEffect(a) /\ PlaceEffect(a)
    <2>1. UNCHANGED <<evidence, appends, dlq, todo, rows, list, seq>> /\ pc[a] = "anchor"
      BY <1>9 DEF InsertAnchor, AnchorExhausted
    <2>2. /\ \A b \in Actors : b # a => pc'[b] = pc[b] /\ num'[b] = num[b] /\ cut'[b] = cut[b]
          /\ cut'[a] = <<>> /\ pc'[a] \in {"done", "success", "failed", "failure"}
          /\ anchors' = anchors \/ anchors' = anchors \cup {Anchor(a)}
      BY <1>1, <1>2, <1>9 DEF InsertAnchor, AnchorExhausted, Finish, Release
    <2>3. Grows
      BY <1>3, <2>1, RowsGrow
    <2>4. BatchEffect(a)
      BY <1>2, <2>1, <2>2 DEF BatchEffect
    <2> QED
      BY <2>1, <2>2, <2>3, <2>4 DEF PlaceEffect
  <1>10. ASSUME NEW j \in Jobs, Park(j) \/ ParkFallsBack(j) PROVE Grows /\ BatchEffect(j) /\ PlaceEffect(j)
    <2>1. /\ UNCHANGED <<evidence, appends, dlq, todo, list, seq, anchors, cut, num>>
          /\ rows' = rows \/ rows' = Append(rows, NewRow(ManifestOf[j]))
      BY <1>10 DEF Park, ParkFallsBack
    <2>2. \E step \in {"done", "deadletter"} :
            /\ pc' = [pc EXCEPT ![j] = step]
            /\ step = "done" => rows' = Append(rows, NewRow(ManifestOf[j]))
      BY <1>10 DEF Park, ParkFallsBack
    <2>3. BatchEffect(j)
      BY <1>1, <1>4, <2>1, <2>2
    <2>4. /\ Len(rows') >= Len(rows) /\ \A i \in 1 .. Len(rows) : rows'[i].manifest = rows[i].manifest
          /\ \A i \in 1 .. Len(rows') : rows'[i].status = "replayed" =>
               i \in 1 .. Len(rows) /\ rows[i].status = "replayed"
          /\ pc'[j] = "done" => \E i \in 1 .. Len(rows') : rows'[i].manifest = ManifestOf[j]
      <3>1. CASE rows' = rows
        BY <1>1, <1>3, <2>2, <3>1, RowAdded
      <3>2. CASE rows' = Append(rows, NewRow(ManifestOf[j]))
        BY <1>1, <3>2, RowAdded
      <3> QED
        BY <2>1, <3>1, <3>2
    <2>5. Grows
      BY <2>1, <2>4, RowsGrow
    <2>6. pc'[j] \in {"done", "deadletter"}
      BY <1>1, <2>2
    <2> QED
      BY <2>3, <2>4, <2>5, <2>6 DEF PlaceEffect
  <1>11. ASSUME NEW j \in Jobs, DeadLetter(j) \/ DeadLetterError(j)
         PROVE  Grows /\ BatchEffect(j) /\ PlaceEffect(j)
    <2>1. /\ UNCHANGED <<evidence, appends, todo, rows, list, seq, anchors, cut, num>>
          /\ dlq' = dlq \/ dlq' = dlq \cup {ManifestOf[j]}
      BY <1>11 DEF DeadLetter, DeadLetterError
    <2>2. \E step \in {"done", "failed"} :
            pc' = [pc EXCEPT ![j] = step] /\ (step = "done" => ManifestOf[j] \in dlq')
      BY <1>11 DEF DeadLetter, DeadLetterError
    <2>3. BatchEffect(j)
      BY <1>1, <1>4, <2>1, <2>2
    <2>4. Grows
      BY <1>3, <2>1 DEF Grows
    <2>5. pc'[j] \in {"done", "failed"} /\ (pc'[j] = "done" => ManifestOf[j] \in dlq')
      BY <1>1, <2>2
    <2> QED
      BY <2>1, <2>3, <2>4, <2>5 DEF PlaceEffect
  <1>12. ASSUME NEW w \in Replayers,
                FetchPending(w) \/ MarkReplayed(w) \/ MarkReplayFailure(w) \/ ReplayDies(w)
         PROVE  Grows /\ BatchEffect(w) /\ PlaceEffect(w)
    <2>1. /\ UNCHANGED <<evidence, appends, dlq, list, seq, anchors>>
          /\ \/ cut' = cut /\ num' = num
             \/ cut' = [cut EXCEPT ![w] = <<>>] /\ num' = [num EXCEPT ![w] = 0]
      BY <1>12 DEF FetchPending, MarkReplayed, MarkReplayFailure, ReplayDies, Release
    <2>2. \E step \in {"idle", "insert"} : pc' = [pc EXCEPT ![w] = step]
      BY <1>12 DEF FetchPending, MarkReplayed, MarkReplayFailure, ReplayDies, NextRow
    <2>3. BatchEffect(w)
      BY <1>1, <1>4, <2>1, <2>2
    <2>4. pc'[w] \in {"idle", "insert"} /\ \A v \in Replayers : v # w => todo'[v] = todo[v]
      BY <1>1, <1>3, <1>12 DEF FetchPending, MarkReplayed, MarkReplayFailure, ReplayDies, NextRow
    <2>5. \/ rows' = rows
          \/ pc[w] = "success" /\ rows' = [rows EXCEPT ![todo[w][1]].status = "replayed"]
          \/ pc[w] = "failure" /\ rows' = [rows EXCEPT ![todo[w][1]] = Failed(@)]
      BY <1>12 DEF FetchPending, MarkReplayed, MarkReplayFailure, ReplayDies
    <2>6. /\ Len(rows') = Len(rows) /\ \A i \in 1 .. Len(rows) : rows'[i].manifest = rows[i].manifest
          /\ \A i \in 1 .. Len(rows') : rows'[i].status = "replayed" =>
               \/ i \in 1 .. Len(rows) /\ rows[i].status = "replayed"
               \/ pc[w] = "success" /\ i = todo[w][1]
      <3>1. CASE rows' = rows
        BY <3>1
      <3>2. rows \in Seq(Row)
        BY <1>3
      <3>3. CASE pc[w] = "success" /\ rows' = [rows EXCEPT ![todo[w][1]].status = "replayed"]
        BY <3>2, <3>3 DEF Row
      <3>4. CASE pc[w] = "failure" /\ rows' = [rows EXCEPT ![todo[w][1]] = Failed(@)]
        BY <3>2, <3>4 DEF Failed, Row
      <3> QED
        BY <2>5, <3>1, <3>3, <3>4
    <2>7. Grows
      BY <2>1, <2>4, <2>6, TodoMoves
    <2> QED
      BY <1>1, <2>3, <2>4, <2>6, <2>7 DEF PlaceEffect
  <1> QED
    BY <1>1, <1>5, <1>6, <1>7, <1>8, <1>9, <1>10, <1>11, <1>12 DEF Next, JobProgress, ReplayProgress, PathFault

\* An actor past the insert keeps its manifest from one step to the next.
LEMMA SameManifest ==
    ASSUME TypeOK, TypeOK', Grows, NEW a \in Actors, pc'[a] \notin {"idle", "insert"}
    PROVE  ManifestAt(a)' = ManifestAt(a) /\ ManifestAt(a) \in Manifests
  <1>1. CASE a \in Jobs
    BY <1>1, ActorsAssumption DEF ManifestAt
  <1>2. CASE a \notin Jobs
    <2>1. a \in Replayers /\ todo'[a] = todo[a] /\ todo[a] # <<>>
      BY <1>2, RolesDiffer DEF Grows, TypeOK
    <2>2. todo[a] \in Seq(1 .. Len(rows))
      BY <2>1 DEF TypeOK
    <2>3. todo[a][1] \in 1 .. Len(rows)
      BY <2>1, <2>2
    <2>4. rows'[todo[a][1]].manifest = rows[todo[a][1]].manifest
      BY <2>3 DEF Grows
    <2>5. rows[todo[a][1]].manifest \in Manifests
      <3>1. rows[todo[a][1]] \in Row
        <4>1. rows \in Seq(Row)
          BY DEF TypeOK
        <4> HIDE DEF Row
        <4> QED
          BY <2>3, <4>1
      <3> QED
        BY <3>1 DEF Row
    <2> QED
      BY <1>2, <2>1, <2>4, <2>5 DEF ManifestAt
  <1> QED
    BY <1>1, <1>2

LEMMA NextStored == TypeOK /\ TypeOK' /\ StoredInv /\ [Next]_vars => StoredInv'
  <1> SUFFICES ASSUME TypeOK, TypeOK', StoredInv, [Next]_vars PROVE StoredInv'
    OBVIOUS
  <1>1. CASE UNCHANGED vars
    BY <1>1 DEF vars, batchVars, storeVars, StoredInv, AllStored, ManifestAt
  <1>2. CASE Next
    <2>1. Grows
      BY <1>2, StepEffect
    <2>2. PICK a \in Actors : BatchEffect(a) /\ PlaceEffect(a)
      BY <1>2, StepEffect
    <2>3. \A q \in Seq(Manifests) : AllStored(q) => AllStored(q)'
      BY <2>1, StoredGrows DEF TypeOK, Grows, AllStored
    <2>4. ASSUME pc[a] = "append"
          PROVE  LET m == ManifestAt(a)
                 IN  /\ AllStored(Script(m).rest) /\ Script(m).rest \in Seq(Manifests)
                     /\ AllStored(Script(m).batch) /\ Script(m).batch \in Seq(Manifests)
      <3>1. ManifestAt(a) \in Manifests /\ evidence[ManifestAt(a)] > 0
        BY <2>4, ManifestAtType DEF StoredInv
      <3> QED
        BY <3>1, ScriptStored, ScriptType DEF TypeOK
    <2>5. AllStored(list)'
      <3>1. PICK q \in Seq(Manifests) : q = list' /\ AllStored(q)
        BY <2>2, <2>4 DEF BatchEffect, StoredInv, TypeOK
      <3> QED
        BY <2>3, <3>1 DEF AllStored
    <2>6. \A b \in Actors : AllStored(cut[b])'
      <3> SUFFICES ASSUME NEW b \in Actors PROVE AllStored(cut[b])'
        OBVIOUS
      <3>1. AllStored(<<>>)
        BY DEF AllStored
      <3>2. PICK q \in Seq(Manifests) : q = cut'[b] /\ AllStored(q)
        BY <2>2, <2>4, <3>1 DEF BatchEffect, StoredInv, TypeOK
      <3> QED
        BY <2>3, <3>2 DEF AllStored
    <2>7. \A x \in anchors' : AllStored(x.leaves)'
      <3> SUFFICES ASSUME NEW x \in anchors' PROVE AllStored(x.leaves)'
        OBVIOUS
      <3>1. x.leaves \in Seq(Manifests) /\ AllStored(x.leaves)
        <4>1. CASE x \in anchors
          BY <4>1 DEF StoredInv, TypeOK
        <4>2. CASE x = Anchor(a)
          <5>1. x.leaves = cut[a]
            BY <4>2 DEF Anchor
          <5> QED
            BY <5>1 DEF StoredInv, TypeOK
        <4> QED
          BY <2>2, <4>1, <4>2 DEF BatchEffect
      <3>2. PICK q \in Seq(Manifests) : q = x.leaves /\ AllStored(q)
        BY <3>1
      <3> QED
        BY <2>3, <3>2 DEF AllStored
    <2>8. \A b \in Actors : (pc[b] = "append" => evidence[ManifestAt(b)] > 0)'
      <3> SUFFICES ASSUME NEW b \in Actors, pc'[b] = "append" PROVE evidence'[ManifestAt(b)'] > 0
        OBVIOUS
      <3>1. PICK m \in Manifests : m = ManifestAt(b)' /\ m = ManifestAt(b)
        BY <2>1, SameManifest
      <3>2. evidence[m] > 0 \/ evidence'[m] > 0
        BY <2>2, <3>1 DEF BatchEffect, PlaceEffect, StoredInv
      <3>3. evidence'[m] >= evidence[m] /\ evidence[m] \in Nat /\ evidence'[m] \in Nat
        BY <2>1 DEF Grows, TypeOK
      <3>4. evidence'[m] > 0
        BY <3>2, <3>3
      <3> QED
        BY <3>1, <3>4
    <2> QED
      BY <2>5, <2>6, <2>7, <2>8 DEF StoredInv
  <1> QED
    BY <1>1, <1>2

(***************************************************************************)
(* Numbers.  A batch that waits for its number is a full one; the rest of  *)
(* NumbersAreUnique is inductive as it stands, since the counter only      *)
(* grows and a new number lies above all the others.                       *)
(***************************************************************************)
NumberInv ==
    /\ NumbersAreUnique
    /\ \A a \in Actors : pc[a] = "number" => Len(cut[a]) = BatchSize

LEMMA InitNumber == Init => NumberInv
  BY DEF Init, NumberInv, NumbersAreUnique

LEMMA NextNumber == TypeOK /\ TypeOK' /\ NumberInv /\ [Next]_vars => NumberInv'
  <1> SUFFICES ASSUME TypeOK, TypeOK', NumberInv, [Next]_vars PROVE NumberInv'
    OBVIOUS
  <1>1. CASE UNCHANGED vars
    BY <1>1 DEF vars, batchVars, NumberInv, NumbersAreUnique
  <1>2. CASE Next
    <2>1. PICK a \in Actors : BatchEffect(a)
      BY <1>2, StepEffect
    <2>2. seq \in Nat /\ seq' \in Nat /\ seq' >= seq
      BY <2>1 DEF TypeOK, BatchEffect
    <2>3. \A b \in Actors : b # a => pc'[b] = pc[b] /\ num'[b] = num[b] /\ cut'[b] = cut[b]
      BY <2>1 DEF BatchEffect
    <2>4. \/ anchors' = anchors
          \/ pc[a] = "anchor" /\ pc'[a] # "anchor" /\ anchors' = anchors \cup {Anchor(a)}
      BY <2>1 DEF BatchEffect
    <2>5. pc'[a] = "anchor" =>
            /\ cut'[a] = cut[a]
            /\ \/ pc[a] = "anchor" /\ num'[a] = num[a]
               \/ pc[a] = "number" /\ seq' = seq + 1 /\ num'[a] = seq + 1
      BY <2>1 DEF BatchEffect
    <2>6. /\ Anchor(a).number = num[a] /\ Anchor(a).leaves = cut[a]
      BY DEF Anchor
    <2>7. \A b \in Actors : pc'[b] = "number" => Len(cut'[b]) = BatchSize
      <3> SUFFICES ASSUME NEW b \in Actors, pc'[b] = "number" PROVE Len(cut'[b]) = BatchSize
        OBVIOUS
      <3>1. CASE b # a
        BY <2>3, <3>1 DEF NumberInv
      <3>2. CASE b = a
        <4>1. CASE pc[a] = "number" /\ cut'[a] = cut[a]
          BY <3>2, <4>1 DEF NumberInv
        <4>2. CASE /\ pc[a] = "append" /\ Script(ManifestAt(a)).full
                   /\ cut'[a] = Script(ManifestAt(a)).batch
          <5>1. ManifestAt(a) \in Manifests /\ list \in Seq(Manifests)
            BY <4>2, ManifestAtType DEF TypeOK
          <5> QED
            BY <3>2, <4>2, <5>1, ScriptType
        <4> QED
          BY <2>1, <3>2, <4>1, <4>2 DEF BatchEffect
      <3> QED
        BY <3>1, <3>2
    <2>8. \A x \in anchors' : x.number \in 1 .. seq' /\ Len(x.leaves) = BatchSize
      <3> SUFFICES ASSUME NEW x \in anchors'
                   PROVE  x.number \in 1 .. seq' /\ Len(x.leaves) = BatchSize
        OBVIOUS
      <3>1. CASE x \in anchors
        BY <2>2, <3>1 DEF NumberInv, NumbersAreUnique
      <3>2. CASE x = Anchor(a) /\ pc[a] = "anchor"
        BY <2>2, <2>6, <3>2 DEF NumberInv, NumbersAreUnique
      <3> QED
        BY <2>4, <3>1, <3>2
    <2>9. \A x, y \in anchors' : x.number = y.number => x = y
      <3>1. CASE anchors' = anchors
        BY <3>1 DEF NumberInv, NumbersAreUnique
      <3>2. CASE pc[a] = "anchor" /\ anchors' = anchors \cup {Anchor(a)}
        <4>1. \A x \in anchors : x.number # Anchor(a).number
          BY <2>6, <3>2 DEF NumberInv, NumbersAreUnique
        <4>2. \A x, y \in anchors : x.number = y.number => x = y
          BY DEF NumberInv, NumbersAreUnique
        <4> QED
          BY <3>2, <4>1, <4>2
      <3> QED
        BY <2>4, <3>1, <3>2
    <2>10. ASSUME NEW b \in Actors, pc'[b] = "anchor"
           PROVE  /\ num'[b] \in 1 .. seq' /\ Len(cut'[b]) = BatchSize
                  /\ \/ num'[b] = num[b] /\ pc[b] = "anchor"
                     \/ num'[b] = seq + 1 /\ b = a
      <3>1. CASE b # a
        BY <2>2, <2>3, <2>10, <3>1 DEF NumberInv, NumbersAreUnique
      <3>2. CASE b = a
        BY <2>2, <2>5, <2>10, <3>2 DEF NumberInv, NumbersAreUnique
      <3> QED
        BY <3>1, <3>2
    <2>11. ASSUME NEW b \in Actors, pc'[b] = "anchor", NEW x \in anchors' PROVE x.number # num'[b]
      <3>1. CASE num'[b] = seq + 1 /\ b = a
        <4>1. x \in anchors
          BY <2>4, <2>11, <3>1
        <4>2. x.number \in 1 .. seq
          BY <4>1 DEF NumberInv, NumbersAreUnique
        <4> QED
          BY <2>2, <3>1, <4>2
      <3>2. CASE num'[b] = num[b] /\ pc[b] = "anchor"
        <4>1. CASE x \in anchors
          BY <3>2, <4>1 DEF NumberInv, NumbersAreUnique
        <4>2. CASE x = Anchor(a) /\ pc[a] = "anchor" /\ b # a
          BY <2>6, <3>2, <4>2 DEF NumberInv, NumbersAreUnique
        <4> QED
          BY <2>4, <2>11, <4>1, <4>2
      <3> QED
        BY <2>10, <2>11, <3>1, <3>2
    <2>12. ASSUME NEW b \in Actors, NEW c \in Actors, pc'[b] = "anchor", pc'[c] = "anchor",
                  num'[c] = num'[b]
           PROVE  c = b
      <3>1. \A d \in Actors : pc[d] = "anchor" => num[d] \in 1 .. seq
        BY DEF NumberInv, NumbersAreUnique
      <3>2. \A d, e \in Actors : pc[d] = "anchor" /\ pc[e] = "anchor" /\ num[e] = num[d] => e = d
        BY DEF NumberInv, NumbersAreUnique
      <3> QED
        BY <2>2, <2>10, <2>12, <3>1, <3>2
    <2>13. NumbersAreUnique'
      BY <2>8, <2>9, <2>10, <2>11, <2>12 DEF NumbersAreUnique
    <2> QED
      BY <2>7, <2>13 DEF NumberInv
  <1> QED
    BY <1>1, <1>2

(***************************************************************************)
(* What is kept.  An actor past the script works on a manifest that is in  *)
(* record already.                                                         *)
(***************************************************************************)
KeptInv ==
    /\ DoneIsKept
    /\ \A a \in Actors : pc[a] \in {"number", "anchor", "success"} => InRecord(ManifestAt(a))

LEMMA InitKept == Init => KeptInv
  BY DEF Init, KeptInv, DoneIsKept, Actors

LEMMA NextKept == TypeOK /\ TypeOK' /\ StoredInv /\ KeptInv /\ [Next]_vars => KeptInv'
  <1> SUFFICES ASSUME TypeOK, TypeOK', StoredInv, KeptInv, [Next]_vars PROVE KeptInv'
    OBVIOUS
  <1>1. CASE UNCHANGED vars
    BY <1>1 DEF vars, batchVars, storeVars, KeptInv, DoneIsKept, InRecord, ManifestAt
  <1>2. CASE Next
    <2>1. Grows
      BY <1>2, StepEffect
    <2>2. PICK a \in Actors : BatchEffect(a) /\ PlaceEffect(a)
      BY <1>2, StepEffect
    <2>3. \A m \in Manifests : InRecord(m) => InRecord(m)'
      <3>1. \A m \in Manifests : /\ appends[m] \in Nat /\ appends'[m] \in Nat
                                 /\ evidence[m] \in Nat /\ evidence'[m] \in Nat
        BY DEF TypeOK
      <3>2. \A m \in Manifests : evidence'[m] >= evidence[m] /\ appends'[m] >= appends[m]
        BY <2>1 DEF Grows
      <3> QED
        BY <3>1, <3>2 DEF InRecord
    <2>4. \A b \in Actors : b # a => pc'[b] = pc[b]
      BY <2>2 DEF BatchEffect
    \* The script puts on record what the actor stored.
    <2>5. ASSUME pc[a] = "append", appends'[ManifestAt(a)] > 0
          PROVE  \A m \in Manifests : m = ManifestAt(a) => InRecord(m)'
      <3> SUFFICES ASSUME NEW m \in Manifests, m = ManifestAt(a) PROVE InRecord(m)'
        OBVIOUS
      <3>1. evidence[m] > 0 /\ appends'[m] > 0
        BY <2>5 DEF StoredInv
      <3>2. evidence'[m] >= evidence[m] /\ evidence[m] \in Nat /\ evidence'[m] \in Nat
        BY <2>1 DEF Grows, TypeOK
      <3> QED
        BY <3>1, <3>2 DEF InRecord
    <2>6. \A b \in Actors : (pc[b] \in {"number", "anchor", "success"} => InRecord(ManifestAt(b)))'
      <3> SUFFICES ASSUME NEW b \in Actors, pc'[b] \in {"number", "anchor", "success"}
                   PROVE  InRecord(ManifestAt(b))'
        OBVIOUS
      <3>1. PICK m \in Manifests : m = ManifestAt(b)' /\ m = ManifestAt(b)
        BY <2>1, SameManifest
      <3>2. InRecord(m)'
        <4>1. CASE pc[b] \in {"number", "anchor", "success"}
          BY <2>3, <3>1, <4>1 DEF KeptInv
        <4>2. CASE b = a /\ pc[a] = "append" /\ appends'[ManifestAt(a)] > 0
          BY <2>5, <3>1, <4>2
        <4> QED
          BY <2>2, <2>4, <4>1, <4>2 DEF PlaceEffect
      <3> QED
        BY <3>1, <3>2 DEF InRecord
    <2>7. ASSUME NEW j \in Jobs, pc'[j] = "done"
          PROVE  \/ InRecord(ManifestOf[j])'
                 \/ \E i \in 1 .. Len(rows') : rows'[i].manifest = ManifestOf[j]
                 \/ ManifestOf[j] \in dlq'
      <3>1. j \in Actors /\ ManifestOf[j] \in Manifests /\ ManifestAt(j) = ManifestOf[j]
        BY ActorsAssumption DEF Actors, ManifestAt
      <3>2. CASE pc[j] = "done"
        <4>1. CASE InRecord(ManifestOf[j])
          BY <2>3, <3>1, <4>1
        <4>2. CASE ManifestOf[j] \in dlq
          BY <2>1, <4>2 DEF Grows
        <4>3. CASE \E i \in 1 .. Len(rows) : rows[i].manifest = ManifestOf[j]
          <5>1. PICK i \in 1 .. Len(rows) : rows[i].manifest = ManifestOf[j]
            BY <4>3
          <5>2. i \in 1 .. Len(rows') /\ rows'[i].manifest = ManifestOf[j]
            BY <2>1, <5>1 DEF Grows, TypeOK
          <5> QED
            BY <5>2
        <4> QED
          BY <3>2, <4>1, <4>2, <4>3 DEF KeptInv, DoneIsKept
      <3>3. CASE j = a /\ pc[a] = "anchor"
        BY <2>3, <3>1, <3>3 DEF KeptInv
      <3>4. CASE j = a /\ pc[a] = "append" /\ appends'[ManifestOf[a]] > 0
        BY <2>5, <3>1, <3>4
      <3> QED
        BY <2>2, <2>4, <2>7, <3>1, <3>2, <3>3, <3>4 DEF PlaceEffect
    <2>8. ASSUME NEW i \in 1 .. Len(rows'), rows'[i].status = "replayed"
          PROVE  InRecord(rows[i].manifest)'
      <3>1. PICK m \in Manifests : m = rows'[i].manifest /\ InRecord(m)
        <4>1. CASE i \in 1 .. Len(rows) /\ rows[i].status = "replayed"
          <5>1. rows'[i].manifest = rows[i].manifest
            BY <2>1, <4>1 DEF Grows
          <5>2. rows[i] \in Row
            BY <4>1 DEF TypeOK
          <5> QED
            BY <4>1, <5>1, <5>2 DEF Row, KeptInv, DoneIsKept
        <4>2. CASE a \in Replayers /\ pc[a] = "success" /\ i = todo[a][1]
          <5>1. a \notin Jobs /\ todo[a] \in Seq(1 .. Len(rows)) /\ todo[a] # <<>>
            BY <4>2, RolesDiffer DEF TypeOK
          <5>2. i \in 1 .. Len(rows)
            BY <4>2, <5>1
          <5>3. rows'[i].manifest = rows[i].manifest
            BY <2>1, <5>2 DEF Grows
          <5>4. ManifestAt(a) = rows[i].manifest /\ ManifestAt(a) \in Manifests
            BY <4>2, <5>1, ManifestAtType DEF ManifestAt
          <5> QED
            BY <4>2, <5>3, <5>4 DEF KeptInv
        <4> QED
          BY <2>2, <2>8, <4>1, <4>2 DEF PlaceEffect
      <3>2. InRecord(m)'
        BY <2>3, <3>1
      <3> QED
        BY <3>1, <3>2 DEF InRecord
    <2>9. DoneIsKept'
      BY <2>7, <2>8 DEF DoneIsKept, InRecord
    <2> QED
      BY <2>6, <2>9 DEF KeptInv
  <1> QED
    BY <1>1, <1>2

(***************************************************************************)
(* The theorems.  The number of rows a poll fetches is a cardinality, so   *)
(* the theory of finite sets comes in here.                                *)
(***************************************************************************)
INSTANCE FiniteSetTheorems

\* FETCH ... LIMIT brings at least one row when there is one.
LEMMA FetchType ==
    ASSUME TypeOK, Pending # {}
    PROVE  FetchCount \in Nat /\ FetchCount > 0
  <1>1. Len(rows) \in Nat /\ IsFiniteSet(1 .. Len(rows))
    BY FS_Interval DEF TypeOK
  <1>2. IsFiniteSet(Pending)
    BY <1>1, FS_Subset DEF Pending
  <1>3. Cardinality(Pending) \in Nat /\ Cardinality(Pending) # 0
    BY <1>2, FS_EmptySet, FS_CardinalityType
  <1> QED
    BY <1>3, BoundsAssumption DEF FetchCount

\* Every variable of EvidenceAnchor keeps its type, and a replay worker that is
\* not idle has a row to work on.
THEOREM TypeCorrect == Spec => []TypeOK
  <1>1. TypeOK /\ [Next]_vars => TypeOK'
    BY NextTypeOK, FetchType DEF FetchesRows
  <1> QED
    BY <1>1, InitTypeOK, PTL DEF Spec

\* sink_manifest and _process_row append a digest only after the insert
\* returned, and nothing ever takes a row out of evidence_manifests: every leaf
\* on the list, in a drawn batch or under an anchor has its row.
THEOREM LeavesAlwaysStored == Spec => []LeavesAreStored
  <1>1. Spec => []StoredInv
    BY InitStored, NextStored, TypeCorrect, PTL DEF Spec
  <1>2. StoredInv => LeavesAreStored
    <2> SUFFICES ASSUME StoredInv, NEW m \in Leaves PROVE evidence[m] > 0
      BY DEF LeavesAreStored
    <2> DEFINE A == {list[i] : i \in 1 .. Len(list)}
               B == UNION {{cut[a][i] : i \in 1 .. Len(cut[a])} : a \in Actors}
               C == UNION {{x.leaves[i] : i \in 1 .. Len(x.leaves)} : x \in anchors}
    <2>1. CASE m \in A
      BY <2>1 DEF StoredInv, AllStored
    <2>2. CASE m \in B
      <3>1. PICK a \in Actors : m \in {cut[a][i] : i \in 1 .. Len(cut[a])}
        BY <2>2
      <3> QED
        BY <3>1 DEF StoredInv, AllStored
    <2>3. CASE m \in C
      <3>1. PICK x \in anchors : m \in {x.leaves[i] : i \in 1 .. Len(x.leaves)}
        BY <2>3
      <3> QED
        BY <3>1 DEF StoredInv, AllStored
    <2>4. m \in A \cup B \cup C
      BY DEF Leaves
    <2> HIDE DEF A, B, C
    <2> QED
      BY <2>1, <2>2, <2>3, <2>4
  <1> QED
    BY <1>1, <1>2, PTL

LEMMA NumberInductive == Spec => []NumberInv
  BY InitNumber, NextNumber, TypeCorrect, PTL DEF Spec

\* No two batches are written under one batch_seq, although the INCR is a call
\* of its own: for any number of jobs and replay workers.
THEOREM NumbersAlwaysUnique == Spec => []NumbersAreUnique
  BY NumberInductive, PTL DEF NumberInv

\* A job that returned left its manifest in a place of record, and a row is
\* marked replayed only for a manifest that is stored and appended, whatever
\* crashed in between.
THEOREM DoneAlwaysKept == Spec => []DoneIsKept
  <1>1. Spec => []KeptInv
    BY InitStored, NextStored, InitKept, NextKept, TypeCorrect, PTL DEF Spec
  <1> QED
    BY <1>1, PTL DEF KeptInv
==============================================================================
