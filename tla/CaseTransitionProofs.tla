------------------------ MODULE CaseTransitionProofs ------------------------
(***************************************************************************)
(* Theorems about CaseTransition, for every set of cases and callers.      *)
(***************************************************************************)
EXTENDS CaseTransition, TLAPS

USE TransitionAssumption

\* Whatever the case's status, a request that gives a reason is legal: the
\* 409 illegal_transition of put_lifecycle_case_status cannot be answered,
\* because the reason_code it insists on is also its reopen_reason.
THEOREM EveryMoveWithReasonIsLegal ==
    \A s, t \in CaseStatus : transition_status(s, t, TRUE)
  BY DEF CaseStatus, Open, Resolved, transition_status

(***************************************************************************)
(* Type correctness.                                                       *)
(***************************************************************************)

\* Appending an element of S to a sequence over S.
LEMMA AppendType ==
    ASSUME NEW S, NEW q \in Seq(S), NEW e \in S PROVE Append(q, e) \in Seq(S)
  OBVIOUS

\* Every step keeps the tables and the callers well typed.
LEMMA TypeStep == TypeOK /\ [Next]_vars => TypeOK'
<1> SUFFICES ASSUME TypeOK, [Next]_vars PROVE TypeOK'
  OBVIOUS
<1> USE DEF TypeOK, dbVars, NULL
<1>1. ASSUME NEW r \in Callers, NEW c \in Cases, NEW s \in CaseStatus, Request(r, c, s) PROVE TypeOK'
  BY <1>1 DEF Request
<1>2. ASSUME NEW r \in Callers, fetch_for_update(r) PROVE TypeOK'
  BY <1>2 DEF fetch_for_update
<1>3. ASSUME NEW r \in Callers, CommitTransition(r) PROVE TypeOK'
  <2> DEFINE c == req[r].case
             s == req[r].new
  <2>1. c \in Cases /\ s \in CaseStatus /\ old[r] \in CaseStatus
    OBVIOUS
  <2>2. status' \in [Cases -> CaseStatus]
    BY <1>3, <2>1 DEF CommitTransition
  <2>3. history' \in [Cases -> Seq([from : CaseStatus, to : CaseStatus])]
    <3>1. [from |-> old[r], to |-> s] \in [from : CaseStatus, to : CaseStatus]
      BY <2>1
    <3>2. history[c] \in Seq([from : CaseStatus, to : CaseStatus])
      BY <2>1
    <3>3. Append(history[c], [from |-> old[r], to |-> s]) \in Seq([from : CaseStatus, to : CaseStatus])
      BY <3>1, <3>2, AppendType
    <3> QED
      BY <1>3, <2>1, <3>3 DEF CommitTransition
  <2>4. labels' \in [Cases -> SUBSET (Nat \X {"FRAUD", "LEGITIMATE"})]
    <3>1. Len(history[c]) + 1 \in Nat
      BY <2>1
    <3>2. ground_truth(s) # "none" => ground_truth(s) \in {"FRAUD", "LEGITIMATE"}
      BY DEF ground_truth
    <3> QED
      BY <1>3, <2>1, <3>1, <3>2 DEF CommitTransition, create_analyst_disposition
  <2>5. tag_tasks' \in [Cases -> SUBSET Resolved]
    BY <1>3, <2>1 DEF CommitTransition, enqueue_shadow_retro_tag
  <2>6. /\ row_lock' \in [Cases -> Callers \cup {NULL}]
        /\ pc' \in [Callers -> {"idle", "begin", "locked", "sync"}]
        /\ answer' \in [Callers -> {"none", "ok", "database_error"}]
    BY <1>3, <2>1 DEF CommitTransition, Unlock, AfterCommit
  <2>7. UNCHANGED <<is_fraud, req, old, faults>>
    BY <1>3 DEF CommitTransition
  <2> QED
    BY <2>2, <2>3, <2>4, <2>5, <2>6, <2>7
<1>4. ASSUME NEW r \in Callers, RejectDuplicate(r) \/ FailTransaction(r) PROVE TypeOK'
  <2>1. Rollback(r, "database_error") /\ faults' \in 0 .. MaxFaults
    BY <1>4 DEF RejectDuplicate, FailTransaction, Fault
  <2>2. req[r].case \in Cases
    OBVIOUS
  <2> QED
    BY <2>1, <2>2 DEF Rollback, Unlock
<1>5. ASSUME NEW r \in Callers, SyncGraph(r) \/ LoseSync(r) PROVE TypeOK'
  <2>1. faults' \in 0 .. MaxFaults
    BY <1>5 DEF SyncGraph, LoseSync, Fault
  <2>2. req[r].case \in Cases
    OBVIOUS
  <2>3. is_fraud' \subseteq Cases
    BY <1>5, <2>2 DEF SyncGraph, LoseSync
  <2> QED
    BY <1>5, <2>1, <2>3 DEF SyncGraph, LoseSync
<1>6. ASSUME UNCHANGED vars PROVE TypeOK'
  BY <1>6 DEF vars
<1> QED
  BY <1>1, <1>2, <1>3, <1>4, <1>5, <1>6 DEF Next, CallerStep

\* The initial tables are well typed.
LEMMA TypeInit == Init => TypeOK
  BY DEF Init, TypeOK, CaseStatus, Open, Resolved, NULL

\* Type correctness of the tables and the callers.
THEOREM TypeCorrect == Spec => []TypeOK
  BY TypeInit, TypeStep, PTL DEF Spec

(***************************************************************************)
(* The chain.  What makes it inductive: a transaction past its SELECT ...  *)
(* FOR UPDATE has the row's lock, and the status it read is still the      *)
(* row's status.                                                           *)
(***************************************************************************)
ReadsAreCurrent ==
    \A r \in Callers : pc[r] = "locked" =>
        row_lock[req[r].case] = r /\ old[r] = status[req[r].case]

ChainInv == TypeOK /\ ReadsAreCurrent /\ HistoryChains /\ TrailAgrees

\* A step that writes no table keeps the chain if it keeps the reads current.
LEMMA TablesUntouched ==
    ASSUME ChainInv, TypeOK', ReadsAreCurrent', UNCHANGED dbVars
    PROVE  ChainInv'
  BY DEF ChainInv, HistoryChains, LastStatus, TrailAgrees, dbVars

\* The commit of r extends the chain of its case by one link.
LEMMA CommitKeepsChain ==
    ASSUME ChainInv, TypeOK', NEW r \in Callers, CommitTransition(r),
           NEW c \in Cases, NEW s \in CaseStatus, req[r] = [case |-> c, new |-> s]
    PROVE  HistoryChains' /\ TrailAgrees'
<1> DEFINE h == history[c]
           n == Len(h) + 1
<1>0. TypeOK
  BY DEF ChainInv
<1>1. h \in Seq([from : CaseStatus, to : CaseStatus])
  BY <1>0 DEF TypeOK
<1>2. /\ status' = [status EXCEPT ![c] = s]
      /\ history' = [history EXCEPT ![c] = Append(h, [from |-> old[r], to |-> s])]
      /\ labels' = [labels EXCEPT ![c] =
            IF ground_truth(s) = "none" THEN labels[c] ELSE labels[c] \cup {<<n, ground_truth(s)>>}]
      /\ tag_tasks' = [tag_tasks EXCEPT ![c] = tag_tasks[c] \cup ({s} \cap Resolved)]
  BY <1>0, <1>1 DEF CommitTransition, create_analyst_disposition, enqueue_shadow_retro_tag, TypeOK
<1>3. old[r] = LastStatus(c)
  BY <1>1 DEF ChainInv, ReadsAreCurrent, HistoryChains, CommitTransition
<1>4. /\ history'[c] = Append(h, [from |-> old[r], to |-> s])
      /\ status'[c] = s
      /\ \A d \in Cases \ {c} : history'[d] = history[d] /\ status'[d] = status[d]
                                /\ labels'[d] = labels[d] /\ tag_tasks'[d] = tag_tasks[d]
  BY <1>0, <1>1, <1>2 DEF TypeOK
<1>5. /\ labels'[c] = IF ground_truth(s) = "none" THEN labels[c]
                      ELSE labels[c] \cup {<<n, ground_truth(s)>>}
      /\ tag_tasks'[c] = tag_tasks[c] \cup ({s} \cap Resolved)
  BY <1>0, <1>1, <1>2 DEF TypeOK
<1>6. /\ DOMAIN h = 1 .. Len(h) /\ Len(h) \in Nat /\ n \in Nat
      /\ n # 0 /\ Len(history'[c]) = n /\ DOMAIN history'[c] = 1 .. n
      /\ history'[c][n] = [from |-> old[r], to |-> s]
      /\ \A i \in 1 .. Len(h) : history'[c][i] = h[i]
  BY <1>1, <1>4
<1> HIDE DEF h, n
<1>7. HistoryChains'
  <2> SUFFICES ASSUME NEW d \in Cases
               PROVE  /\ status'[d] = LastStatus(d)'
                      /\ \A i \in DOMAIN history'[d] :
                             history'[d][i].from = IF i = 1 THEN "OPEN" ELSE history'[d][i - 1].to
    BY DEF HistoryChains
  <2>1. CASE d # c
    BY <1>4, <2>1 DEF ChainInv, HistoryChains, LastStatus
  <2>2. CASE d = c
    <3>1. status'[c] = LastStatus(c)'
      <4>1. history'[c] # <<>>
        BY <1>6
      <4>2. history'[c][Len(history'[c])].to = s
        BY <1>6
      <4> QED
        BY <1>4, <4>1, <4>2 DEF LastStatus
    <3>2. ASSUME NEW i \in 1 .. Len(h)
          PROVE  history'[c][i].from = IF i = 1 THEN "OPEN" ELSE history'[c][i - 1].to
      <4>1. h[i].from = IF i = 1 THEN "OPEN" ELSE h[i - 1].to
        BY <1>1, <1>6 DEF ChainInv, HistoryChains, h
      <4>2. i # 1 => i - 1 \in 1 .. Len(h)
        BY <1>6
      <4> QED
        BY <1>6, <4>1, <4>2
    <3>3. history'[c][n].from = IF n = 1 THEN "OPEN" ELSE history'[c][n - 1].to
      <4>1. history'[c][n].from = LastStatus(c)
        BY <1>3, <1>6
      <4>2. CASE n = 1
        <5>1. h = <<>>
          BY <1>1, <1>6, <4>2 DEF n
        <5> QED
          BY <4>1, <4>2, <5>1 DEF LastStatus, h
      <4>3. CASE n # 1
        <5>1. n - 1 = Len(h) /\ n - 1 \in 1 .. Len(h) /\ h # <<>>
          BY <1>6, <4>3 DEF n
        <5>2. LastStatus(c) = h[Len(h)].to
          BY <5>1 DEF LastStatus, h
        <5> QED
          BY <1>6, <4>1, <4>3, <5>1, <5>2
      <4> QED
        BY <4>2, <4>3
    <3>4. \A i \in DOMAIN history'[c] : i \in 1 .. Len(h) \/ i = n
      BY <1>6 DEF n
    <3>5. \A i \in DOMAIN history'[c] :
             history'[c][i].from = IF i = 1 THEN "OPEN" ELSE history'[c][i - 1].to
      BY <3>2, <3>3, <3>4
    <3> QED
      BY <2>2, <3>1, <3>5
  <2> QED
    BY <2>1, <2>2
<1>8. TrailAgrees'
  <2> SUFFICES ASSUME NEW d \in Cases
               PROVE  /\ labels'[d] = {<<i, ground_truth(history'[d][i].to)>> :
                            i \in {j \in DOMAIN history'[d] : ground_truth(history'[d][j].to) # "none"}}
                      /\ tag_tasks'[d] = {history'[d][i].to : i \in DOMAIN history'[d]} \cap Resolved
    BY DEF TrailAgrees, ground_truth
  <2>1. CASE d # c
    BY <1>4, <2>1 DEF ChainInv, TrailAgrees
  <2>2. CASE d = c
    <3>1. /\ labels[c] = {<<i, ground_truth(h[i].to)>> :
                            i \in {j \in DOMAIN h : ground_truth(h[j].to) # "none"}}
          /\ tag_tasks[c] = {h[i].to : i \in DOMAIN h} \cap Resolved
      BY <1>1 DEF ChainInv, TrailAgrees, h
    <3>2. DOMAIN history'[c] = (DOMAIN h) \cup {n} /\ n \notin DOMAIN h
      BY <1>6 DEF n
    <3>3. history'[c][n].to = s /\ \A i \in DOMAIN h : history'[c][i].to = h[i].to
      BY <1>6
    <3>4. tag_tasks'[c] = {history'[c][i].to : i \in DOMAIN history'[c]} \cap Resolved
      BY <1>5, <3>1, <3>2, <3>3
    <3>5. labels'[c] = {<<i, ground_truth(history'[c][i].to)>> :
             i \in {j \in DOMAIN history'[c] : ground_truth(history'[c][j].to) # "none"}}
      BY <1>5, <3>1, <3>2, <3>3
    <3> QED
      BY <2>2, <3>4, <3>5
  <2> QED
    BY <2>1, <2>2
<1> QED
  BY <1>7, <1>8

\* Every step keeps the chain and the trail.
LEMMA ChainStep == ChainInv /\ [Next]_vars => ChainInv'
<1> SUFFICES ASSUME ChainInv, [Next]_vars PROVE ChainInv'
  OBVIOUS
<1>0. TypeOK /\ TypeOK'
  BY TypeStep DEF ChainInv
<1>1. ASSUME NEW r \in Callers, NEW c \in Cases, NEW s \in CaseStatus, Request(r, c, s) PROVE ChainInv'
  BY <1>0, <1>1, TablesUntouched DEF Request, ChainInv, ReadsAreCurrent, TypeOK, dbVars
<1>2. ASSUME NEW r \in Callers, fetch_for_update(r) PROVE ChainInv'
  <2>1. ReadsAreCurrent'
    <3> SUFFICES ASSUME NEW q \in Callers, pc'[q] = "locked"
                 PROVE  row_lock'[req'[q].case] = q /\ old'[q] = status'[req'[q].case]
      BY DEF ReadsAreCurrent
    <3>1. CASE q = r
      BY <1>0, <1>2, <3>1 DEF fetch_for_update, TypeOK, dbVars
    <3>2. CASE q # r
      <4>1. pc[q] = "locked" /\ row_lock[req[q].case] = q /\ old[q] = status[req[q].case]
        BY <1>0, <1>2, <3>2 DEF fetch_for_update, ChainInv, ReadsAreCurrent, TypeOK
      <4>2. req[q].case # req[r].case
        BY <1>2, <4>1 DEF fetch_for_update, NULL
      <4> QED
        BY <1>0, <1>2, <3>2, <4>1, <4>2 DEF fetch_for_update, TypeOK, dbVars
    <3> QED
      BY <3>1, <3>2
  <2> QED
    BY <1>0, <1>2, <2>1, TablesUntouched DEF fetch_for_update
<1>3. ASSUME NEW r \in Callers, CommitTransition(r) PROVE ChainInv'
  <2>1. HistoryChains' /\ TrailAgrees'
    <3>1. PICK c \in Cases, s \in CaseStatus : req[r] = [case |-> c, new |-> s]
      BY <1>0 DEF TypeOK
    <3> QED
      BY <1>0, <1>3, <3>1, CommitKeepsChain
  <2>2. ReadsAreCurrent'
    <3> SUFFICES ASSUME NEW q \in Callers, pc'[q] = "locked"
                 PROVE  row_lock'[req'[q].case] = q /\ old'[q] = status'[req'[q].case]
      BY DEF ReadsAreCurrent
    <3>1. q # r /\ pc[q] = "locked"
      BY <1>0, <1>3 DEF CommitTransition, AfterCommit, TypeOK
    <3>2. /\ row_lock[req[q].case] = q /\ old[q] = status[req[q].case]
          /\ row_lock[req[r].case] = r
      BY <1>3, <3>1 DEF CommitTransition, ChainInv, ReadsAreCurrent
    <3>3. req[q].case # req[r].case
      BY <3>1, <3>2
    <3> QED
      BY <1>0, <1>3, <3>1, <3>2, <3>3 DEF CommitTransition, Unlock, TypeOK
  <2> QED
    BY <1>0, <2>1, <2>2 DEF ChainInv
<1>4. ASSUME NEW r \in Callers, RejectDuplicate(r) \/ FailTransaction(r) PROVE ChainInv'
  <2>1. Rollback(r, "database_error")
    BY <1>4 DEF RejectDuplicate, FailTransaction
  <2>2. ReadsAreCurrent'
    <3> SUFFICES ASSUME NEW q \in Callers, pc'[q] = "locked"
                 PROVE  row_lock'[req'[q].case] = q /\ old'[q] = status'[req'[q].case]
      BY DEF ReadsAreCurrent
    <3>1. q # r /\ pc[q] = "locked"
      BY <1>0, <2>1 DEF Rollback, TypeOK
    <3>2. /\ row_lock[req[q].case] = q /\ old[q] = status[req[q].case]
          /\ row_lock[req[r].case] = r
      BY <2>1, <3>1 DEF Rollback, ChainInv, ReadsAreCurrent
    <3> QED
      BY <1>0, <2>1, <3>1, <3>2 DEF Rollback, Unlock, TypeOK, dbVars
  <2> QED
    BY <1>0, <2>1, <2>2, TablesUntouched DEF Rollback
<1>5. ASSUME NEW r \in Callers, SyncGraph(r) \/ LoseSync(r) PROVE ChainInv'
  BY <1>0, <1>5, TablesUntouched DEF SyncGraph, LoseSync, ChainInv, ReadsAreCurrent, TypeOK, dbVars
<1>6. ASSUME UNCHANGED vars PROVE ChainInv'
  BY <1>0, <1>6, TablesUntouched DEF vars, ChainInv, ReadsAreCurrent, TypeOK, dbVars
<1> QED
  BY <1>1, <1>2, <1>3, <1>4, <1>5, <1>6 DEF Next, CallerStep

\* The invariant holds of fresh cases.
LEMMA ChainInit == Init => ChainInv
<1> SUFFICES ASSUME Init PROVE ChainInv
  OBVIOUS
<1>1. TypeOK
  BY TypeInit
<1>2. ReadsAreCurrent
  BY DEF Init, ReadsAreCurrent
<1>3. HistoryChains
  BY DEF Init, HistoryChains, LastStatus
<1>4. TrailAgrees
  BY DEF Init, TrailAgrees
<1> QED
  BY <1>1, <1>2, <1>3, <1>4 DEF ChainInv

\* The row lock does what case_transition_api.py:95 says: however requests
\* interleave, fail and roll back, the history of a case is one unbroken
\* chain that ends in its present status.
THEOREM HistoryIsAChain == Spec => []HistoryChains
<1>1. ChainInv => HistoryChains
  BY DEF ChainInv
<1> QED
  BY <1>1, ChainInit, ChainStep, PTL DEF Spec

\* Labels and retro-tag tasks are exactly those the history calls for.
THEOREM TrailIsComplete == Spec => []TrailAgrees
<1>1. ChainInv => TrailAgrees
  BY DEF ChainInv
<1> QED
  BY <1>1, ChainInit, ChainStep, PTL DEF Spec
=============================================================================
