----------------------- MODULE CaseMaterialiseProofs ------------------------
(***************************************************************************)
(* Proofs about CaseMaterialise, for any number of users, transactions and *)
(* audit rows.  LinkInv makes LinksAreSound inductive: it says what the    *)
(* uncommitted history rows and the case in hand of a transaction point    *)
(* to.  OrderInv makes NoLogSkipped inductive: it says the same of a poll  *)
(* under way as of the cursor, with its batch and its pending rows counted *)
(* as done, and needs the audit rows to commit in id order.                *)
(***************************************************************************)
EXTENDS CaseMaterialise, TLAPS

\* Most leaves are first-order: Zenon is asked before SMT.
USE MaterialiseAssumption, Zenon, SMT DEF Ids, Txns

(***************************************************************************)
(* Types.                                                                  *)
(***************************************************************************)

\* The initial tables are well typed.
LEMMA TypeInit == Init => TypeOK
  BY DEF Init, TypeOK, NoRows

\* The end of a transaction leaves its own variables well typed.
LEMMA EndType ==
    ASSUME TypeOK, NEW t \in Txns, End(t)
    PROVE  /\ pc' \in [Txns -> {"idle", "read", "upsert", "insert"}]
           /\ batch' \in [Txns -> SUBSET Ids]
           /\ upto' \in [Txns -> 0 .. MaxLogs]
           /\ saw' \in [Txns -> Ids \cup {0}]
           /\ pending' \in [Txns -> [Ids -> Ids \cup {0}]]
  BY DEF TypeOK, End, NoRows

\* Every step keeps the tables and the transactions well typed.
LEMMA TypeStep == TypeOK /\ [Next]_vars => TypeOK'
<1> SUFFICES ASSUME TypeOK, [Next]_vars PROVE TypeOK'
  OBVIOUS
<1> USE DEF TypeOK, logVars, caseVars, txnVars
<1>1. ASSUME NEW l \in Ids, NEW k \in {"trigger", "plain", "transition"},
             NEW u \in Users \cup {0}, Flush(l, k, u)
      PROVE  TypeOK'
  BY <1>1 DEF Flush
<1>2. ASSUME NEW l \in Ids, CommitLog(l) PROVE TypeOK'
  BY <1>2 DEF CommitLog
<1>3. ASSUME NEW l \in Ids, RollbackLog(l) PROVE TypeOK'
  BY <1>3 DEF RollbackLog, Fault
<1>4. ASSUME NEW l \in Ids, LeaveWindow(l) PROVE TypeOK'
  BY <1>4 DEF LeaveWindow
<1>5. ASSUME NEW t \in Txns, NEW rows \in SUBSET Ids, Take(t, rows), tried' \subseteq Ids
      PROVE  TypeOK'
  BY <1>5 DEF Take
<1>6. ASSUME NEW t \in Pollers, PollStart(t) PROVE TypeOK'
  BY <1>6 DEF PollStart
<1>15. ASSUME NEW t \in Txns, ReadLogs(t) PROVE TypeOK'
  <2>1. NewLogs(upto[t]) \in SUBSET Ids
    BY DEF NewLogs
  <2> QED
    BY <1>5, <1>15, <2>1 DEF ReadLogs
<1>16. ASSUME NEW t \in Txns, PollNothing(t) PROVE TypeOK'
  BY <1>16, EndType DEF PollNothing
<1>7. ASSUME NEW t \in Ingests, NEW l \in Ids, InlineStart(t, l) PROVE TypeOK'
  BY <1>5, <1>7 DEF InlineStart
<1>8. ASSUME NEW t \in Txns, NEW l \in Ids, Skip(t, l) PROVE TypeOK'
  BY <1>8 DEF Skip
<1>9. ASSUME NEW t \in Txns, NEW l \in Ids, Look(t, l) PROVE TypeOK'
  <2>1. Existing(t, user[l]) \subseteq Ids
    BY DEF Existing, Own
  <2> QED
    BY <1>9, <2>1 DEF Look
<1>10. ASSUME NEW t \in Txns, NEW l \in Ids, Insert(t, l) PROVE TypeOK'
  BY <1>10 DEF Insert
<1>11. ASSUME NEW t \in Txns, NEW l \in Ids, ConflictRollback(t, l) PROVE TypeOK'
  BY <1>11, EndType DEF ConflictRollback
<1>12. ASSUME NEW t \in Txns, Fail(t) PROVE TypeOK'
  BY <1>12, EndType DEF Fail, Fault
<1>13. ASSUME NEW t \in Txns, Commit(t) PROVE TypeOK'
  <2>1. End(t)
    BY <1>13 DEF Commit
  <2>2. pending[t] \in [Ids -> Ids \cup {0}]
    OBVIOUS
  <2>3. linked' \in [Ids -> Ids \cup {0}]
    BY <1>13, <2>2 DEF Commit
  <2>4. recent' \subseteq Ids
    BY <1>13 DEF Commit, Own
  <2>5. cursor' \in 0 .. MaxLogs
    BY <1>13 DEF Commit
  <2>6. UNCHANGED <<log, kind, user, tried, faults>>
    BY <1>13 DEF Commit
  <2> QED
    BY <2>1, <2>3, <2>4, <2>5, <2>6, EndType
<1>14. CASE UNCHANGED vars
  BY <1>14 DEF vars
<1> HIDE DEF TypeOK, Ids, Txns
<1> QED
  BY <1>1, <1>2, <1>3, <1>4, <1>6, <1>7, <1>8, <1>9, <1>10, <1>11, <1>12, <1>13, <1>14,
     <1>15, <1>16
  DEF Next, Step, persist_orchestrator_audit_log, persist_lifecycle_status_audit_log

\* Rows, links and transactions stay well typed (the columns' types and what
\* the two entry points keep in hand).
THEOREM TypeCorrect == Spec => []TypeOK
  BY TypeInit, TypeStep, PTL DEF Spec

(***************************************************************************)
(* Links.                                                                  *)
(***************************************************************************)

\* A case transaction t may point to: linked by its own row, or about to be.
Known(t, c) == linked[c] = c \/ pending[t][c] = c

\* What uncommitted rows, batches and the case in hand point to.
PendingSound ==
    \A t \in Txns, l \in Ids : pending[t][l] # 0 =>
        /\ log[l] = "committed" /\ linked[l] = 0
        /\ user[pending[t][l]] = user[l] /\ Known(t, pending[t][l])

PendingUnique ==
    \A s, t \in Txns, l \in Ids : pending[s][l] # 0 /\ pending[t][l] # 0 => s = t

BatchSound ==
    \A t \in Txns : \A l \in batch[t] : log[l] = "committed" /\ pending[t][l] = 0

SawSound ==
    \A t \in Txns, l \in Ids : pc[t] = "insert" /\ Turn(t, l) /\ saw[t] # 0 =>
        user[saw[t]] = user[l] /\ Known(t, saw[t])

IdleHasNothing ==
    \A t \in Txns :
        /\ pc[t] \in {"idle", "read"} => pending[t] = NoRows /\ batch[t] = {}
        /\ pc[t] = "idle" => upto[t] = 0

RecentLinked == \A c \in recent : linked[c] = c

LinkInv ==
    /\ LinksAreSound /\ RecentLinked
    /\ PendingSound /\ PendingUnique /\ BatchSound /\ SawSound /\ IdleHasNothing

\* Nothing is linked, pending or in hand at the start.
LEMMA LinkInit == Init => LinkInv
  BY DEF Init, LinkInv, LinksAreSound, RecentLinked, PendingSound, PendingUnique, BatchSound,
         SawSound, IdleHasNothing, NoRows, Turn

\* A step that touches audit rows only, none of them committed.
LEMMA LogsKeepLinks ==
    ASSUME TypeOK, LinkInv, UNCHANGED <<linked, pending, pc, batch, upto, saw>>,
           recent' \subseteq recent,
           \A l \in Ids : log[l] = "committed" => log'[l] = "committed" /\ user'[l] = user[l]
    PROVE  LinkInv'
<1> USE DEF TypeOK, LinkInv
<1>1. \A t \in Txns, c \in Ids : Known(t, c) => log[c] = "committed"
  BY DEF Known, LinksAreSound, PendingSound
<1>2. LinksAreSound'
  BY DEF LinksAreSound
<1>3. RecentLinked'
  BY DEF RecentLinked
<1>4. PendingSound'
  <2> SUFFICES ASSUME NEW t \in Txns, NEW l \in Ids, pending[t][l] # 0
               PROVE  /\ log'[l] = "committed" /\ linked[l] = 0
                      /\ user'[pending[t][l]] = user'[l] /\ Known(t, pending[t][l])
    BY DEF PendingSound, Known
  <2>1. /\ pending[t][l] \in Ids /\ log[l] = "committed" /\ linked[l] = 0
        /\ user[pending[t][l]] = user[l] /\ Known(t, pending[t][l])
    BY DEF PendingSound
  <2> QED
    BY <1>1, <2>1
<1>5. PendingUnique'
  BY DEF PendingUnique
<1>6. BatchSound'
  BY DEF BatchSound
<1>7. SawSound'
  <2> SUFFICES ASSUME NEW t \in Txns, NEW l \in Ids, pc'[t] = "insert", Turn(t, l)', saw'[t] # 0
               PROVE  user'[saw'[t]] = user'[l] /\ Known(t, saw[t])'
    <3> HIDE DEF TypeOK, LinkInv
    <3> QED
      BY DEF SawSound
  <2>3. pc[t] = "insert" /\ Turn(t, l) /\ saw[t] # 0 /\ saw'[t] = saw[t]
    BY DEF Turn
  <2>4. Known(t, saw[t])' <=> Known(t, saw[t])
    BY DEF Known
  <2>1. saw[t] \in Ids /\ user[saw[t]] = user[l] /\ Known(t, saw[t])
    BY <2>3 DEF SawSound
  <2>2. log[l] = "committed"
    BY <2>3 DEF BatchSound, Turn
  <2> QED
    BY <1>1, <2>1, <2>2, <2>3, <2>4
<1>8. IdleHasNothing'
  BY DEF IdleHasNothing
<1> QED
  BY <1>2, <1>3, <1>4, <1>5, <1>6, <1>7, <1>8

\* A poll that has read its cursor has nothing in hand.
LEMMA PollStartKeepsLinks ==
    ASSUME TypeOK, LinkInv, NEW t \in Pollers, PollStart(t)
    PROVE  LinkInv'
<1> USE DEF TypeOK, LinkInv, PollStart, logVars, caseVars
<1>1. LinksAreSound' /\ RecentLinked'
  BY DEF LinksAreSound, RecentLinked
<1>2. PendingSound' /\ PendingUnique'
  BY DEF PendingSound, PendingUnique, Known
<1>3. BatchSound'
  BY DEF BatchSound
<1>4. SawSound'
  BY DEF SawSound, Turn, Known
<1>5. IdleHasNothing'
  BY DEF IdleHasNothing
<1> QED
  BY <1>1, <1>2, <1>3, <1>4, <1>5

\* Take: a batch of committed rows, for a transaction that had nothing.
LEMMA TakeKeepsLinks ==
    ASSUME TypeOK, LinkInv, NEW t \in Txns, NEW rows \in SUBSET Ids, Take(t, rows),
           pc[t] \in {"idle", "read"}, \A l \in rows : log[l] = "committed"
    PROVE  LinkInv'
<1> USE DEF TypeOK, LinkInv, Take, logVars, caseVars
<1>1. pending[t] = NoRows
  BY DEF IdleHasNothing
<1>2. LinksAreSound' /\ RecentLinked'
  BY DEF LinksAreSound, RecentLinked
<1>3. PendingSound' /\ PendingUnique'
  BY DEF PendingSound, PendingUnique, Known
<1>4. BatchSound'
  BY <1>1 DEF BatchSound, NoRows
<1>5. SawSound'
  <2> SUFFICES ASSUME NEW s \in Txns, NEW m \in Ids, pc'[s] = "insert", Turn(s, m)', saw'[s] # 0
               PROVE  user'[saw'[s]] = user'[m] /\ Known(s, saw[s])'
    <3> HIDE DEF TypeOK, LinkInv, Take
    <3> QED
      BY DEF SawSound
  <2>1. s # t /\ pc'[s] = pc[s] /\ batch'[s] = batch[s] /\ saw' = saw
    OBVIOUS
  <2>2. pc[s] = "insert" /\ Turn(s, m) /\ saw[s] # 0
    BY <2>1 DEF Turn
  <2>3. user[saw[s]] = user[m] /\ Known(s, saw[s])
    BY <2>2 DEF SawSound
  <2> QED
    BY <2>1, <2>3 DEF Known
<1>6. IdleHasNothing'
  BY DEF IdleHasNothing
<1> QED
  BY <1>2, <1>3, <1>4, <1>5, <1>6

\* Skip: one row fewer in the batch.
LEMMA SkipKeepsLinks ==
    ASSUME TypeOK, LinkInv, NEW t \in Txns, NEW l \in Ids, Skip(t, l)
    PROVE  LinkInv'
<1> USE DEF TypeOK, LinkInv, Skip, logVars, caseVars
<1>1. LinksAreSound' /\ RecentLinked'
  BY DEF LinksAreSound, RecentLinked
<1>2. PendingSound' /\ PendingUnique'
  BY DEF PendingSound, PendingUnique, Known
<1>3. BatchSound'
  BY DEF BatchSound
<1>4. SawSound'
  BY DEF SawSound, Turn, Known
<1>5. IdleHasNothing'
  BY DEF IdleHasNothing
<1> QED
  BY <1>1, <1>2, <1>3, <1>4, <1>5

\* Look: the case in hand is one of the user's, committed or the
\* transaction's own.
LEMMA LookKeepsLinks ==
    ASSUME TypeOK, LinkInv, NEW t \in Txns, NEW l \in Ids, Look(t, l)
    PROVE  LinkInv'
<1> USE DEF TypeOK, LinkInv, Look, logVars, caseVars
<1>1. LinksAreSound' /\ RecentLinked'
  BY DEF LinksAreSound, RecentLinked
<1>2. PendingSound' /\ PendingUnique'
  BY DEF PendingSound, PendingUnique, Known
<1>3. BatchSound'
  BY DEF BatchSound
<1>4. \A c \in Existing(t, user[l]) : c \in Ids /\ user[c] = user[l] /\ Known(t, c)
  BY DEF Existing, Own, Known, RecentLinked
<1>5. saw' = [saw EXCEPT ![t] = saw'[t]]
  OBVIOUS
<1>6. saw'[t] # 0 => user[saw'[t]] = user[l] /\ Known(t, saw'[t])
  BY <1>4
<1>7. SawSound'
  <2> SUFFICES ASSUME NEW s \in Txns, NEW m \in Ids, (pc[s] = "insert")', Turn(s, m)', saw'[s] # 0
               PROVE  user[saw'[s]] = user[m] /\ Known(s, saw'[s])
    BY DEF SawSound, Known
  <2>1. CASE s = t
    <3>1. m = l
      BY <2>1 DEF Turn
    <3> QED
      BY <2>1, <3>1, <1>6
  <2>2. CASE s # t
    BY <2>2, <1>5 DEF SawSound, Turn
  <2> QED
    BY <2>1, <2>2
<1>8. IdleHasNothing'
  BY DEF IdleHasNothing
<1> QED
  BY <1>1, <1>2, <1>3, <1>7, <1>8

\* Insert: the new history row is the only uncommitted one of its audit row.
LEMMA InsertKeepsLinks ==
    ASSUME TypeOK, LinkInv, NEW t \in Txns, NEW l \in Ids, Insert(t, l)
    PROVE  LinkInv'
<1> USE DEF TypeOK, LinkInv, logVars, caseVars
<1>1. /\ UNCHANGED <<log, user, linked, recent, upto, saw>>
      /\ pc[t] = "insert" /\ Turn(t, l) /\ \A s \in Txns : pending[s][l] = 0
      /\ pc' = [pc EXCEPT ![t] = "upsert"] /\ batch' = [batch EXCEPT ![t] = @ \ {l}]
  BY DEF Insert
<1>2. /\ \A s \in Txns, m \in Ids : (s # t \/ m # l) => pending'[s][m] = pending[s][m]
      /\ pending' \in [Txns -> [Ids -> Ids \cup {0}]]
  BY DEF Insert
<1>3. PICK c \in Ids \cup {0} :
        /\ pending'[t][l] = c
        /\ c # 0 => linked[l] = 0 /\ (c = l \/ (saw[t] # 0 /\ c = saw[t]))
  BY DEF Insert
<1>4. c # 0 => user[c] = user[l] /\ (linked[c] = c \/ pending'[t][c] = c)
  <2>1. CASE c = l
    BY <1>3, <2>1
  <2>2. CASE saw[t] # 0 /\ c = saw[t] /\ c # l
    <3>1. user[c] = user[l] /\ Known(t, c)
      BY <1>1, <2>2 DEF SawSound
    <3> QED
      BY <1>2, <2>2, <3>1 DEF Known
  <2> QED
    BY <1>3, <2>1, <2>2
<1>5. \A s \in Txns, d \in Ids : Known(s, d) => linked[d] = d \/ pending'[s][d] = d
  BY <1>1, <1>2 DEF Known
<1>6. log[l] = "committed"
  BY <1>1 DEF BatchSound, Turn
<1>7. LinksAreSound' /\ RecentLinked'
  BY <1>1 DEF LinksAreSound, RecentLinked
<1>8. PendingSound'
  <2>1. PendingSound /\ log' = log /\ user' = user /\ linked' = linked
    BY <1>1
  <2>2. \A s \in Txns, m \in Ids : pending[s][m] \in Ids \cup {0}
    OBVIOUS
  <2> HIDE DEF TypeOK, LinkInv
  <2> SUFFICES ASSUME NEW s \in Txns, NEW m \in Ids, pending'[s][m] # 0
               PROVE  /\ log[m] = "committed" /\ linked[m] = 0
                      /\ user[pending'[s][m]] = user[m]
                      /\ \/ linked[pending'[s][m]] = pending'[s][m]
                         \/ pending'[s][pending'[s][m]] = pending'[s][m]
    BY <2>1 DEF PendingSound, Known
  <2>3. CASE s = t /\ m = l
    BY <2>3, <1>3, <1>4, <1>6
  <2>4. CASE s # t \/ m # l
    <3>1. pending'[s][m] = pending[s][m] /\ pending[s][m] \in Ids
      BY <2>2, <2>4, <1>2
    <3>2. /\ log[m] = "committed" /\ linked[m] = 0
          /\ user[pending[s][m]] = user[m] /\ Known(s, pending[s][m])
      BY <2>1, <3>1 DEF PendingSound
    <3> QED
      BY <3>1, <3>2, <1>5
  <2> QED
    BY <2>3, <2>4
<1>9. PendingUnique'
  <2>1. PendingUnique
    OBVIOUS
  <2> HIDE DEF TypeOK, LinkInv
  <2> SUFFICES ASSUME NEW r \in Txns, NEW s \in Txns, NEW m \in Ids,
                      pending'[r][m] # 0, pending'[s][m] # 0
               PROVE  r = s
    BY DEF PendingUnique
  <2>2. CASE m = l
    <3>1. \A q \in Txns : q # t => pending'[q][l] = 0
      BY <1>1, <1>2
    <3> QED
      BY <2>2, <3>1
  <2>3. CASE m # l
    <3>1. pending'[r][m] = pending[r][m] /\ pending'[s][m] = pending[s][m]
      BY <1>2, <2>3
    <3> QED
      BY <2>1, <3>1 DEF PendingUnique
  <2> QED
    BY <2>2, <2>3
<1>10. BatchSound'
  BY <1>1, <1>2 DEF BatchSound
<1>11. SawSound'
  <2> SUFFICES ASSUME NEW s \in Txns, NEW m \in Ids, pc'[s] = "insert", Turn(s, m)', saw[s] # 0
               PROVE  /\ user[saw[s]] = user[m]
                      /\ linked[saw[s]] = saw[s] \/ pending'[s][saw[s]] = saw[s]
    BY <1>1 DEF SawSound, Known
  <2>1. s # t /\ pc[s] = "insert" /\ Turn(s, m) /\ saw[s] \in Ids
    BY <1>1 DEF Turn
  <2> QED
    BY <1>5, <2>1 DEF SawSound
<1>12. IdleHasNothing'
  <2> SUFFICES ASSUME NEW s \in Txns, pc'[s] \in {"idle", "read"}
               PROVE  /\ pending'[s] = NoRows /\ batch'[s] = {}
                      /\ pc'[s] = "idle" => upto'[s] = 0
    BY DEF IdleHasNothing, NoRows
  <2>1. s # t /\ pc'[s] = pc[s] /\ batch'[s] = batch[s]
    BY <1>1
  <2>2. pending'[s] = pending[s]
    BY <2>1 DEF Insert
  <2> QED
    BY <1>1, <2>1, <2>2 DEF IdleHasNothing
<1> QED
  BY <1>7, <1>8, <1>9, <1>10, <1>11, <1>12

\* What End does to the transactions, spelled out: t is left with nothing and
\* the others are untouched.
Ended(t) ==
    /\ pc'[t] = "idle" /\ batch'[t] = {} /\ upto'[t] = 0
    /\ pending'[t] = NoRows /\ \A l \in Ids : pending'[t][l] = 0
    /\ \A s \in Txns : s # t => /\ pc'[s] = pc[s] /\ batch'[s] = batch[s]
                                /\ upto'[s] = upto[s] /\ saw'[s] = saw[s]
                                /\ pending'[s] = pending[s]

\* End leaves the transactions as Ended says.
LEMMA EndFacts ==
    ASSUME TypeOK, NEW t \in Txns, End(t)
    PROVE  Ended(t)
  BY DEF TypeOK, End, NoRows, Ended

\* A rollback: the transaction ends and no table changes.
LEMMA RollbackKeepsLinks ==
    ASSUME TypeOK, LinkInv, NEW t \in Txns, End(t), UNCHANGED <<log, user, linked, recent>>
    PROVE  LinkInv'
<1>0. Ended(t)
  BY EndFacts
<1> USE DEF TypeOK, LinkInv
<1>1. LinksAreSound' /\ RecentLinked'
  BY DEF LinksAreSound, RecentLinked
<1>2. PendingSound'
  <2>1. PendingSound /\ log' = log /\ user' = user /\ linked' = linked
    OBVIOUS
  <2> HIDE DEF TypeOK, LinkInv
  <2> SUFFICES ASSUME NEW s \in Txns, NEW l \in Ids, pending'[s][l] # 0
               PROVE  /\ log[l] = "committed" /\ linked[l] = 0
                      /\ user[pending'[s][l]] = user[l]
                      /\ \/ linked[pending'[s][l]] = pending'[s][l]
                         \/ pending'[s][pending'[s][l]] = pending'[s][l]
    BY <2>1 DEF PendingSound, Known
  <2>2. s # t /\ pending'[s] = pending[s]
    BY <1>0 DEF Ended
  <2> QED
    BY <2>1, <2>2 DEF PendingSound, Known
<1>3. PendingUnique'
  <2> SUFFICES ASSUME NEW r \in Txns, NEW s \in Txns, NEW l \in Ids,
                      pending'[r][l] # 0, pending'[s][l] # 0
               PROVE  r = s
    BY DEF PendingUnique
  <2>1. r # t /\ s # t /\ pending'[r] = pending[r] /\ pending'[s] = pending[s]
    BY <1>0 DEF Ended
  <2> QED
    BY <2>1 DEF PendingUnique
<1>4. BatchSound'
  <2> SUFFICES ASSUME NEW s \in Txns, NEW l \in batch'[s]
               PROVE  log[l] = "committed" /\ pending'[s][l] = 0
    BY DEF BatchSound
  <2>1. s # t /\ batch'[s] = batch[s] /\ pending'[s] = pending[s]
    BY <1>0 DEF Ended
  <2> QED
    BY <2>1 DEF BatchSound
<1>5. SawSound'
  <2> SUFFICES ASSUME NEW s \in Txns, NEW m \in Ids, pc'[s] = "insert", Turn(s, m)', saw'[s] # 0
               PROVE  /\ user[saw'[s]] = user[m]
                      /\ linked[saw'[s]] = saw'[s] \/ pending'[s][saw'[s]] = saw'[s]
    BY DEF SawSound, Known
  <2>1. s # t /\ pc'[s] = pc[s] /\ saw'[s] = saw[s] /\ pending'[s] = pending[s] /\ batch'[s] = batch[s]
    BY <1>0 DEF Ended
  <2>2. pc[s] = "insert" /\ Turn(s, m) /\ saw[s] # 0
    BY <2>1 DEF Turn
  <2>3. user[saw[s]] = user[m] /\ Known(s, saw[s])
    BY <2>2 DEF SawSound
  <2> QED
    BY <2>1, <2>3 DEF Known
<1>6. IdleHasNothing'
  BY <1>0 DEF Ended, IdleHasNothing, NoRows
<1> QED
  BY <1>1, <1>2, <1>3, <1>4, <1>5, <1>6

\* A commit: pending rows become links.  A row that is pending had no link,
\* so no link is replaced, and what was known before is linked after.
LEMMA CommitKeepsLinks ==
    ASSUME TypeOK, LinkInv, NEW t \in Txns, Commit(t)
    PROVE  LinkInv'
<1>0. Ended(t)
  BY EndFacts DEF Commit
<1> USE DEF TypeOK, LinkInv
<1>1. End(t) /\ UNCHANGED <<log, kind, user>>
  BY DEF Commit, logVars
<1>2. \A l \in Ids : /\ pending[t][l] # 0 => linked[l] = 0 /\ linked'[l] = pending[t][l]
                     /\ pending[t][l] = 0 => linked'[l] = linked[l]
  BY DEF Commit, PendingSound
<1>3. \A l \in Ids : linked[l] # 0 => linked'[l] = linked[l]
  BY <1>2
<1>4. \A c \in Ids : Known(t, c) => linked'[c] = c
  BY <1>2, <1>3 DEF Known
<1>5. LinksAreSound'
  <2> SUFFICES ASSUME NEW l \in Ids, linked'[l] # 0
               PROVE  /\ log[l] = "committed"
                      /\ linked'[linked'[l]] = linked'[l] /\ user[linked'[l]] = user[l]
    BY <1>1 DEF LinksAreSound
  <2>1. CASE pending[t][l] # 0
    <3>1. pending[t][l] \in Ids
      BY <2>1
    <3> QED
      BY <2>1, <3>1, <1>2, <1>4 DEF PendingSound
  <2>2. CASE pending[t][l] = 0
    <3>1. linked'[l] = linked[l] /\ linked[l] \in Ids
      BY <2>2, <1>2
    <3> QED
      BY <3>1, <1>3 DEF LinksAreSound
  <2> QED
    BY <2>1, <2>2
<1>6. RecentLinked'
  <2>1. recent' = recent \cup Own(t)
    BY DEF Commit
  <2> QED
    BY <2>1, <1>4 DEF RecentLinked, Own, Known
<1>7. \A s \in Txns, c \in Ids : s # t /\ Known(s, c) => linked'[c] = c \/ pending'[s][c] = c
  <2> HIDE DEF TypeOK, LinkInv
  <2> QED
    BY <1>0, <1>3 DEF Ended, Known
<1>8. PendingSound'
  <2>1. PendingSound /\ PendingUnique /\ log' = log /\ user' = user
    BY <1>1
  <2>2. \A s \in Txns, l \in Ids : pending[s][l] \in Ids \cup {0}
    OBVIOUS
  <2> HIDE DEF TypeOK, LinkInv
  <2> SUFFICES ASSUME NEW s \in Txns, NEW l \in Ids, pending'[s][l] # 0
               PROVE  /\ log[l] = "committed" /\ linked'[l] = 0
                      /\ user[pending'[s][l]] = user[l]
                      /\ \/ linked'[pending'[s][l]] = pending'[s][l]
                         \/ pending'[s][pending'[s][l]] = pending'[s][l]
    BY <2>1 DEF PendingSound, Known
  <2>3. s # t /\ pending'[s][l] = pending[s][l] /\ pending[s][l] \in Ids
    BY <1>0, <2>2 DEF Ended
  <2>4. pending[t][l] = 0
    BY <2>1, <2>3 DEF PendingUnique
  <2>5. /\ log[l] = "committed" /\ linked[l] = 0
        /\ user[pending[s][l]] = user[l] /\ Known(s, pending[s][l])
    BY <2>1, <2>3 DEF PendingSound
  <2> QED
    BY <2>3, <2>4, <2>5, <1>2, <1>7
<1>9. PendingUnique'
  <2> SUFFICES ASSUME NEW r \in Txns, NEW s \in Txns, NEW l \in Ids,
                      pending'[r][l] # 0, pending'[s][l] # 0
               PROVE  r = s
    BY DEF PendingUnique
  <2>1. r # t /\ s # t /\ pending'[r] = pending[r] /\ pending'[s] = pending[s]
    BY <1>0, <1>1 DEF Ended
  <2> QED
    BY <2>1 DEF PendingUnique
<1>10. BatchSound'
  <2> SUFFICES ASSUME NEW s \in Txns, NEW l \in batch'[s]
               PROVE  log[l] = "committed" /\ pending'[s][l] = 0
    BY <1>1 DEF BatchSound
  <2>1. s # t /\ batch'[s] = batch[s] /\ pending'[s] = pending[s]
    BY <1>0, <1>1 DEF Ended
  <2> QED
    BY <2>1 DEF BatchSound
<1>11. SawSound'
  <2> SUFFICES ASSUME NEW s \in Txns, NEW m \in Ids, pc'[s] = "insert", Turn(s, m)', saw'[s] # 0
               PROVE  /\ user[saw'[s]] = user[m]
                      /\ linked'[saw'[s]] = saw'[s] \/ pending'[s][saw'[s]] = saw'[s]
    BY <1>1 DEF SawSound, Known
  <2>1. s # t /\ pc[s] = "insert" /\ Turn(s, m) /\ saw'[s] = saw[s] /\ saw[s] \in Ids
    <3>1. saw[s] \in Ids \cup {0}
      OBVIOUS
    <3> HIDE DEF TypeOK, LinkInv
    <3> QED
      BY <1>0, <3>1 DEF Ended, Turn
  <2> QED
    BY <1>7, <2>1 DEF SawSound
<1>12. IdleHasNothing'
  <2>1. IdleHasNothing
    OBVIOUS
  <2> HIDE DEF TypeOK, LinkInv
  <2> QED
    BY <1>0, <2>1 DEF Ended, IdleHasNothing, NoRows
<1> QED
  BY <1>5, <1>6, <1>8, <1>9, <1>10, <1>11, <1>12

\* Every step, of the ingests, the polls and the clock, keeps LinkInv.
LEMMA LinkStep == TypeOK /\ LinkInv /\ [Next]_vars => LinkInv'
<1> SUFFICES ASSUME TypeOK, LinkInv, [Next]_vars PROVE LinkInv'
  OBVIOUS
<1> USE DEF logVars, caseVars, txnVars
<1>1. ASSUME NEW l \in Ids, NEW k, NEW u, Flush(l, k, u) PROVE LinkInv'
  BY <1>1, LogsKeepLinks DEF Flush, TypeOK
<1>2. ASSUME NEW l \in Ids, CommitLog(l) PROVE LinkInv'
  BY <1>2, LogsKeepLinks DEF CommitLog, TypeOK
<1>3. ASSUME NEW l \in Ids, RollbackLog(l) PROVE LinkInv'
  BY <1>3, LogsKeepLinks DEF RollbackLog, TypeOK
<1>4. ASSUME NEW l \in Ids, LeaveWindow(l) PROVE LinkInv'
  BY <1>4, LogsKeepLinks DEF LeaveWindow
<1>5. ASSUME NEW t \in Txns, ReadLogs(t) PROVE LinkInv'
  <2>1. /\ NewLogs(upto[t]) \in SUBSET Ids
        /\ \A l \in NewLogs(upto[t]) : log[l] = "committed"
    BY DEF NewLogs
  <2> QED
    BY <1>5, <2>1, TakeKeepsLinks DEF ReadLogs
<1>6. ASSUME NEW t \in Ingests, NEW l \in Ids, InlineStart(t, l) PROVE LinkInv'
  BY <1>6, TakeKeepsLinks DEF InlineStart
<1>10. ASSUME NEW t \in Txns, PollNothing(t) PROVE LinkInv'
  BY <1>10, RollbackKeepsLinks DEF PollNothing
<1>7. ASSUME NEW t \in Txns, NEW l \in Ids, ConflictRollback(t, l) PROVE LinkInv'
  BY <1>7, RollbackKeepsLinks DEF ConflictRollback
<1>8. ASSUME NEW t \in Txns, Fail(t) PROVE LinkInv'
  BY <1>8, RollbackKeepsLinks DEF Fail
<1>9. CASE UNCHANGED vars
  BY <1>9, LogsKeepLinks DEF vars
<1> HIDE DEF Ids, Txns
<1> QED
  BY <1>1, <1>2, <1>3, <1>4, <1>5, <1>6, <1>7, <1>8, <1>9, <1>10,
     PollStartKeepsLinks, SkipKeepsLinks, LookKeepsLinks, InsertKeepsLinks, CommitKeepsLinks
  DEF Next, Step, persist_orchestrator_audit_log, persist_lifecycle_status_audit_log

\* Polls and inline materialisations, however they overlap and fail, leave
\* no history row without its committed audit row and its user's own case.
THEOREM LinksStaySound == Spec => []LinksAreSound
<1>1. Init => TypeOK /\ LinkInv
  BY TypeInit, LinkInit
<1>2. TypeOK /\ LinkInv /\ [Next]_vars => (TypeOK /\ LinkInv)'
  BY TypeStep, LinkStep
<1>3. LinkInv => LinksAreSound
  BY DEF LinkInv
<1> QED
  BY <1>1, <1>2, <1>3, PTL DEF Spec

(***************************************************************************)
(* Nothing behind the cursor is forgotten.                                 *)
(***************************************************************************)
Settled(l) == log[l] \in {"committed", "rolled_back"}
Calls(l) == log[l] = "committed" /\ kind[l] = "trigger"

\* Ids are handed out in order; below a committed row none is still to come.
CommitsInOrder ==
    \A l, m \in Ids : m < l =>
        /\ log[l] # "none" => log[m] # "none"
        /\ log[l] = "committed" => Settled(m)

CursorSound == \A l \in Ids : l <= cursor => Settled(l) /\ (Calls(l) => linked[l] # 0)

\* The same of a poll's last row, its batch and pending rows counted as done.
PollSound ==
    \A t \in Pollers, l \in Ids : l <= upto[t] =>
        /\ Settled(l)
        /\ Calls(l) => linked[l] # 0 \/ pending[t][l] # 0 \/ l \in batch[t]

OrderInv == CommitsInOrder /\ CursorSound /\ PollSound

\* The cursor starts at 0, behind no row.
LEMMA OrderInit == Init => OrderInv
  BY DEF Init, OrderInv, CommitsInOrder, CursorSound, PollSound, Calls, NoRows

\* A step that touches audit rows only, and leaves settled ones alone.
LEMMA LogsKeepOrder ==
    ASSUME TypeOK, OrderInv, UNCHANGED <<cursor, linked, pending, upto, batch>>,
           \A l \in Ids : Settled(l) => log'[l] = log[l] /\ kind'[l] = kind[l],
           CommitsInOrder'
    PROVE  OrderInv'
<1> USE DEF TypeOK, OrderInv
<1>1. CursorSound'
  BY DEF CursorSound, Settled, Calls
<1>2. PollSound'
  BY DEF PollSound, Settled, Calls
<1> QED
  BY <1>1, <1>2

INSTANCE FiniteSetTheorems

\* A poll reads every committed row between the cursor and its last one: of
\* the rows below a row it reads, none is cut off by the LIMIT.
LEMMA BatchIsComplete ==
    ASSUME TypeOK, NEW after \in 0 .. MaxLogs, NEW last \in NewLogs(after), NEW l \in Ids,
           after < l, l <= last, log[l] = "committed"
    PROVE  l \in NewLogs(after)
<1> DEFINE new == {k \in Ids : k > after /\ log[k] = "committed"}
           Below(n) == {m \in new : m < n}
<1>1. IsFiniteSet(Below(last))
  <2>1. IsFiniteSet(1 .. MaxLogs)
    BY FS_Interval
  <2> QED
    BY <2>1, FS_Subset
<1>2. Below(l) \subseteq Below(last)
  BY DEF NewLogs, TypeOK
<1>3. Cardinality(Below(l)) <= Cardinality(Below(last)) /\ IsFiniteSet(Below(l))
  BY <1>1, <1>2, FS_Subset
<1>4. Cardinality(Below(l)) \in Nat /\ Cardinality(Below(last)) \in Nat
  BY <1>1, <1>3, FS_CardinalityType
<1>5. Cardinality(Below(last)) < PollLimit
  BY DEF NewLogs
<1>6. Cardinality(Below(l)) < PollLimit
  BY <1>3, <1>4, <1>5
<1> QED
  BY <1>6 DEF NewLogs

\* Every step keeps OrderInv when audit rows commit in id order.
LEMMA OrderStep ==
    ASSUME OrderedCommits, TypeOK, LinkInv, OrderInv, [Next]_vars PROVE OrderInv'
<1> USE DEF TypeOK, logVars, caseVars, txnVars
<1>1. ASSUME NEW l \in Ids, NEW k, NEW u, Flush(l, k, u) PROVE OrderInv'
  <2>1. CommitsInOrder'
    BY <1>1 DEF Flush, OrderInv, CommitsInOrder, Settled
  <2> QED
    BY <1>1, <2>1, LogsKeepOrder DEF Flush, Settled
<1>2. ASSUME NEW l \in Ids, CommitLog(l) PROVE OrderInv'
  <2>1. \A m \in Ids : m < l => log[m] # "open"
    BY <1>2 DEF CommitLog
  <2>2. CommitsInOrder'
    BY <1>2, <2>1 DEF CommitLog, OrderInv, CommitsInOrder, Settled
  <2> QED
    BY <1>2, <2>2, LogsKeepOrder DEF CommitLog, Settled
<1>3. ASSUME NEW l \in Ids, RollbackLog(l) PROVE OrderInv'
  <2>1. CommitsInOrder'
    BY <1>3 DEF RollbackLog, OrderInv, CommitsInOrder, Settled
  <2> QED
    BY <1>3, <2>1, LogsKeepOrder DEF RollbackLog, Settled
<1>4. ASSUME NEW l \in Ids, LeaveWindow(l) PROVE OrderInv'
  BY <1>4, LogsKeepOrder DEF LeaveWindow, OrderInv, CommitsInOrder, Settled
<1>5. ASSUME UNCHANGED <<log, kind, cursor, linked>>, PollSound' PROVE OrderInv'
  BY <1>5 DEF OrderInv, CommitsInOrder, CursorSound, Settled, Calls
<1>6. ASSUME NEW t \in Pollers, PollStart(t) PROVE OrderInv'
  <2>1. UNCHANGED <<log, kind, cursor, linked, pending, batch>> /\ upto' = [upto EXCEPT ![t] = cursor]
    BY <1>6 DEF PollStart
  <2>2. PollSound'
    <3> SUFFICES ASSUME NEW s \in Pollers, NEW l \in Ids, l <= upto'[s]
                 PROVE  /\ Settled(l)
                        /\ Calls(l) => linked[l] # 0 \/ pending[s][l] # 0 \/ l \in batch[s]
      BY <2>1 DEF PollSound, Settled, Calls
    <3>1. CASE s = t
      BY <3>1, <2>1 DEF OrderInv, CursorSound
    <3>2. CASE s # t
      BY <3>2, <2>1 DEF OrderInv, PollSound
    <3> QED
      BY <3>1, <3>2
  <2> QED
    BY <1>5, <2>1, <2>2
<1>16. ASSUME NEW t \in Txns, ReadLogs(t) PROVE OrderInv'
  <2> DEFINE rows == NewLogs(upto[t])
  <2>1. PICK last \in rows : upto' = [upto EXCEPT ![t] = last]
    BY <1>16 DEF ReadLogs, Take
  <2>2. last \in Ids /\ log[last] = "committed" /\ batch' = [batch EXCEPT ![t] = rows]
    BY <1>16 DEF ReadLogs, Take, NewLogs
  <2>3. UNCHANGED <<log, kind, cursor, linked, pending>>
    BY <1>16 DEF ReadLogs, Take
  <2>4. \A l \in Ids : l <= last => Settled(l)
    BY <2>2 DEF OrderInv, CommitsInOrder, Settled
  <2>5. pending[t] = NoRows /\ batch[t] = {}
    BY <1>16 DEF ReadLogs, LinkInv, IdleHasNothing
  <2>6. ASSUME t \in Pollers, NEW l \in Ids, l <= last, Calls(l)
        PROVE  linked[l] # 0 \/ l \in rows
    <3>1. CASE l <= upto[t]
      BY <2>5, <2>6, <3>1 DEF OrderInv, PollSound, NoRows
    <3>2. CASE upto[t] < l
      BY <2>6, <3>2, BatchIsComplete DEF Calls
    <3> QED
      BY <3>1, <3>2
  <2>7. PollSound'
    <3> SUFFICES ASSUME NEW s \in Pollers, NEW l \in Ids, l <= upto'[s]
                 PROVE  /\ Settled(l)
                        /\ Calls(l) => linked[l] # 0 \/ pending[s][l] # 0 \/ l \in batch'[s]
      BY <2>3 DEF PollSound, Settled, Calls
    <3>1. CASE s = t
      <4>1. l <= last /\ batch'[s] = rows
        BY <3>1, <2>1, <2>2
      <4> QED
        BY <3>1, <4>1, <2>4, <2>6
    <3>2. CASE s # t
      BY <3>2, <2>1, <2>2 DEF OrderInv, PollSound
    <3> QED
      BY <3>1, <3>2
  <2> QED
    BY <1>5, <2>3, <2>7
<1>7. ASSUME NEW t \in Ingests, NEW l \in Ids, InlineStart(t, l) PROVE OrderInv'
  <2>1. \A s \in Pollers : upto'[s] = upto[s] /\ batch'[s] = batch[s] /\ pending'[s] = pending[s]
    BY <1>7 DEF InlineStart, Take
  <2>2. UNCHANGED <<log, kind, cursor, linked>>
    BY <1>7 DEF InlineStart, Take
  <2>3. PollSound'
    BY <2>1, <2>2 DEF OrderInv, PollSound, Settled, Calls
  <2> QED
    BY <1>5, <2>2, <2>3
<1>8. ASSUME NEW t \in Txns, NEW l \in Ids, Skip(t, l) PROVE OrderInv'
  <2>1. PollSound'
    BY <1>8 DEF Skip, OrderInv, PollSound, Settled, Calls
  <2> QED
    BY <1>5, <1>8, <2>1 DEF Skip
<1>9. ASSUME NEW t \in Txns, NEW l \in Ids, Look(t, l) PROVE OrderInv'
  <2>1. PollSound'
    BY <1>9 DEF Look, OrderInv, PollSound, Settled, Calls
  <2> QED
    BY <1>5, <1>9, <2>1 DEF Look
<1>10. ASSUME NEW t \in Txns, NEW l \in Ids, Insert(t, l) PROVE OrderInv'
  <2>1. \A s \in Txns, m \in Ids : (s # t \/ m # l) => pending'[s][m] = pending[s][m]
    BY <1>10 DEF Insert
  <2>2. linked[l] # 0 \/ pending'[t][l] # 0
    BY <1>10 DEF Insert
  <2>3. UNCHANGED <<log, kind, cursor, linked, upto>> /\ batch' = [batch EXCEPT ![t] = @ \ {l}]
    BY <1>10 DEF Insert
  <2>4. PollSound'
    <3> SUFFICES ASSUME NEW s \in Pollers, NEW m \in Ids, m <= upto[s]
                 PROVE  /\ Settled(m)
                        /\ Calls(m) => linked[m] # 0 \/ pending'[s][m] # 0 \/ m \in batch'[s]
      BY <2>3 DEF PollSound, Settled, Calls
    <3>1. CASE s = t /\ m = l
      BY <3>1, <2>2 DEF OrderInv, PollSound
    <3>2. CASE s # t \/ m # l
      BY <3>2, <2>1, <2>3 DEF OrderInv, PollSound
    <3> QED
      BY <3>1, <3>2
  <2> QED
    BY <1>5, <2>3, <2>4
<1>11. ASSUME NEW t \in Txns, End(t), UNCHANGED <<log, kind>>,
              \A l \in Ids : linked[l] # 0 => linked'[l] # 0
       PROVE  PollSound'
  <2> SUFFICES ASSUME NEW s \in Pollers, NEW l \in Ids, l <= upto'[s]
               PROVE  /\ Settled(l)
                      /\ Calls(l) => linked'[l] # 0 \/ pending'[s][l] # 0 \/ l \in batch'[s]
    BY <1>11 DEF PollSound, Settled, Calls
  <2>0. Ended(t)
    <3> HIDE DEF TypeOK
    <3> QED
      BY <1>11, EndFacts
  <2>1. s # t
    <3>1. 0 < l
      BY DEF Ids
    <3> HIDE DEF TypeOK
    <3> QED
      BY <2>0, <3>1 DEF Ended
  <2>2. upto'[s] = upto[s] /\ pending'[s] = pending[s] /\ batch'[s] = batch[s]
    BY <2>0, <2>1 DEF Ended
  <2> QED
    BY <1>11, <2>2 DEF OrderInv, PollSound
<1>12. ASSUME NEW t \in Txns, NEW l \in Ids, ConflictRollback(t, l) PROVE OrderInv'
  BY <1>5, <1>11, <1>12 DEF ConflictRollback
<1>13. ASSUME NEW t \in Txns, Fail(t) PROVE OrderInv'
  BY <1>5, <1>11, <1>13 DEF Fail
<1>17. ASSUME NEW t \in Txns, PollNothing(t) PROVE OrderInv'
  BY <1>5, <1>11, <1>17 DEF PollNothing
<1>14. ASSUME NEW t \in Txns, Commit(t) PROVE OrderInv'
  <2>1. End(t) /\ UNCHANGED <<log, kind>> /\ batch[t] = {}
    BY <1>14 DEF Commit
  <2>2. \A l \in Ids : linked[l] # 0 \/ pending[t][l] # 0 => linked'[l] # 0
    BY <1>14 DEF Commit
  <2>3. PollSound'
    BY <1>11, <2>1, <2>2
  <2>4. CommitsInOrder'
    BY <2>1 DEF OrderInv, CommitsInOrder, Settled
  <2>5. cursor' = IF t \in Pollers THEN upto[t] ELSE cursor
    BY <1>14 DEF Commit
  <2>6. CursorSound'
    <3> SUFFICES ASSUME NEW l \in Ids, l <= cursor'
                 PROVE  Settled(l) /\ (Calls(l) => linked'[l] # 0)
      BY <2>1 DEF CursorSound, Settled, Calls
    <3>1. CASE t \in Pollers
      BY <3>1, <2>1, <2>2, <2>5 DEF OrderInv, PollSound
    <3>2. CASE t \notin Pollers
      BY <3>2, <2>2, <2>5 DEF OrderInv, CursorSound
    <3> QED
      BY <3>1, <3>2
  <2> QED
    BY <2>3, <2>4, <2>6 DEF OrderInv
<1>15. CASE UNCHANGED vars
  BY <1>15, LogsKeepOrder DEF vars, OrderInv, CommitsInOrder, Settled
<1> HIDE DEF Ids, Txns, TypeOK
<1> QED
  BY <1>1, <1>2, <1>3, <1>4, <1>6, <1>7, <1>8, <1>9, <1>10, <1>12, <1>13, <1>14, <1>15,
     <1>16, <1>17
  DEF Next, Step, persist_orchestrator_audit_log, persist_lifecycle_status_audit_log

\* When audit rows commit in id order, the poll forgets none: every row
\* behind the cursor that calls for a case has its history row, for any
\* number of pollers and inline transactions and any LIMIT.
THEOREM NoLogIsSkipped == ASSUME OrderedCommits PROVE Spec => []NoLogSkipped
<1>1. Init => TypeOK /\ LinkInv /\ OrderInv
  BY TypeInit, LinkInit, OrderInit
<1>2. (TypeOK /\ LinkInv /\ OrderInv) /\ [Next]_vars => (TypeOK /\ LinkInv /\ OrderInv)'
  BY TypeStep, LinkStep, OrderStep
<1>3. OrderInv => NoLogSkipped
  BY DEF OrderInv, CursorSound, NoLogSkipped, Calls
<1> QED
  BY <1>1, <1>2, <1>3, PTL DEF Spec

(***************************************************************************)
(* Transactions one at a time, as with one poller and inline               *)
(* materialisations in the gaps.  SerialInv makes OneRecentCase inductive: *)
(* the cases a transaction sees, its own uncommitted ones included, are of *)
(* different users, and one that found no case has none to find until it   *)
(* inserts.  SightInv adds, for polls that keep up with the 24 hours, that *)
(* the case of a row ahead of the cursor is still recent, so that a poll   *)
(* which meets the row finds it.                                           *)
(***************************************************************************)
Visible(t) == recent \cup Own(t)

OneAtATime == \A s, t \in Txns : pc[s] # "idle" /\ pc[t] # "idle" => s = t

VisibleDiffer == \A t \in Txns : \A c, d \in Visible(t) : user[c] = user[d] => c = d

NoneMissed ==
    \A t \in Txns, l \in Ids : pc[t] = "insert" /\ Turn(t, l) /\ saw[t] = 0 =>
        \A c \in Visible(t) : user[c] # user[l]

SerialInv == OneAtATime /\ OneRecentCase /\ VisibleDiffer /\ NoneMissed

LEMMA SerialInit == Init => SerialInv
  BY MaterialiseAssumption
  DEF Init, SerialInv, OneAtATime, OneRecentCase, VisibleDiffer, NoneMissed, Visible, Own, NoRows, Ids

\* Cases come from committed audit rows, in sight or not.
LEMMA VisibleCommitted ==
    ASSUME TypeOK, LinkInv, NEW t \in Txns, NEW c \in Visible(t)
    PROVE  c \in Ids /\ log[c] = "committed"
  <1>1. c \in Ids
    BY DEF Visible, Own, TypeOK
  <1>2. c # 0
    BY <1>1, MaterialiseAssumption DEF Ids
  <1>3. CASE c \in recent
    BY <1>1, <1>2, <1>3 DEF LinkInv, RecentLinked, LinksAreSound
  <1>4. CASE pending[t][c] = c
    BY <1>1, <1>2, <1>4 DEF LinkInv, PendingSound
  <1> QED
    BY <1>1, <1>3, <1>4 DEF Visible, Own

\* The same for rows in a batch.
LEMMA BatchCommitted ==
    ASSUME TypeOK, LinkInv, NEW t \in Txns, NEW l \in batch[t]
    PROVE  l \in Ids /\ log[l] = "committed"
  BY DEF LinkInv, BatchSound, TypeOK

\* An idle transaction has opened no case.
LEMMA IdleOwnsNothing ==
    ASSUME TypeOK, LinkInv, NEW t \in Txns, pc[t] \in {"idle", "read"}
    PROVE  Own(t) = {}
  <1>1. \A l \in Ids : pending[t][l] = 0
    BY DEF LinkInv, IdleHasNothing, NoRows
  <1>2. 0 \notin Ids
    BY MaterialiseAssumption DEF Ids
  <1> QED
    BY <1>1, <1>2 DEF Own

\* With nothing new in sight, what is in sight stays different.
LEMMA SightShrinks ==
    ASSUME TypeOK, LinkInv, SerialInv,
           \A c \in Ids : log[c] = "committed" => user'[c] = user[c],
           recent' \subseteq recent,
           \A t \in Txns : Visible(t)' \subseteq Visible(t)
    PROVE  OneRecentCase' /\ VisibleDiffer'
  <1>1. \A t \in Txns : \A c \in Visible(t) : user'[c] = user[c]
    BY VisibleCommitted
  <1>2. \A c \in recent : user'[c] = user[c]
    <2>1. \A c \in recent : c \in Ids /\ c # 0 /\ linked[c] = c
      BY MaterialiseAssumption DEF TypeOK, LinkInv, RecentLinked, Ids
    <2> QED
      BY <2>1 DEF LinkInv, LinksAreSound
  <1>3. OneRecentCase'
    BY <1>2 DEF SerialInv, OneRecentCase
  <1>4. VisibleDiffer'
    BY <1>1 DEF SerialInv, VisibleDiffer
  <1> QED
    BY <1>3, <1>4

\* Audit rows and the clock.
LEMMA LogsKeepSerial ==
    ASSUME TypeOK, LinkInv, SerialInv, UNCHANGED txnVars, recent' \subseteq recent,
           \A c \in Ids : log[c] = "committed" => user'[c] = user[c]
    PROVE  SerialInv'
  <1> USE DEF txnVars
  <1>1. \A t \in Txns : Visible(t)' \subseteq Visible(t)
    BY DEF Visible, Own
  <1>2. OneRecentCase' /\ VisibleDiffer'
    BY <1>1, SightShrinks
  <1>3. OneAtATime'
    BY DEF SerialInv, OneAtATime
  <1>4. NoneMissed'
    <2> SUFFICES ASSUME NEW t \in Txns, NEW l \in Ids, pc[t] = "insert", Turn(t, l), saw[t] = 0,
                        NEW c \in Visible(t)'
                 PROVE  user'[c] # user'[l]
      BY DEF NoneMissed, Turn
    <2>1. c \in Visible(t) /\ user[c] # user[l]
      BY <1>1 DEF SerialInv, NoneMissed
    <2>2. user'[c] = user[c]
      BY <2>1, VisibleCommitted
    <2>3. user'[l] = user[l]
      BY BatchCommitted DEF Turn
    <2> QED
      BY <2>1, <2>2, <2>3
  <1> QED
    BY <1>2, <1>3, <1>4 DEF SerialInv

\* A transaction starts, reads, or passes over a row.
MovesOn(t) ==
    /\ pc'[t] # "insert"
    /\ pc[t] = "idle" => \A s \in Txns : pc[s] = "idle"
    /\ \A s \in Txns : s # t => pc'[s] = pc[s] /\ batch'[s] = batch[s]
    /\ UNCHANGED <<user, recent, pending, saw>>

LEMMA MovesKeepSerial ==
    ASSUME TypeOK, LinkInv, SerialInv, NEW t \in Txns, MovesOn(t)
    PROVE  SerialInv'
  <1>1. \A s \in Txns : Visible(s)' = Visible(s)
    BY DEF Visible, Own, MovesOn
  <1>2. OneRecentCase' /\ VisibleDiffer'
    BY <1>1, SightShrinks DEF MovesOn
  <1>3. OneAtATime'
    BY DEF SerialInv, OneAtATime, MovesOn
  <1>4. NoneMissed'
    BY <1>1 DEF SerialInv, NoneMissed, MovesOn, Turn
  <1> QED
    BY <1>2, <1>3, <1>4 DEF SerialInv

\* The window query.
LEMMA LookKeepsSerial ==
    ASSUME TypeOK, LinkInv, SerialInv, NEW t \in Txns, NEW l \in Ids, Look(t, l)
    PROVE  SerialInv'
  <1> USE DEF logVars, caseVars
  <1>1. \A s \in Txns : Visible(s)' = Visible(s)
    BY DEF Visible, Own, Look
  <1>2. OneRecentCase' /\ VisibleDiffer'
    BY <1>1, SightShrinks DEF Look
  <1>3. /\ pc'[t] = "insert" /\ pc[t] # "idle"
        /\ \A s \in Txns : s # t => pc'[s] = pc[s] /\ saw'[s] = saw[s]
    BY DEF Look, TypeOK
  <1>4. OneAtATime'
    BY <1>3 DEF SerialInv, OneAtATime
  <1>5. \A m \in Ids : Turn(t, m)' => m = l
    BY DEF Look, Turn, TypeOK, Ids
  <1>6. saw'[t] = 0 => \A c \in Visible(t) : user[c] # user[l]
    <2>1. \A c \in Existing(t, user[l]) : c \in Ids /\ c # 0
      BY MaterialiseAssumption DEF Existing, Own, TypeOK, Ids
    <2>2. saw'[t] = 0 => Existing(t, user[l]) = {}
      BY <2>1 DEF Look, TypeOK
    <2> QED
      BY <2>2 DEF Existing, Visible
  <1>7. NoneMissed'
    <2> SUFFICES ASSUME NEW s \in Txns, NEW m \in Ids, pc'[s] = "insert", Turn(s, m)', saw'[s] = 0,
                        NEW c \in Visible(s)
                 PROVE  user[c] # user[m]
      BY <1>1 DEF NoneMissed, Look
    <2>1. CASE s = t
      BY <1>5, <1>6, <2>1
    <2>2. CASE s # t
      <3>1. pc[s] = "insert" /\ Turn(s, m) /\ saw[s] = 0
        BY <1>3, <2>2 DEF Turn, Look
      <3> QED
        BY <3>1 DEF SerialInv, NoneMissed
    <2> QED
      BY <2>1, <2>2
  <1> QED
    BY <1>2, <1>4, <1>7 DEF SerialInv

\* The end of a transaction that leaves the tables as they are.
LEMMA EndKeepsSerial ==
    ASSUME TypeOK, LinkInv, SerialInv, NEW t \in Txns, Ended(t), UNCHANGED <<user, recent>>
    PROVE  SerialInv'
  <1>1. \A s \in Txns : Visible(s)' \subseteq Visible(s)
    BY MaterialiseAssumption DEF Visible, Own, Ended, Ids
  <1>2. OneRecentCase' /\ VisibleDiffer'
    BY <1>1, SightShrinks
  <1>3. OneAtATime'
    BY DEF SerialInv, OneAtATime, Ended
  <1>4. NoneMissed'
    BY <1>1 DEF SerialInv, NoneMissed, Ended, Turn
  <1> QED
    BY <1>2, <1>3, <1>4 DEF SerialInv

\* The history row, and the case when none was found.
LEMMA InsertKeepsSerial ==
    ASSUME TypeOK, LinkInv, SerialInv, NEW t \in Txns, NEW l \in Ids, Insert(t, l)
    PROVE  SerialInv'
  <1> USE DEF logVars, caseVars
  <1>1. l # 0 /\ 0 \notin Ids
    BY MaterialiseAssumption DEF Ids
  <1>2. /\ pc[t] = "insert" /\ pc'[t] = "upsert" /\ Turn(t, l)
        /\ \A s \in Txns : s # t => pc'[s] = pc[s]
        /\ UNCHANGED <<user, recent, saw>>
    BY DEF Insert, TypeOK
  <1>3. \A s \in Txns : s # t => Own(s)' = Own(s)
    BY DEF Own, Insert, TypeOK
  <1>4. \A c \in Ids : c # l => pending'[t][c] = pending[t][c]
    BY DEF Insert, TypeOK
  <1>5. l \in Own(t)' => saw[t] = 0
    <2>1. pending[t][l] = 0
      BY DEF Insert
    <2>2. ASSUME pending'[t][l] = l, saw[t] # 0 PROVE FALSE
      <3>1. linked[l] = 0 /\ saw[t] = l
        BY <1>1, <2>2 DEF Insert, TypeOK
      <3>2. Known(t, saw[t])
        BY <1>2, <2>2 DEF LinkInv, SawSound
      <3> QED
        BY <1>1, <2>1, <3>1, <3>2 DEF Known
    <2> QED
      BY <2>2 DEF Own
  <1>6. Own(t)' \subseteq Own(t) \cup {l}
    BY <1>4 DEF Own
  <1>7. l \in Own(t)' => \A c \in Visible(t) : user[c] # user[l]
    BY <1>2, <1>5 DEF SerialInv, NoneMissed
  <1>8. VisibleDiffer'
    <2> SUFFICES ASSUME NEW s \in Txns, NEW c \in Visible(s)', NEW d \in Visible(s)', user[c] = user[d]
                 PROVE  c = d
      BY <1>2 DEF VisibleDiffer
    <2>1. CASE s # t
      BY <1>2, <1>3, <2>1 DEF SerialInv, VisibleDiffer, Visible
    <2>2. CASE s = t
      <3>1. /\ c \in Visible(t) \/ (c = l /\ l \in Own(t)')
            /\ d \in Visible(t) \/ (d = l /\ l \in Own(t)')
        BY <1>2, <1>6, <2>2 DEF Visible
      <3> QED
        BY <1>7, <3>1 DEF SerialInv, VisibleDiffer
    <2> QED
      BY <2>1, <2>2
  <1>9. OneRecentCase'
    BY <1>2 DEF SerialInv, OneRecentCase
  <1>10. OneAtATime'
    BY <1>2 DEF SerialInv, OneAtATime
  <1>11. NoneMissed'
    <2>1. \A s \in Txns : pc'[s] = "insert" => s # t /\ pc[s] = "insert"
      BY <1>2
    <2>2. \A s \in Txns : pc[s] = "insert" => s = t
      BY <1>2 DEF SerialInv, OneAtATime
    <2> QED
      BY <2>1, <2>2 DEF NoneMissed
  <1> QED
    BY <1>8, <1>9, <1>10, <1>11 DEF SerialInv

\* The commit: what the transaction saw becomes what everyone sees.
LEMMA CommitKeepsSerial ==
    ASSUME TypeOK, LinkInv, SerialInv, NEW t \in Txns, Commit(t)
    PROVE  SerialInv'
  <1> USE DEF logVars, caseVars
  <1>1. Ended(t)
    BY EndFacts DEF Commit
  <1>2. pc[t] # "idle" /\ user' = user /\ recent' = Visible(t)
    BY DEF Commit, Visible
  <1>3. \A s \in Txns : s # t => pc[s] = "idle"
    BY <1>2 DEF SerialInv, OneAtATime
  <1>4. \A s \in Txns : pc'[s] = "idle"
    BY <1>1, <1>3 DEF Ended
  <1>5. \A s \in Txns : Own(s)' = {}
    <2>1. Own(t)' = {}
      BY <1>1, MaterialiseAssumption DEF Own, Ended, Ids
    <2>2. ASSUME NEW s \in Txns, s # t PROVE Own(s)' = {}
      <3>1. Own(s) = {}
        BY <1>3, <2>2, IdleOwnsNothing
      <3> QED
        BY <1>1, <2>2, <3>1 DEF Own, Ended
    <2> QED
      BY <2>1, <2>2
  <1>6. \A c, d \in Visible(t) : user[c] = user[d] => c = d
    BY DEF SerialInv, VisibleDiffer
  <1>7. OneRecentCase'
    BY <1>2, <1>6 DEF OneRecentCase
  <1>8. VisibleDiffer'
    BY <1>2, <1>5, <1>6 DEF VisibleDiffer, Visible
  <1>9. OneAtATime' /\ NoneMissed'
    BY <1>4 DEF OneAtATime, NoneMissed
  <1> QED
    BY <1>7, <1>8, <1>9 DEF SerialInv

LEMMA SerialStep ==
    ASSUME OneMaterialiser
    PROVE  TypeOK /\ LinkInv /\ SerialInv /\ [Next]_vars => SerialInv'
  <1> SUFFICES ASSUME TypeOK, LinkInv, SerialInv, [Next]_vars PROVE SerialInv'
    OBVIOUS
  <1> USE DEF logVars, caseVars, txnVars
  <1>1. ASSUME NEW l \in Ids, NEW k, NEW u, Flush(l, k, u) PROVE SerialInv'
    BY <1>1, LogsKeepSerial DEF Flush, TypeOK
  <1>2. ASSUME NEW l \in Ids, CommitLog(l) \/ RollbackLog(l) \/ LeaveWindow(l) PROVE SerialInv'
    BY <1>2, LogsKeepSerial DEF CommitLog, RollbackLog, LeaveWindow
  <1>3. ASSUME NEW t \in Pollers, PollStart(t) PROVE SerialInv'
    <2>1. t \in Txns /\ MovesOn(t)
      BY <1>3 DEF PollStart, MovesOn, MayStart, TypeOK, Txns
    <2> QED
      BY <2>1, MovesKeepSerial
  <1>4. ASSUME NEW t \in Txns, ReadLogs(t) PROVE SerialInv'
    <2>1. MovesOn(t)
      BY <1>4 DEF ReadLogs, Take, MovesOn, TypeOK
    <2> QED
      BY <2>1, MovesKeepSerial
  <1>5. ASSUME NEW t \in Ingests, NEW l \in Ids, InlineStart(t, l) PROVE SerialInv'
    <2>1. t \in Txns /\ MovesOn(t)
      BY <1>5 DEF InlineStart, Take, MovesOn, MayStart, TypeOK, Txns
    <2> QED
      BY <2>1, MovesKeepSerial
  <1>6. ASSUME NEW t \in Txns, NEW l \in Ids, Skip(t, l) PROVE SerialInv'
    <2>1. MovesOn(t)
      BY <1>6 DEF Skip, MovesOn, TypeOK
    <2> QED
      BY <2>1, MovesKeepSerial
  <1>7. ASSUME NEW t \in Txns, NEW l \in Ids, ConflictRollback(t, l) PROVE SerialInv'
    BY <1>7, EndFacts, EndKeepsSerial DEF ConflictRollback
  <1>8. ASSUME NEW t \in Txns, PollNothing(t) \/ Fail(t) PROVE SerialInv'
    BY <1>8, EndFacts, EndKeepsSerial DEF PollNothing, Fail
  <1>9. CASE UNCHANGED vars
    BY <1>9, LogsKeepSerial DEF vars
  <1> QED
    BY <1>1, <1>2, <1>3, <1>4, <1>5, <1>6, <1>7, <1>8, <1>9,
       LookKeepsSerial, InsertKeepsSerial, CommitKeepsSerial
    DEF Next, Step, persist_orchestrator_audit_log, persist_lifecycle_status_audit_log

\* As long as the transactions of polls and inline materialisations do not
\* overlap, a user has at most one case of the last 24 hours, for any number of
\* users, rows, failures and cases that leave the window.
THEOREM RecentCaseStaysOne == ASSUME OneMaterialiser PROVE Spec => []OneRecentCase
  <1>1. Init => TypeOK /\ LinkInv /\ SerialInv
    BY TypeInit, LinkInit, SerialInit
  <1>2. TypeOK /\ LinkInv /\ SerialInv /\ [Next]_vars => (TypeOK /\ LinkInv /\ SerialInv)'
    BY TypeStep, LinkStep, SerialStep
  <1>3. SerialInv => OneRecentCase
    BY DEF SerialInv
  <1> QED
    BY <1>1, <1>2, <1>3, PTL DEF Spec

(***************************************************************************)
(* Polls that keep up.                                                     *)
(***************************************************************************)
\* The case of a row ahead of the cursor is recent.
AheadInSight == \A l \in Ids : linked[l] # 0 /\ l > cursor => linked[l] \in recent

\* So is what a transaction under way has linked or is about to link.
PendingInSight ==
    \A t \in Txns :
        /\ \A l \in Ids : pending[t][l] # 0 => pending[t][l] \in Visible(t)
        /\ pc[t] = "insert" /\ saw[t] # 0 => saw[t] \in Visible(t)

\* A poll under way is not behind the cursor.
PollAhead ==
    \A t \in Pollers : pc[t] # "idle" => upto[t] >= cursor /\ \A l \in batch[t] : l > cursor

SightInv == AheadInSight /\ PendingInSight /\ PollAhead

LEMMA SightInit == Init => SightInv
  BY DEF Init, SightInv, AheadInSight, PendingInSight, PollAhead, NoRows, Txns

\* Under SightInv a poll that meets a linked row has found its case.
LEMMA SightIdempotent == TypeOK /\ LinkInv /\ SerialInv /\ SightInv => PollIsIdempotent
  <1> SUFFICES ASSUME TypeOK, LinkInv, SerialInv, SightInv,
                      NEW t \in Pollers, NEW l \in Ids, Conflict(t, l)
               PROVE  FALSE
    BY DEF PollIsIdempotent
  <1>1. t \in Txns /\ pc[t] = "insert" /\ Turn(t, l) /\ linked[l] # 0 /\ saw[t] = 0
    BY DEF Conflict, Txns
  <1>2. l > cursor
    BY <1>1 DEF Turn, SightInv, PollAhead
  <1>3. linked[l] \in Visible(t)
    BY <1>1, <1>2 DEF SightInv, AheadInSight, Visible
  <1>4. user[linked[l]] = user[l]
    BY <1>1 DEF LinkInv, LinksAreSound
  <1> QED
    BY <1>1, <1>3, <1>4 DEF SerialInv, NoneMissed

\* Steps that leave the tables, the cursor and the pending rows alone.
LEMMA SightKept ==
    ASSUME TypeOK, SightInv, UNCHANGED <<linked, recent, cursor, pending>>,
           \A t \in Txns : pc'[t] = "insert" => pc[t] = "insert" /\ saw'[t] = saw[t],
           \A t \in Pollers : pc'[t] # "idle" =>
               upto'[t] >= cursor /\ \A l \in batch'[t] : l > cursor
    PROVE  SightInv'
  <1>1. \A t \in Txns : Visible(t)' = Visible(t)
    BY DEF Visible, Own
  <1>2. AheadInSight' /\ PollAhead'
    BY DEF SightInv, AheadInSight, PollAhead
  <1>3. PendingInSight'
    BY <1>1 DEF SightInv, PendingInSight
  <1> QED
    BY <1>2, <1>3 DEF SightInv

\* The window query sees what it finds.
LEMMA LookKeepsSight ==
    ASSUME TypeOK, SightInv, NEW t \in Txns, NEW l \in Ids, Look(t, l)
    PROVE  SightInv'
  <1> USE DEF logVars, caseVars
  <1>1. \A s \in Txns : Visible(s)' = Visible(s)
    BY DEF Visible, Own, Look
  <1>2. AheadInSight' /\ PollAhead'
    BY DEF SightInv, AheadInSight, PollAhead, Look, TypeOK, Txns
  <1>3. saw'[t] # 0 => saw'[t] \in Visible(t)
    BY DEF Look, Existing, Visible, TypeOK
  <1>4. \A s \in Txns : s # t => pc'[s] = pc[s] /\ saw'[s] = saw[s]
    BY DEF Look, TypeOK
  <1>5. pending' = pending
    BY DEF Look
  <1>6. PendingInSight'
    BY <1>1, <1>3, <1>4, <1>5 DEF SightInv, PendingInSight
  <1> QED
    BY <1>2, <1>6 DEF SightInv

\* A history row points to the case found, or to a new one.
LEMMA InsertKeepsSight ==
    ASSUME TypeOK, SightInv, NEW t \in Txns, NEW l \in Ids, Insert(t, l)
    PROVE  SightInv'
  <1> USE DEF logVars, caseVars
  <1>1. l # 0 /\ 0 \notin Ids
    BY MaterialiseAssumption DEF Ids
  <1>2. /\ pc[t] = "insert" /\ pc'[t] = "upsert" /\ pending[t][l] = 0
        /\ \A s \in Txns : s # t => pc'[s] = pc[s] /\ pending'[s] = pending[s] /\ batch'[s] = batch[s]
        /\ batch'[t] \subseteq batch[t]
        /\ UNCHANGED <<linked, recent, cursor, saw, upto>>
    BY DEF Insert, TypeOK
  <1>3. AheadInSight' /\ PollAhead'
    BY <1>2 DEF SightInv, AheadInSight, PollAhead, Txns
  <1>4. \A m \in Ids : m # l => pending'[t][m] = pending[t][m]
    BY DEF Insert, TypeOK
  <1>5. pending'[t][l] \in {0, saw[t], l} /\ (pending'[t][l] = saw[t] \/ pending'[t][l] = 0 \/ pending'[t][l] = l)
    BY DEF Insert, TypeOK
  <1>6. Visible(t) \subseteq Visible(t)'
    BY <1>1, <1>2, <1>4 DEF Visible, Own
  <1>7. pending'[t][l] # 0 => pending'[t][l] \in Visible(t)'
    <2>1. CASE pending'[t][l] = l
      BY <2>1 DEF Visible, Own
    <2>2. CASE pending'[t][l] = saw[t] /\ saw[t] # 0
      BY <1>2, <1>6, <2>2 DEF SightInv, PendingInSight
    <2> QED
      BY <1>5, <2>1, <2>2
  <1>8. \A s \in Txns : s # t => Visible(s)' = Visible(s)
    BY <1>2 DEF Visible, Own
  <1>9. PendingInSight'
    <2>1. ASSUME NEW s \in Txns, NEW m \in Ids, pending'[s][m] # 0 PROVE pending'[s][m] \in Visible(s)'
      BY <1>2, <1>4, <1>6, <1>7, <1>8, <2>1 DEF SightInv, PendingInSight
    <2>2. ASSUME NEW s \in Txns, pc'[s] = "insert", saw'[s] # 0 PROVE saw'[s] \in Visible(s)'
      BY <1>2, <1>8, <2>2 DEF SightInv, PendingInSight
    <2> QED
      BY <2>1, <2>2 DEF PendingInSight
  <1> QED
    BY <1>3, <1>9 DEF SightInv

\* The end of a transaction that leaves the tables as they are.
LEMMA EndKeepsSight ==
    ASSUME TypeOK, SightInv, NEW t \in Txns, Ended(t), UNCHANGED <<linked, recent, cursor>>
    PROVE  SightInv'
  <1>1. AheadInSight' /\ PollAhead'
    BY DEF SightInv, AheadInSight, PollAhead, Ended, Txns
  <1>2. \A s \in Txns : s # t => Visible(s)' = Visible(s)
    BY DEF Visible, Own, Ended
  <1>3. PendingInSight'
    BY <1>2 DEF SightInv, PendingInSight, Ended
  <1> QED
    BY <1>1, <1>3 DEF SightInv

\* With nobody else under way, the commit brings its cases into everyone's
\* sight and the cursor forward.
LEMMA CommitKeepsSight ==
    ASSUME TypeOK, LinkInv, SerialInv, SightInv, NEW t \in Txns, Commit(t)
    PROVE  SightInv'
  <1> USE DEF logVars, caseVars
  <1>1. Ended(t)
    BY EndFacts DEF Commit
  <1>2. pc[t] # "idle" /\ recent' = Visible(t) /\ recent \subseteq recent'
    BY DEF Commit, Visible
  <1>3. \A s \in Txns : s # t => pc[s] = "idle"
    BY <1>2 DEF SerialInv, OneAtATime
  <1>4. \A s \in Txns : pc'[s] = "idle"
    BY <1>1, <1>3 DEF Ended
  <1>5. \A s \in Txns, l \in Ids : pending'[s][l] = 0
    BY <1>1, <1>3 DEF Ended, LinkInv, IdleHasNothing, NoRows
  <1>6. cursor \in Int /\ cursor' \in Int /\ cursor' >= cursor
    BY <1>2, MaterialiseAssumption DEF Commit, SightInv, PollAhead, TypeOK
  <1>7. AheadInSight'
    <2> SUFFICES ASSUME NEW l \in Ids, linked'[l] # 0, l > cursor' PROVE linked'[l] \in recent'
      BY DEF AheadInSight
    <2>1. l > cursor
      BY <1>6, MaterialiseAssumption DEF Ids
    <2>2. CASE pending[t][l] # 0
      <3>1. linked'[l] = pending[t][l]
        BY <2>2 DEF Commit
      <3> QED
        BY <1>2, <2>2, <3>1 DEF SightInv, PendingInSight
    <2>3. CASE pending[t][l] = 0
      <3>1. linked'[l] = linked[l]
        BY <2>3 DEF Commit
      <3> QED
        BY <1>2, <2>1, <3>1 DEF SightInv, AheadInSight
    <2> QED
      BY <2>2, <2>3
  <1>8. PendingInSight' /\ PollAhead'
    BY <1>4, <1>5 DEF PendingInSight, PollAhead, Txns
  <1> QED
    BY <1>7, <1>8 DEF SightInv

LEMMA SightStep ==
    ASSUME PollKeepsUp
    PROVE  TypeOK /\ LinkInv /\ SerialInv /\ SightInv /\ [Next]_vars => SightInv'
  <1> SUFFICES ASSUME TypeOK, LinkInv, SerialInv, SightInv, [Next]_vars PROVE SightInv'
    OBVIOUS
  <1> USE DEF logVars, caseVars, txnVars
  <1>0. \A t \in Pollers : t \in Txns /\ t \notin Ingests
    BY MaterialiseAssumption DEF Txns
  <1>1. ASSUME UNCHANGED <<linked, recent, cursor, txnVars>> PROVE SightInv'
    BY <1>1, SightKept DEF SightInv, PollAhead
  <1>2. ASSUME NEW l \in Ids, NEW k, NEW u, Flush(l, k, u) PROVE SightInv'
    BY <1>1, <1>2 DEF Flush
  <1>3. ASSUME NEW l \in Ids, CommitLog(l) \/ RollbackLog(l) PROVE SightInv'
    BY <1>1, <1>3 DEF CommitLog, RollbackLog
  <1>4. ASSUME NEW c \in Ids, LeaveWindow(c) PROVE SightInv'
    <2>1. /\ \A l \in Ids : linked[l] = c => l <= cursor
          /\ \A t \in Txns : pc[t] = "idle"
          /\ recent' = recent \ {c} /\ UNCHANGED <<linked, cursor, txnVars>>
      BY <1>4 DEF LeaveWindow
    <2>2. AheadInSight'
      <3> SUFFICES ASSUME NEW l \in Ids, linked[l] # 0, l > cursor PROVE linked[l] \in recent /\ linked[l] # c
        BY <2>1 DEF AheadInSight
      <3>1. ~(l <= cursor)
        BY MaterialiseAssumption DEF TypeOK, Ids
      <3> QED
        BY <2>1, <3>1 DEF SightInv, AheadInSight
    <2>3. PendingInSight' /\ PollAhead'
      BY <1>0, <2>1 DEF PendingInSight, PollAhead, LinkInv, IdleHasNothing, NoRows
    <2> QED
      BY <2>2, <2>3 DEF SightInv
  <1>5. ASSUME NEW t \in Pollers, PollStart(t) PROVE SightInv'
    <2>1. /\ pc'[t] = "read" /\ upto'[t] = cursor /\ batch'[t] = {}
          /\ \A s \in Txns : s # t => pc'[s] = pc[s] /\ upto'[s] = upto[s] /\ batch'[s] = batch[s]
          /\ UNCHANGED <<linked, recent, cursor, pending, saw>>
      BY <1>0, <1>5 DEF PollStart, TypeOK, LinkInv, IdleHasNothing
    <2>2. cursor \in Int /\ cursor >= cursor
      BY MaterialiseAssumption DEF TypeOK
    <2>3. \A s \in Txns : pc'[s] = "insert" => pc[s] = "insert" /\ saw'[s] = saw[s]
      BY <2>1
    <2>4. \A s \in Pollers : pc'[s] # "idle" => upto'[s] >= cursor /\ \A l \in batch'[s] : l > cursor
      BY <1>0, <2>1, <2>2 DEF SightInv, PollAhead
    <2> QED
      BY <2>1, <2>3, <2>4, SightKept
  <1>6. ASSUME NEW t \in Txns, NEW rows \in SUBSET Ids, Take(t, rows),
               t \in Pollers => \A l \in rows : l > cursor
        PROVE  SightInv'
    <2>1. /\ pc'[t] = "upsert" /\ upto'[t] \in rows /\ batch'[t] = rows
          /\ \A s \in Txns : s # t => pc'[s] = pc[s] /\ upto'[s] = upto[s] /\ batch'[s] = batch[s]
          /\ UNCHANGED <<linked, recent, cursor, pending, saw>>
      BY <1>6 DEF Take, TypeOK
    <2>2. t \in Pollers => upto'[t] >= cursor
      <3>1. PICK u \in Ids : u = upto'[t] /\ u \in rows
        BY <1>6, <2>1
      <3>2. cursor \in Int /\ u \in Int
        BY MaterialiseAssumption DEF TypeOK, Ids
      <3>3. t \in Pollers => u > cursor
        BY <1>6, <3>1
      <3> QED
        BY <3>1, <3>2, <3>3
    <2>3. \A s \in Txns : pc'[s] = "insert" => pc[s] = "insert" /\ saw'[s] = saw[s]
      BY <2>1
    <2>4. \A s \in Pollers : pc'[s] # "idle" => upto'[s] >= cursor /\ \A l \in batch'[s] : l > cursor
      BY <1>0, <1>6, <2>1, <2>2 DEF SightInv, PollAhead
    <2> QED
      BY <2>1, <2>3, <2>4, SightKept
  <1>7. ASSUME NEW t \in Txns, ReadLogs(t) PROVE SightInv'
    <2>1. NewLogs(upto[t]) \in SUBSET Ids /\ \A l \in NewLogs(upto[t]) : l > upto[t]
      BY DEF NewLogs
    <2>2. t \in Pollers => upto[t] >= cursor
      BY <1>7 DEF ReadLogs, SightInv, PollAhead
    <2>3. t \in Pollers => \A l \in NewLogs(upto[t]) : l > cursor
      BY <2>1, <2>2, MaterialiseAssumption DEF TypeOK, Ids
    <2> QED
      BY <1>6, <1>7, <2>1, <2>3 DEF ReadLogs
  <1>8. ASSUME NEW t \in Ingests, NEW l \in Ids, InlineStart(t, l) PROVE SightInv'
    <2>1. t \in Txns /\ t \notin Pollers /\ {l} \in SUBSET Ids
      BY <1>0 DEF Txns
    <2> QED
      BY <1>6, <1>8, <2>1 DEF InlineStart
  <1>9. ASSUME NEW t \in Txns, NEW l \in Ids, Skip(t, l) PROVE SightInv'
    <2>1. /\ \A s \in Txns : batch'[s] \subseteq batch[s]
          /\ UNCHANGED <<linked, recent, cursor, pending, saw, pc, upto>>
      BY <1>9 DEF Skip, TypeOK
    <2>2. \A s \in Pollers : pc'[s] # "idle" => upto'[s] >= cursor /\ \A m \in batch'[s] : m > cursor
      BY <1>0, <2>1 DEF SightInv, PollAhead
    <2> QED
      BY <2>1, <2>2, SightKept
  <1>10. ASSUME NEW t \in Txns, NEW l \in Ids, ConflictRollback(t, l) PROVE SightInv'
    BY <1>10, EndFacts, EndKeepsSight DEF ConflictRollback
  <1>11. ASSUME NEW t \in Txns, PollNothing(t) \/ Fail(t) PROVE SightInv'
    BY <1>11, EndFacts, EndKeepsSight DEF PollNothing, Fail
  <1>12. CASE UNCHANGED vars
    BY <1>1, <1>12 DEF vars
  <1> QED
    BY <1>2, <1>3, <1>4, <1>5, <1>7, <1>8, <1>9, <1>10, <1>11, <1>12,
       LookKeepsSight, InsertKeepsSight, CommitKeepsSight
    DEF Next, Step, persist_orchestrator_audit_log, persist_lifecycle_status_audit_log

\* With one materialiser at a time, and polls that come within 24 hours, a poll
\* that meets a row the ingest has linked already finds its case and passes
\* over it: the IntegrityError of the create branch never rolls a poll back.
THEOREM PollStaysIdempotent ==
    ASSUME OneMaterialiser, PollKeepsUp
    PROVE  Spec => []PollIsIdempotent
  <1> DEFINE Inv == TypeOK /\ LinkInv /\ SerialInv /\ SightInv
  <1>1. Init => Inv
    BY TypeInit, LinkInit, SerialInit, SightInit
  <1>2. Inv /\ [Next]_vars => Inv'
    BY TypeStep, LinkStep, SerialStep, SightStep
  <1>3. Inv => PollIsIdempotent
    BY SightIdempotent
  <1> QED
    BY <1>1, <1>2, <1>3, PTL DEF Spec
=============================================================================
