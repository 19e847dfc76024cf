------------------------ MODULE EvidenceBatchProofs ------------------------
(***************************************************************************)
(* Which batches may lack an anchor, what one replay worker does to the   *)
(* rows and which fault answers for each repetition, proved from the       *)
(* effects of a step that EvidenceProofs establishes.                      *)
(***************************************************************************)
EXTENDS EvidenceProofs

\* Most leaves are first-order: Zenon is asked before SMT.
USE Zenon, SMT

(***************************************************************************)
(* Orphans.  A step draws a batch and holds it, anchors the batch it held, *)
(* or is a fault; a replay worker that cannot call anyio.to_thread never   *)
(* comes to hold a batch.                                                  *)
(***************************************************************************)
LEMMA FaultsInt ==
    ASSUME TypeOK, TypeOK'
    PROVE  MaxFaults \in Int /\ faults \in Int /\ faults' \in Int
  <1>1. faults \in 0 .. MaxFaults /\ faults' \in 0 .. MaxFaults
    BY DEF TypeOK
  <1> QED
    BY <1>1, BoundsAssumption

Holds(step) == step \in {"number", "anchor"}

Uncallable == ~ToThreadCallable => \A w \in Replayers : pc[w] \in {"idle", "insert"}

\* What a step of a does to the count of batches.
CountEffect(a) ==
    \/ cuts' = cuts /\ anchors' = anchors /\ (Holds(pc'[a]) <=> Holds(pc[a])) /\ faults' <= faults
    \/ cuts' = cuts + 1 /\ anchors' = anchors /\ ~Holds(pc[a]) /\ Holds(pc'[a]) /\ faults' <= faults
    \/ /\ cuts' <= cuts + 1 /\ anchors' = anchors /\ ~Holds(pc[a]) /\ ~Holds(pc'[a])
       /\ faults' = faults - 1
    \/ /\ cuts' = cuts /\ anchors' \in {anchors, anchors \cup {Anchor(a)}} /\ ~Holds(pc'[a])
       /\ faults' = faults - 1
    \/ /\ cuts' = cuts /\ pc[a] = "anchor" /\ anchors' = anchors \cup {Anchor(a)} /\ ~Holds(pc'[a])
       /\ faults' <= faults

LEMMA StepCount ==
    ASSUME TypeOK, Uncallable, Next
    PROVE  \E a \in Actors : /\ CountEffect(a)
                             /\ \A b \in Actors : b # a => pc'[b] = pc[b]
                             /\ a \in Replayers /\ ~ToThreadCallable => pc'[a] \in {"idle", "insert"}
  <1> USE DEF batchVars, storeVars, Goto
  <1> DEFINE Counted(a) == /\ CountEffect(a)
                           /\ \A b \in Actors : b # a => pc'[b] = pc[b]
                           /\ a \in Replayers /\ ~ToThreadCallable => pc'[a] \in {"idle", "insert"}
  <1>1. Jobs \subseteq Actors /\ Replayers \subseteq Actors /\ Jobs \cap Replayers = {}
    BY ActorsAssumption DEF Actors
  <1>2. pc \in [Actors -> JobPC \cup ReplayPC] /\ cuts \in Nat /\ faults \in 0 .. MaxFaults
    BY DEF TypeOK
  <1>3. \A w \in Replayers : ~ToThreadCallable => pc[w] \in {"idle", "insert"}
    BY DEF Uncallable
  <1>4. faults \in Int
    BY <1>2, BoundsAssumption
  <1>5. ASSUME NEW j \in Jobs, Enqueue(j) PROVE Counted(j)
    BY <1>1, <1>2, <1>3, <1>4, <1>5 DEF Enqueue, Fault, CountEffect, Holds
  <1>6. ASSUME NEW j \in Jobs, Start(j) PROVE Counted(j)
    BY <1>1, <1>2, <1>3, <1>4, <1>6 DEF Start, CountEffect, Holds
  <1>7. ASSUME NEW j \in Jobs, JobDies(j) PROVE Counted(j)
    BY <1>1, <1>2, <1>3, <1>4, <1>7 DEF JobDies, Fault, CountEffect, Holds
  <1>8. ASSUME NEW a \in Actors, InsertEvidence(a) PROVE Counted(a)
    BY <1>1, <1>2, <1>3, <1>4, <1>8 DEF InsertEvidence, CanInsert, CountEffect, Holds
  <1>9. ASSUME NEW a \in Actors, InsertAnswerLost(a) PROVE Counted(a)
    BY <1>1, <1>2, <1>3, <1>4, <1>9 DEF InsertAnswerLost, Fault, CountEffect, Holds
  <1>10. ASSUME NEW a \in Actors, InsertExhausted(a) PROVE Counted(a)
    BY <1>1, <1>2, <1>3, <1>4, <1>10 DEF InsertExhausted, Fault, CanInsert, CountEffect, Holds
  <1>11. ASSUME NEW a \in Actors, AppendLeaf(a) PROVE Counted(a)
    BY <1>1, <1>2, <1>3, <1>4, <1>11 DEF AppendLeaf, RunScript, Finish, CountEffect, Holds
  <1>12. ASSUME NEW a \in Actors, AppendError(a) PROVE Counted(a)
    BY <1>1, <1>2, <1>3, <1>4, <1>12 DEF AppendError, RunScript, Uncaught, Fault, CountEffect, Holds
  <1>13. ASSUME NEW a \in Actors, NumberBatch(a) PROVE Counted(a)
    BY <1>1, <1>2, <1>3, <1>4, <1>13 DEF NumberBatch, CountEffect, Holds
  <1>14. ASSUME NEW a \in Actors, NumberError(a) PROVE Counted(a)
    BY <1>1, <1>2, <1>3, <1>4, <1>14 DEF NumberError, Uncaught, Fault, CountEffect, Holds
  <1>15. ASSUME NEW a \in Actors, InsertAnchor(a) PROVE Counted(a)
    BY <1>1, <1>2, <1>3, <1>4, <1>15 DEF InsertAnchor, Finish, CanInsert, CountEffect, Holds
  <1>16. ASSUME NEW a \in Actors, AnchorExhausted(a) PROVE Counted(a)
    BY <1>1, <1>2, <1>3, <1>4, <1>16 DEF AnchorExhausted, Fault, CanInsert, CountEffect, Holds
  <1>17. ASSUME NEW j \in Jobs, Park(j) PROVE Counted(j)
    BY <1>1, <1>2, <1>3, <1>4, <1>17 DEF Park, CountEffect, Holds
  <1>18. ASSUME NEW j \in Jobs, ParkFallsBack(j) PROVE Counted(j)
    BY <1>1, <1>2, <1>3, <1>4, <1>18 DEF ParkFallsBack, Fault, CountEffect, Holds
  <1>19. ASSUME NEW j \in Jobs, DeadLetter(j) PROVE Counted(j)
    BY <1>1, <1>2, <1>3, <1>4, <1>19 DEF DeadLetter, CountEffect, Holds
  <1>20. ASSUME NEW j \in Jobs, DeadLetterError(j) PROVE Counted(j)
    BY <1>1, <1>2, <1>3, <1>4, <1>20 DEF DeadLetterError, Fault, CountEffect, Holds
  <1>21. ASSUME NEW w \in Replayers, FetchPending(w) PROVE Counted(w)
    BY <1>1, <1>2, <1>3, <1>4, <1>21 DEF FetchPending, CountEffect, Holds
  <1>22. ASSUME NEW w \in Replayers, MarkReplayed(w) PROVE Counted(w)
    BY <1>1, <1>2, <1>3, <1>4, <1>22 DEF MarkReplayed, NextRow, CountEffect, Holds
  <1>23. ASSUME NEW w \in Replayers, MarkReplayFailure(w) PROVE Counted(w)
    BY <1>1, <1>2, <1>3, <1>4, <1>23 DEF MarkReplayFailure, NextRow, CountEffect, Holds
  <1>24. ASSUME NEW w \in Replayers, ReplayDies(w) PROVE Counted(w)
    BY <1>1, <1>2, <1>3, <1>4, <1>24 DEF ReplayDies, Fault, TypeErrorAt, CanInsert, CountEffect, Holds
  <1> HIDE DEF Counted
  <1>25. \E a \in Actors : Counted(a)
    BY <1>1, <1>5, <1>6, <1>7, <1>8, <1>9, <1>10, <1>11, <1>12, <1>13, <1>14, <1>15, <1>16, <1>17, <1>18, <1>19, <1>20, <1>21, <1>22, <1>23, <1>24
    DEF Next, JobProgress, ReplayProgress, PathFault
  <1> QED
    BY <1>25 DEF Counted

LEMMA ActorsFinite == IsFiniteSet(Actors)
  BY ActorsAssumption, FS_Union DEF Actors

\* Who holds a batch after a step of a.
LEMMA HeldStep ==
    ASSUME NEW a \in Actors, \A b \in Actors : b # a => pc'[b] = pc[b]
    PROVE  /\ IsFiniteSet(Held) /\ IsFiniteSet(Held')
           /\ Cardinality(Held) \in Nat /\ Cardinality(Held') \in Nat
           /\ (Holds(pc'[a]) <=> Holds(pc[a])) => Cardinality(Held') = Cardinality(Held)
           /\ ~Holds(pc[a]) /\ Holds(pc'[a]) => Cardinality(Held') = Cardinality(Held) + 1
           /\ Holds(pc[a]) /\ ~Holds(pc'[a]) => Cardinality(Held') = Cardinality(Held) - 1
  <1>1. IsFiniteSet(Held) /\ IsFiniteSet(Held')
    BY ActorsFinite, FS_Subset DEF Held
  <1>2. Cardinality(Held) \in Nat /\ Cardinality(Held') \in Nat
    BY <1>1, FS_CardinalityType
  <1>3. ASSUME Holds(pc'[a]) <=> Holds(pc[a]) PROVE Held' = Held
    BY <1>3 DEF Held, Holds
  <1>4. ASSUME ~Holds(pc[a]), Holds(pc'[a]) PROVE Held' = Held \cup {a} /\ a \notin Held
    BY <1>4 DEF Held, Holds
  <1>5. ASSUME Holds(pc[a]), ~Holds(pc'[a]) PROVE Held' = Held \ {a} /\ a \in Held
    BY <1>5 DEF Held, Holds
  <1>6. ASSUME ~Holds(pc[a]), Holds(pc'[a]) PROVE Cardinality(Held') = Cardinality(Held) + 1
    BY <1>1, <1>4, <1>6, FS_AddElement
  <1>7. ASSUME Holds(pc[a]), ~Holds(pc'[a]) PROVE Cardinality(Held') = Cardinality(Held) - 1
    BY <1>1, <1>5, <1>7, FS_RemoveElement
  <1> QED
    BY <1>1, <1>2, <1>3, <1>6, <1>7

\* The anchors after a step of a.
LEMMA AnchorsStep ==
    ASSUME IsFiniteSet(anchors), NEW a \in Actors
    PROVE  /\ Cardinality(anchors) \in Nat
           /\ IsFiniteSet(anchors \cup {Anchor(a)})
           /\ Cardinality(anchors \cup {Anchor(a)}) \in Nat
           /\ Cardinality(anchors \cup {Anchor(a)}) >= Cardinality(anchors)
           /\ Anchor(a) \notin anchors =>
                Cardinality(anchors \cup {Anchor(a)}) = Cardinality(anchors) + 1
  <1>1. Cardinality(anchors) \in Nat
    BY FS_CardinalityType
  <1>2. /\ IsFiniteSet(anchors \cup {Anchor(a)})
        /\ \/ Cardinality(anchors \cup {Anchor(a)}) = Cardinality(anchors)
           \/ Cardinality(anchors \cup {Anchor(a)}) = Cardinality(anchors) + 1
        /\ Anchor(a) \notin anchors =>
             Cardinality(anchors \cup {Anchor(a)}) = Cardinality(anchors) + 1
    BY FS_AddElement
  <1> QED
    BY <1>1, <1>2

OrphanInv == OrphansCaused /\ Uncallable /\ IsFiniteSet(anchors)

LEMMA InitOrphan == Init => OrphanInv
  <1> SUFFICES ASSUME Init PROVE OrphanInv
    OBVIOUS
  <1>1. IsFiniteSet(anchors) /\ Cardinality(anchors) = 0
    BY FS_EmptySet DEF Init
  <1>2. Held = {}
    BY DEF Init, Held, Actors
  <1>3. Cardinality(Held) = 0
    BY <1>2, FS_EmptySet
  <1>4. Used = 0 /\ cuts = 0
    BY BoundsAssumption DEF Init, Used
  <1>5. Uncallable
    BY ActorsAssumption DEF Init, Uncallable, Actors
  <1> QED
    BY <1>1, <1>3, <1>4, <1>5 DEF OrphanInv, OrphansCaused

LEMMA NextOrphan ==
    TypeOK /\ TypeOK' /\ NumberInv /\ OrphanInv /\ [Next]_vars => OrphanInv'
  <1> SUFFICES ASSUME TypeOK, TypeOK', NumberInv, OrphanInv, [Next]_vars PROVE OrphanInv'
    OBVIOUS
  <1>1. CASE UNCHANGED vars
    <2>1. UNCHANGED <<cuts, anchors, pc, faults>>
      BY <1>1 DEF vars, batchVars
    <2>2. Held' = Held
      BY <2>1 DEF Held
    <2> QED
      BY <2>1, <2>2 DEF OrphanInv, OrphansCaused, Uncallable, Used
  <1>2. CASE Next
    <2>1. PICK a \in Actors :
            /\ CountEffect(a)
            /\ \A b \in Actors : b # a => pc'[b] = pc[b]
            /\ a \in Replayers /\ ~ToThreadCallable => pc'[a] \in {"idle", "insert"}
      BY <1>2, StepCount DEF OrphanInv
    <2>2. Uncallable'
      BY <2>1, ActorsAssumption DEF OrphanInv, Uncallable, Actors
    <2>3. IsFiniteSet(anchors')
      BY <2>1, AnchorsStep DEF CountEffect, OrphanInv
    <2> DEFINE h == Cardinality(Held)
               hh == Cardinality(Held')
               n == Cardinality(anchors)
               nn == Cardinality(anchors')
               one == Cardinality(anchors \cup {Anchor(a)})
    <2>4. /\ h \in Nat /\ hh \in Nat
          /\ (Holds(pc'[a]) <=> Holds(pc[a])) => hh = h
          /\ ~Holds(pc[a]) /\ Holds(pc'[a]) => hh = h + 1
          /\ Holds(pc[a]) /\ ~Holds(pc'[a]) => hh = h - 1
      BY <2>1, HeldStep
    <2>5. n \in Nat /\ one \in Nat /\ one >= n /\ (Anchor(a) \notin anchors => one = n + 1)
      BY AnchorsStep DEF OrphanInv
    <2>6. pc[a] = "anchor" => Anchor(a) \notin anchors
      BY DEF NumberInv, NumbersAreUnique, Anchor
    <2>7. cuts \in Nat /\ cuts' \in Nat /\ faults \in Int /\ faults' \in Int /\ MaxFaults \in Nat
      BY BoundsAssumption DEF TypeOK
    <2>8. cuts <= n + h + (MaxFaults - faults)
      BY DEF OrphanInv, OrphansCaused, Used
    <2>9. (anchors' = anchors => nn = n) /\ (anchors' = anchors \cup {Anchor(a)} => nn = one)
      OBVIOUS
    <2>10. pc[a] = "anchor" => Holds(pc[a])
      BY DEF Holds
    <2> HIDE DEF h, hh, n, nn, one
    <2>11. cuts' <= nn + hh + (MaxFaults - faults')
      BY <2>1, <2>4, <2>5, <2>6, <2>7, <2>8, <2>9, <2>10 DEF CountEffect
    <2>12. OrphansCaused'
      BY <2>11 DEF OrphansCaused, Used, nn, hh
    <2> QED
      BY <2>2, <2>3, <2>12 DEF OrphanInv
  <1> QED
    BY <1>1, <1>2

LEMMA OrphanInductive == Spec => []OrphanInv
  BY InitOrphan, NextOrphan, NumberInductive, TypeCorrect, PTL DEF Spec

\* A batch drawn from the list whose anchor is never written is owed to a
\* crash, an outage or a lost answer of its own, for any number of jobs and
\* replay workers: append_manifest_and_maybe_finalize draws a batch only for
\* a caller that goes on to number and anchor it.
THEOREM OrphansAlwaysCaused == Spec => []OrphansCaused
  BY OrphanInductive, PTL DEF OrphanInv

(***************************************************************************)
(* Rows.  One replay worker has its rows to itself: what it fetched stays  *)
(* pending until it comes to mark it, and no row is fetched twice at once. *)
(***************************************************************************)
OneReplayWorker == \A v, w \in Replayers : v = w

Sorted(ids) == \A k, l \in 1 .. Len(ids) : k < l => ids[k] < ids[l]

TodoInv ==
    \A w \in Replayers :
        /\ Sorted(todo[w])
        /\ \A k \in 1 .. Len(todo[w]) : rows[todo[w][k]].status = "pending"

\* A set of naturals has a least member.
LEMMA LeastMember ==
    ASSUME NEW S \in SUBSET Nat, S # {}
    PROVE  \E x \in S : \A y \in S : x <= y
  <1>1. PICK x \in S : \A y \in S : ~(<<y, x>> \in OpToRel(<, Nat))
    BY NatLessThanWellFounded, WFMin
  <1>2. \A y \in S : ~(y < x)
    BY <1>1 DEF OpToRel
  <1> QED
    BY <1>2

LEMMA LessThrough == \A a, b, c \in Nat : a < b /\ b < c => a < c
  OBVIOUS

\* Neighbours in order are all in order: the first entry out of order would
\* follow one that is in order.
LEMMA NeighboursSorted ==
    ASSUME NEW ids \in Seq(Nat), \A k \in 1 .. Len(ids) - 1 : ids[k] < ids[k + 1]
    PROVE  Sorted(ids)
  <1> SUFFICES ASSUME NEW k \in 1 .. Len(ids), NEW l \in 1 .. Len(ids), k < l, ~(ids[k] < ids[l])
               PROVE  FALSE
    BY DEF Sorted
  <1> DEFINE Wrong == {h \in 1 .. Len(ids) : k < h /\ ~(ids[k] < ids[h])}
  <1>1. Len(ids) \in Nat /\ l \in Wrong
    OBVIOUS
  <1>2. Wrong \in SUBSET Nat /\ Wrong # {}
    <2>1. 1 .. Len(ids) \subseteq Nat
      BY <1>1
    <2>2. Wrong \subseteq 1 .. Len(ids)
      OBVIOUS
    <2> HIDE DEF Wrong
    <2> QED
      BY <1>1, <2>1, <2>2
  <1>3. PICK h \in Wrong : \A g \in Wrong : h <= g
    BY <1>2, LeastMember
  <1>4. h \in 1 .. Len(ids) /\ k < h /\ ~(ids[k] < ids[h])
    BY <1>3
  <1>5. h - 1 \in 1 .. Len(ids) /\ h - 1 \in 1 .. Len(ids) - 1 /\ (h - 1) + 1 = h /\ ~(h <= h - 1)
    BY <1>1, <1>4
  <1>6. ids[h - 1] < ids[h] /\ h - 1 \notin Wrong
    BY <1>3, <1>5
  <1>7. ids[k] \in Nat /\ ids[h - 1] \in Nat /\ ids[h] \in Nat
    <2>1. \A i \in 1 .. Len(ids) : ids[i] \in Nat
      OBVIOUS
    <2> QED
      BY <1>4, <1>5, <2>1
  <1>8. CASE h - 1 = k
    BY <1>4, <1>6, <1>8
  <1>9. CASE h - 1 # k
    <2>1. k < h - 1
      BY <1>4, <1>5, <1>9
    <2>2. ids[k] < ids[h - 1]
      BY <1>5, <1>6, <2>1
    <2> QED
      BY <1>4, <1>6, <1>7, <2>2, LessThrough
  <1> QED
    BY <1>8, <1>9

\* The row in hand gets another status or count.
Marks(w) ==
    /\ pc[w] \in {"success", "failure"}
    /\ \E row \in Row : /\ row.manifest = rows[todo[w][1]].manifest
                        /\ pc[w] = "success" => row.status # "pending"
                        /\ rows' = [rows EXCEPT ![todo[w][1]] = row]

\* What a step does to the rows and to what is fetched of them.
RowsStep ==
    \/ /\ UNCHANGED todo
       /\ rows' = rows \/ \E m \in Manifests : rows' = Append(rows, NewRow(m))
    \/ \E w \in Replayers : FetchPending(w)
    \/ \E w \in Replayers :
          /\ pc[w] # "idle"
          /\ \/ todo' = [todo EXCEPT ![w] = <<>>] /\ (rows' = rows \/ Marks(w))
             \/ todo' = [todo EXCEPT ![w] = Tail(@)] /\ Marks(w)

LEMMA HeadType ==
    ASSUME TypeOK, NEW w \in Replayers, pc[w] # "idle"
    PROVE  /\ todo[w] \in Seq(1 .. Len(rows)) /\ Len(todo[w]) \in Nat /\ Len(todo[w]) >= 1
           /\ todo[w][1] \in 1 .. Len(rows) /\ rows[todo[w][1]] \in Row
  <1>1. todo[w] \in Seq(1 .. Len(rows)) /\ todo[w] # <<>> /\ rows \in Seq(Row)
    BY DEF TypeOK
  <1>2. Len(todo[w]) \in Nat /\ Len(todo[w]) >= 1
    BY <1>1
  <1>3. todo[w][1] \in 1 .. Len(rows)
    BY <1>1, <1>2
  <1> QED
    BY <1>1, <1>2, <1>3

\* Both marks keep the row's manifest.
LEMMA MarkedRows ==
    ASSUME TypeOK, NEW w \in Replayers,
           \/ pc[w] = "success" /\ rows' = [rows EXCEPT ![todo[w][1]].status = "replayed"]
           \/ pc[w] = "failure" /\ rows' = [rows EXCEPT ![todo[w][1]] = Failed(@)]
    PROVE  Marks(w)
  <1> DEFINE i == todo[w][1]
  <1>1. i \in 1 .. Len(rows) /\ rows[i] \in Row /\ rows \in Seq(Row)
    BY HeadType DEF TypeOK
  <1> HIDE DEF i
  <1>2. CASE pc[w] = "success" /\ rows' = [rows EXCEPT ![i].status = "replayed"]
    <2>1. PICK row : row = [rows[i] EXCEPT !.status = "replayed"]
      OBVIOUS
    <2>2. row \in Row /\ row.manifest = rows[i].manifest /\ row.status # "pending"
      BY <1>1, <2>1 DEF Row
    <2>3. rows' = [rows EXCEPT ![i] = row]
      BY <1>2, <2>1
    <2> QED
      BY <1>2, <2>2, <2>3 DEF Marks, i
  <1>3. CASE pc[w] = "failure" /\ rows' = [rows EXCEPT ![i] = Failed(@)]
    <2>1. PICK row : row = Failed(rows[i])
      OBVIOUS
    <2>2. row.manifest = rows[i].manifest
      BY <1>1, <2>1 DEF Row, Failed
    <2>3. row \in Row
      <3>1. [rows EXCEPT ![i] = Failed(@)] \in Seq(Row) /\ Len([rows EXCEPT ![i] = Failed(@)]) = Len(rows)
        BY <1>1, RowsType
      <3>2. [rows EXCEPT ![i] = Failed(@)][i] = row
        BY <1>1, <2>1
      <3> QED
        BY <1>1, <3>1, <3>2
    <2>4. rows' = [rows EXCEPT ![i] = row]
      BY <1>3, <2>1
    <2> QED
      BY <1>3, <2>2, <2>3, <2>4 DEF Marks, i
  <1> QED
    BY <1>2, <1>3 DEF i

LEMMA StepRows == TypeOK /\ [Next]_vars => RowsStep
  <1> SUFFICES ASSUME TypeOK, [Next]_vars PROVE RowsStep
    OBVIOUS
  <1> USE DEF batchVars, storeVars
  <1>1. CASE UNCHANGED vars
    BY <1>1 DEF vars, RowsStep
  <1>2. ASSUME NEW j \in Jobs,
               Enqueue(j) \/ Start(j) \/ JobDies(j) \/ DeadLetter(j) \/ DeadLetterError(j)
        PROVE  RowsStep
    BY <1>2 DEF Enqueue, Start, JobDies, DeadLetter, DeadLetterError, RowsStep
  <1>3. ASSUME NEW j \in Jobs, Park(j) \/ ParkFallsBack(j) PROVE RowsStep
    <2>1. ManifestOf[j] \in Manifests
      BY ActorsAssumption
    <2> QED
      BY <1>3, <2>1 DEF Park, ParkFallsBack, RowsStep
  <1>4. ASSUME NEW a \in Actors,
               \/ InsertEvidence(a) \/ InsertAnswerLost(a) \/ InsertExhausted(a) \/ AppendLeaf(a)
               \/ NumberBatch(a) \/ InsertAnchor(a) \/ AnchorExhausted(a)
        PROVE  RowsStep
    BY <1>4 DEF InsertEvidence, InsertAnswerLost, InsertExhausted, AppendLeaf, NumberBatch,
                InsertAnchor, AnchorExhausted, RowsStep
  <1>5. ASSUME NEW a \in Actors, AppendError(a) \/ NumberError(a) PROVE RowsStep
    <2>1. rows' = rows /\ Uncaught(a) /\ pc[a] # "idle"
      BY <1>5 DEF AppendError, NumberError
    <2>2. todo' = todo \/ (a \in Replayers /\ todo' = [todo EXCEPT ![a] = <<>>])
      BY <2>1, RolesDiffer DEF Uncaught
    <2> QED
      BY <2>1, <2>2 DEF RowsStep
  <1>6. ASSUME NEW w \in Replayers, MarkReplayed(w) \/ MarkReplayFailure(w) PROVE RowsStep
    <2>1. Marks(w)
      BY <1>6, MarkedRows DEF MarkReplayed, MarkReplayFailure
    <2>2. pc[w] # "idle" /\ todo' = [todo EXCEPT ![w] = Tail(@)]
      BY <1>6 DEF MarkReplayed, MarkReplayFailure, NextRow
    <2> QED
      BY <2>1, <2>2 DEF RowsStep
  <1>7. ASSUME NEW w \in Replayers, ReplayDies(w) PROVE RowsStep
    <2>1. rows' = rows \/ Marks(w)
      BY <1>7, MarkedRows DEF ReplayDies
    <2>2. pc[w] # "idle" /\ todo' = [todo EXCEPT ![w] = <<>>]
      BY <1>7 DEF ReplayDies
    <2> QED
      BY <2>1, <2>2 DEF RowsStep
  <1>8. ASSUME NEW w \in Replayers, FetchPending(w) PROVE RowsStep
    BY <1>8 DEF RowsStep
  <1>9. Jobs \subseteq Actors /\ Replayers \subseteq Actors
    BY DEF Actors
  <1> QED
    BY <1>1, <1>2, <1>3, <1>4, <1>5, <1>6, <1>7, <1>8, <1>9
    DEF Next, JobProgress, ReplayProgress, PathFault

\* Every other row is as it was.
LEMMA MarksOne ==
    ASSUME TypeOK, NEW w \in Replayers, Marks(w)
    PROVE  /\ Len(rows') = Len(rows) /\ rows'[todo[w][1]].manifest = rows[todo[w][1]].manifest
           /\ pc[w] = "success" => rows'[todo[w][1]].status # "pending"
           /\ \A i \in 1 .. Len(rows) : i # todo[w][1] => rows'[i] = rows[i]
  <1>1. rows \in Seq(Row) /\ todo[w][1] \in 1 .. Len(rows)
    BY HeadType DEF Marks, TypeOK
  <1> QED
    BY <1>1 DEF Marks

\* The rows a worker has left.
LEMMA TailEntries ==
    ASSUME NEW S, NEW q \in Seq(S), Len(q) >= 1
    PROVE  /\ Len(Tail(q)) = Len(q) - 1
           /\ \A k \in 1 .. Len(q) - 1 : Tail(q)[k] = q[k + 1]
  OBVIOUS

LEMMA FetchSorted ==
    ASSUME TypeOK, NEW w \in Replayers, FetchPending(w)
    PROVE  /\ rows' = rows /\ \A v \in Replayers : v # w => todo'[v] = todo[v]
           /\ Sorted(todo'[w]) /\ \A k \in 1 .. Len(todo'[w]) : todo'[w][k] \in Pending
  <1>1. PICK ids \in [1 .. FetchCount -> Pending] : Oldest(ids) /\ todo' = [todo EXCEPT ![w] = ids]
    BY DEF FetchPending
  <1>2. FetchCount \in Nat /\ Pending \subseteq Nat
    BY FetchType DEF FetchPending, Pending
  <1>3. ids \in Seq(Pending) /\ Len(ids) = FetchCount
    BY <1>1, <1>2
  <1>4. ids \in Seq(Nat)
    <2>1. ids \in [1 .. FetchCount -> Nat]
      BY <1>1, <1>2
    <2> QED
      BY <1>2, <2>1
  <1>5. Sorted(ids)
    BY <1>1, <1>4, NeighboursSorted DEF Oldest
  <1>6. todo'[w] = ids /\ \A v \in Replayers : v # w => todo'[v] = todo[v]
    BY <1>1 DEF TypeOK
  <1>7. \A k \in 1 .. Len(ids) : ids[k] \in Pending
    BY <1>1, <1>3
  <1>8. rows' = rows
    BY DEF FetchPending, storeVars
  <1> QED
    BY <1>5, <1>6, <1>7, <1>8

LEMMA NextTodo ==
    ASSUME OneReplayWorker, TypeOK, TypeOK', TodoInv, [Next]_vars
    PROVE  TodoInv'
  <1>1. CASE UNCHANGED todo /\ rows' = rows
    BY <1>1 DEF TodoInv, Sorted
  <1>2. ASSUME UNCHANGED todo, NEW m \in Manifests, rows' = Append(rows, NewRow(m)) PROVE TodoInv'
    <2>1. rows \in Seq(Row) /\ \A w \in Replayers : todo[w] \in Seq(1 .. Len(rows))
      BY DEF TypeOK
    <2>2. \A i \in 1 .. Len(rows) : rows'[i] = rows[i]
      BY <1>2, <2>1
    <2>3. \A w \in Replayers : \A k \in 1 .. Len(todo[w]) : todo[w][k] \in 1 .. Len(rows)
      BY <2>1
    <2> QED
      BY <1>2, <2>2, <2>3 DEF TodoInv, Sorted
  <1>3. ASSUME NEW w \in Replayers, FetchPending(w) PROVE TodoInv'
    <2>1. /\ rows' = rows /\ Sorted(todo'[w])
          /\ \A k \in 1 .. Len(todo'[w]) : todo'[w][k] \in Pending
      BY <1>3, FetchSorted
    <2>2. \A k \in 1 .. Len(todo'[w]) : rows'[todo'[w][k]].status = "pending"
      BY <2>1 DEF Pending
    <2>3. \A v \in Replayers : v = w
      BY DEF OneReplayWorker
    <2> QED
      BY <2>1, <2>2, <2>3 DEF TodoInv, Sorted
  <1>4. ASSUME NEW w \in Replayers, todo' = [todo EXCEPT ![w] = <<>>] PROVE TodoInv'
    <2>1. \A v \in Replayers : todo'[v] = <<>>
      BY <1>4 DEF TypeOK, OneReplayWorker
    <2> QED
      BY <2>1 DEF TodoInv, Sorted
  <1>5. ASSUME NEW w \in Replayers, pc[w] # "idle", todo' = [todo EXCEPT ![w] = Tail(@)], Marks(w)
        PROVE  TodoInv'
    <2>1. todo'[w] = Tail(todo[w]) /\ \A v \in Replayers : v = w
      BY <1>5 DEF TypeOK, OneReplayWorker
    <2> DEFINE q == todo[w]
               t == todo'[w]
    <2>2. q \in Seq(1 .. Len(rows)) /\ Len(q) \in Nat /\ Len(q) >= 1
      BY <1>5, HeadType
    <2>3. Len(t) = Len(q) - 1 /\ \A k \in 1 .. Len(q) - 1 : t[k] = q[k + 1]
      BY <2>1, <2>2, TailEntries
    <2>4. Sorted(q) /\ \A k \in 1 .. Len(q) : rows[q[k]].status = "pending"
      BY DEF TodoInv
    <2>5. /\ \A i \in 1 .. Len(rows) : i # q[1] => rows'[i] = rows[i]
      BY <1>5, MarksOne
    <2> HIDE DEF q, t
    <2>6. \A k \in 1 .. Len(q) - 1 : k + 1 \in 1 .. Len(q) /\ q[k + 1] \in 1 .. Len(rows) /\ q[1] < q[k + 1]
      BY <2>2, <2>4 DEF Sorted
    <2>7. \A k \in 1 .. Len(t) : rows'[t[k]].status = "pending"
      <3> SUFFICES ASSUME NEW k \in 1 .. Len(t) PROVE rows'[t[k]].status = "pending"
        OBVIOUS
      <3>1. k \in 1 .. Len(q) - 1 /\ t[k] = q[k + 1]
        BY <2>3
      <3>2. q[k + 1] # q[1] /\ q[k + 1] \in 1 .. Len(rows) /\ k + 1 \in 1 .. Len(q)
        BY <2>2, <2>6, <3>1
      <3> QED
        BY <2>4, <2>5, <3>1, <3>2
    <2>8. Sorted(t)
      <3> SUFFICES ASSUME NEW k \in 1 .. Len(t), NEW l \in 1 .. Len(t), k < l PROVE t[k] < t[l]
        BY DEF Sorted
      <3>1. k \in 1 .. Len(q) - 1 /\ l \in 1 .. Len(q) - 1
        BY <2>3
      <3>2. t[k] = q[k + 1] /\ t[l] = q[l + 1]
        BY <2>3, <3>1
      <3>3. k + 1 \in 1 .. Len(q) /\ l + 1 \in 1 .. Len(q) /\ k + 1 < l + 1
        BY <2>2, <3>1
      <3> QED
        BY <2>4, <3>2, <3>3 DEF Sorted
    <2> QED
      BY <2>1, <2>7, <2>8 DEF TodoInv, Sorted, t
  <1> QED
    BY <1>1, <1>2, <1>3, <1>4, <1>5, StepRows DEF RowsStep

LEMMA InitTodo == Init => TodoInv
  BY DEF Init, TodoInv, Sorted

LEMMA TodoAlways == OneReplayWorker => (Spec => [](TypeOK /\ TodoInv))
  <1> SUFFICES ASSUME OneReplayWorker PROVE Spec => [](TypeOK /\ TodoInv)
    OBVIOUS
  <1>1. TypeOK /\ TypeOK' /\ TodoInv /\ [Next]_vars => TodoInv'
    BY NextTodo
  <1> QED
    BY <1>1, InitTodo, TypeCorrect, PTL DEF Spec

\* A row that is replayed or abandoned is never touched again: the one replay
\* worker marks only rows it fetched while they were pending and has not marked
\* since.  (With two workers, one may count a failure on a row the other marked
\* replayed.)
THEOREM SettledRowsAlwaysStay == OneReplayWorker => (Spec => SettledRowsStay)
  <1> SUFFICES ASSUME OneReplayWorker PROVE Spec => SettledRowsStay
    OBVIOUS
  <1>1. TypeOK /\ TodoInv /\ [Next]_vars =>
            \A i \in 1 .. Len(rows) : rows[i].status # "pending" => rows'[i] = rows[i]
    <2> SUFFICES ASSUME TypeOK, TodoInv, [Next]_vars, NEW i \in 1 .. Len(rows), rows[i].status # "pending"
                 PROVE  rows'[i] = rows[i]
      OBVIOUS
    <2>1. ASSUME NEW m \in Manifests, rows' = Append(rows, NewRow(m)) PROVE rows'[i] = rows[i]
      BY <2>1 DEF TypeOK
    <2>2. ASSUME NEW w \in Replayers, Marks(w) PROVE rows'[i] = rows[i]
      <3>1. Len(todo[w]) \in Nat /\ Len(todo[w]) >= 1
        BY <2>2, HeadType DEF Marks
      <3>2. rows[todo[w][1]].status = "pending"
        BY <3>1 DEF TodoInv
      <3> QED
        BY <2>2, <3>2, MarksOne
    <2>3. ASSUME NEW w \in Replayers, FetchPending(w) PROVE rows' = rows
      BY <2>3 DEF FetchPending, storeVars
    <2> QED
      BY <2>1, <2>2, <2>3, StepRows DEF RowsStep
  <1> QED
    BY <1>1, TodoAlways, PTL DEF Spec, SettledRowsStay

(***************************************************************************)
(* Repetitions.  A manifest may be stored once more by each of its jobs    *)
(* before the insert and by each of its pending rows that no worker has    *)
(* past it, and by the first job that may still be enqueued; appended      *)
(* likewise.  Only a fault adds to what it has had and may still have.     *)
(***************************************************************************)
ToStore == {"queued", "insert", "park"}
ToAppend == {"queued", "insert", "append", "park"}
PastStore == {"append", "number", "anchor", "success"}
PastAppend == {"number", "anchor", "success"}

Waiting(m, P) == {j \in Jobs : ManifestOf[j] = m /\ pc[j] \in P}
Parked(m, Q) ==
    {i \in 1 .. Len(rows) :
        /\ rows[i].manifest = m /\ rows[i].status = "pending"
        /\ ~\E w \in Replayers : pc[w] \in Q /\ todo[w][1] = i}
Fresh(m) == IF \A j \in Jobs : ManifestOf[j] = m => pc[j] = "absent" THEN 1 ELSE 0
Afforded(m, n, P, Q) ==
    n + Cardinality(Waiting(m, P)) + Cardinality(Parked(m, Q)) + Fresh(m) <= 1 + Used

RepeatInv ==
    \A m \in Manifests : /\ Afforded(m, evidence[m], ToStore, PastStore)
                         /\ Afforded(m, appends[m], ToAppend, PastAppend)

\* Jobs that ended in an exception, or were run before and will be run again.
Failing == {j \in Jobs : pc[j] = "failed" \/ (pc[j] = "queued" /\ tries[j] > 0)}
FailInv ==
    /\ Cardinality(Failing) <= Used
    /\ \A j \in Jobs : pc[j] = "absent" => tries[j] = 0

One(b) == IF b THEN 1 ELSE 0

\* A set that at most x joins or leaves.
LEMMA OneMoves ==
    ASSUME NEW R, NEW S, NEW x, IsFiniteSet(R), \A y : y # x => (y \in S => y \in R)
    PROVE  /\ IsFiniteSet(S) /\ Cardinality(S) \in Nat /\ Cardinality(R) \in Nat
           /\ Cardinality(S) <= Cardinality(R) + One(x \in S) - One(x \in R)
  <1>1. Cardinality(R) \in Nat
    BY FS_CardinalityType
  <1>2. PICK T : T = R \ {x}
    OBVIOUS
  <1>3. IsFiniteSet(T) /\ Cardinality(T) \in Nat /\ Cardinality(T) = Cardinality(R) - One(x \in R)
    <2>1. CASE x \in R
      BY <1>1, <1>2, <2>1, FS_RemoveElement, FS_CardinalityType DEF One
    <2>2. CASE x \notin R
      <3>1. T = R
        BY <1>2, <2>2
      <3> QED
        BY <1>1, <2>2, <3>1 DEF One
    <2> QED
      BY <2>1, <2>2
  <1>4. CASE x \in S
    <2>1. x \notin T /\ S \subseteq T \cup {x}
      BY <1>2
    <2>2. IsFiniteSet(T \cup {x}) /\ Cardinality(T \cup {x}) = Cardinality(T) + 1
      BY <1>3, <2>1, FS_AddElement
    <2>3. IsFiniteSet(S) /\ Cardinality(S) <= Cardinality(T \cup {x}) /\ Cardinality(S) \in Nat
      BY <2>1, <2>2, FS_Subset, FS_CardinalityType
    <2>4. One(x \in S) = 1 /\ One(x \in R) \in {0, 1}
      BY <1>4 DEF One
    <2> QED
      BY <1>1, <1>3, <2>2, <2>3, <2>4
  <1>5. CASE x \notin S
    <2>1. S \subseteq T
      BY <1>2, <1>5
    <2>2. IsFiniteSet(S) /\ Cardinality(S) <= Cardinality(T) /\ Cardinality(S) \in Nat
      BY <1>3, <2>1, FS_Subset, FS_CardinalityType
    <2>3. One(x \in S) = 0 /\ One(x \in R) \in {0, 1}
      BY <1>5 DEF One
    <2> QED
      BY <1>1, <1>3, <2>2, <2>3
  <1> QED
    BY <1>4, <1>5

\* What a job's step is charged with: what it did, what it may still do, the
\* row it leaves, against what it might have done and the fault it is owed to.
Charged(n, nn, here, there) ==
    nn + One(there) + One(rows' # rows) + faults' <= n + One(here) + faults

JobTurn(j) ==
    /\ \A b \in Actors : b # j => pc'[b] = pc[b]
    /\ todo' = todo /\ (rows' = rows \/ rows' = Append(rows, NewRow(ManifestOf[j])))
    /\ pc[j] # "absent" /\ pc'[j] # "absent" /\ faults' <= faults
    /\ \A m \in Manifests \ {ManifestOf[j]} : evidence'[m] = evidence[m] /\ appends'[m] = appends[m]
    /\ Charged(evidence[ManifestOf[j]], evidence'[ManifestOf[j]], pc[j] \in ToStore, pc'[j] \in ToStore)
    /\ Charged(appends[ManifestOf[j]], appends'[ManifestOf[j]], pc[j] \in ToAppend, pc'[j] \in ToAppend)

\* The same for a replay worker, whose row in hand waits for it in Parked.
Borne(n, nn, here, there) == nn + One(here) + faults' <= n + One(there) + faults

ReplayTurn(w) ==
    /\ \A b \in Actors : b # w => pc'[b] = pc[b]
    /\ faults' <= faults
    /\ \/ /\ pc[w] = "idle" /\ pc'[w] = "insert" /\ UNCHANGED <<rows, evidence, appends>>
       \/ /\ Marks(w) /\ pc'[w] \in {"idle", "insert"} /\ UNCHANGED <<evidence, appends>>
       \/ /\ pc[w] # "idle" /\ rows' = rows /\ (todo' = todo \/ pc'[w] = "idle")
          /\ \A m \in Manifests \ {ManifestAt(w)} : evidence'[m] = evidence[m] /\ appends'[m] = appends[m]
          /\ Borne(evidence[ManifestAt(w)], evidence'[ManifestAt(w)], pc[w] \in PastStore, pc'[w] \in PastStore)
          /\ Borne(appends[ManifestAt(w)], appends'[ManifestAt(w)], pc[w] \in PastAppend, pc'[w] \in PastAppend)

LEMMA JobTurns ==
    ASSUME TypeOK, NEW j \in Jobs,
           \/ JobProgress(j) \/ JobDies(j) \/ ParkFallsBack(j) \/ DeadLetterError(j) \/ PathFault(j)
    PROVE  JobTurn(j)
  <1> DEFINE k == ManifestOf[j]
  <1>1. j \in Actors /\ k \in Manifests /\ ManifestAt(j) = k
    BY ActorsAssumption DEF Actors, ManifestAt
  <1>2. /\ pc \in [Actors -> JobPC \cup ReplayPC] /\ faults \in Int
        /\ evidence \in [Manifests -> Nat] /\ appends \in [Manifests -> Nat]
    BY BoundsAssumption DEF TypeOK
  <1>3. evidence[k] \in Nat /\ appends[k] \in Nat
    BY <1>1, <1>2
  <1>4. rows # Append(rows, NewRow(k))
    <2>1. rows \in Seq(Row) /\ NewRow(k) \in Row
      BY <1>1 DEF TypeOK, NewRow, Row
    <2>2. Len(Append(rows, NewRow(k))) = Len(rows) + 1 /\ Len(rows) \in Nat
      BY <2>1
    <2> QED
      BY <2>2
  <1> HIDE DEF k
  <1> USE DEF batchVars, storeVars, Goto, Fault, ToStore, ToAppend, Charged, One
  <1>5. ASSUME Start(j) PROVE JobTurn(j)
    BY <1>1, <1>2, <1>3, <1>5 DEF Start, JobTurn, k
  <1>6. ASSUME JobDies(j) PROVE JobTurn(j)
    BY <1>1, <1>2, <1>3, <1>6 DEF JobDies, JobTurn, k
  <1>7. ASSUME InsertEvidence(j) PROVE JobTurn(j)
    BY <1>1, <1>2, <1>3, <1>7 DEF InsertEvidence, JobTurn, k
  <1>8. ASSUME InsertAnswerLost(j) PROVE JobTurn(j)
    BY <1>1, <1>2, <1>3, <1>8 DEF InsertAnswerLost, JobTurn, k
  <1>9. ASSUME InsertExhausted(j) PROVE JobTurn(j)
    BY <1>1, <1>2, <1>3, <1>9 DEF InsertExhausted, JobTurn, k
  <1>10. ASSUME AppendLeaf(j) PROVE JobTurn(j)
    BY <1>1, <1>2, <1>3, <1>10 DEF AppendLeaf, RunScript, Finish, JobTurn, k
  <1>11. ASSUME AppendError(j) PROVE JobTurn(j)
    BY <1>1, <1>2, <1>3, <1>11 DEF AppendError, RunScript, Uncaught, JobTurn, k
  <1>12. ASSUME NumberBatch(j) \/ NumberError(j) PROVE JobTurn(j)
    BY <1>1, <1>2, <1>3, <1>12 DEF NumberBatch, NumberError, Uncaught, JobTurn, k
  <1>13. ASSUME InsertAnchor(j) \/ AnchorExhausted(j) PROVE JobTurn(j)
    BY <1>1, <1>2, <1>3, <1>13 DEF InsertAnchor, AnchorExhausted, Finish, JobTurn, k
  <1>14. ASSUME Park(j) PROVE JobTurn(j)
    BY <1>1, <1>2, <1>3, <1>4, <1>14 DEF Park, JobTurn, k
  <1>15. ASSUME ParkFallsBack(j) PROVE JobTurn(j)
    BY <1>1, <1>2, <1>3, <1>4, <1>15 DEF ParkFallsBack, JobTurn, k
  <1>16. ASSUME DeadLetter(j) \/ DeadLetterError(j) PROVE JobTurn(j)
    BY <1>1, <1>2, <1>3, <1>16 DEF DeadLetter, DeadLetterError, JobTurn, k
  <1> QED
    BY <1>5, <1>6, <1>7, <1>8, <1>9, <1>10, <1>11, <1>12, <1>13, <1>14, <1>15, <1>16
    DEF JobProgress, PathFault

LEMMA ReplayTurns ==
    ASSUME TypeOK, Uncallable, NEW w \in Replayers,
           ReplayProgress(w) \/ ReplayDies(w) \/ PathFault(w)
    PROVE  ReplayTurn(w)
  <1> DEFINE k == ManifestAt(w)
  <1>1. w \in Actors /\ w \notin Jobs /\ (pc[w] # "idle" => k \in Manifests)
    BY ActorsAssumption, ManifestAtType DEF Actors
  <1>2. /\ pc \in [Actors -> JobPC \cup ReplayPC] /\ faults \in Int
        /\ evidence \in [Manifests -> Nat] /\ appends \in [Manifests -> Nat]
    BY BoundsAssumption DEF TypeOK
  <1>3. pc[w] # "idle" => evidence[k] \in Nat /\ appends[k] \in Nat
    BY <1>1, <1>2
  <1> HIDE DEF k
  <1> USE DEF batchVars, storeVars, Goto, Fault, PastStore, PastAppend, Borne, One
  <1>4. ASSUME FetchPending(w) PROVE ReplayTurn(w)
    BY <1>1, <1>2, <1>4 DEF FetchPending, ReplayTurn
  <1>5. ASSUME InsertEvidence(w) PROVE ReplayTurn(w)
    BY <1>1, <1>2, <1>3, <1>5 DEF InsertEvidence, ReplayTurn, k
  <1>6. ASSUME InsertAnswerLost(w) PROVE ReplayTurn(w)
    BY <1>1, <1>2, <1>3, <1>6 DEF InsertAnswerLost, ReplayTurn, k
  <1>7. ASSUME InsertExhausted(w) PROVE ReplayTurn(w)
    BY <1>1, <1>2, <1>3, <1>7 DEF InsertExhausted, ReplayTurn, k
  <1>8. ASSUME AppendLeaf(w) PROVE ReplayTurn(w)
    BY <1>1, <1>2, <1>3, <1>8 DEF AppendLeaf, RunScript, Finish, ReplayTurn, k
  <1>9. ASSUME AppendError(w) PROVE ReplayTurn(w)
    BY <1>1, <1>2, <1>3, <1>9 DEF AppendError, RunScript, Uncaught, ReplayTurn, k
  <1>10. ASSUME NumberBatch(w) \/ NumberError(w) PROVE ReplayTurn(w)
    BY <1>1, <1>2, <1>3, <1>10 DEF NumberBatch, NumberError, Uncaught, ReplayTurn, k
  <1>11. ASSUME InsertAnchor(w) \/ AnchorExhausted(w) PROVE ReplayTurn(w)
    BY <1>1, <1>2, <1>3, <1>11 DEF InsertAnchor, AnchorExhausted, Finish, ReplayTurn, k
  <1>12. ASSUME MarkReplayed(w) \/ MarkReplayFailure(w) PROVE ReplayTurn(w)
    <2>1. Marks(w)
      BY <1>12, MarkedRows DEF MarkReplayed, MarkReplayFailure
    <2> QED
      BY <1>1, <1>2, <1>12, <2>1 DEF MarkReplayed, MarkReplayFailure, NextRow, ReplayTurn
  \* The TypeError strikes before anything is stored.
  <1>13. ASSUME ReplayDies(w) PROVE ReplayTurn(w)
    <2>1. rows' = rows \/ Marks(w)
      BY <1>13, MarkedRows DEF ReplayDies
    <2>2. faults' = faults - 1 \/ (faults' = faults /\ pc[w] = "insert")
      BY <1>13 DEF ReplayDies, TypeErrorAt, CanInsert, Uncallable
    <2>3. /\ pc[w] # "idle" /\ pc' = [pc EXCEPT ![w] = "idle"] /\ UNCHANGED <<evidence, appends>>
      BY <1>13 DEF ReplayDies
    <2> QED
      BY <1>1, <1>2, <1>3, <2>1, <2>2, <2>3 DEF ReplayTurn, k
  <1> QED
    BY <1>4, <1>5, <1>6, <1>7, <1>8, <1>9, <1>10, <1>11, <1>12, <1>13 DEF ReplayProgress, PathFault

LEMMA CountsFinite ==
    ASSUME TypeOK, NEW m, NEW P, NEW Q
    PROVE  /\ IsFiniteSet(Waiting(m, P)) /\ Cardinality(Waiting(m, P)) \in Nat
           /\ IsFiniteSet(Parked(m, Q)) /\ Cardinality(Parked(m, Q)) \in Nat
  <1>1. IsFiniteSet(Waiting(m, P))
    BY ActorsAssumption, FS_Subset DEF Waiting
  <1>2. Len(rows) \in Nat /\ IsFiniteSet(1 .. Len(rows))
    BY FS_Interval DEF TypeOK
  <1>3. IsFiniteSet(Parked(m, Q))
    BY <1>2, FS_Subset DEF Parked
  <1> QED
    BY <1>1, <1>3, FS_CardinalityType

\* The jobs of m in P after a step of j.
LEMMA WaitingMoves ==
    ASSUME TypeOK, NEW m, NEW P, NEW j \in Jobs, \A b \in Jobs : b # j => pc'[b] = pc[b]
    PROVE  /\ Cardinality(Waiting(m, P)') \in Nat
           /\ Cardinality(Waiting(m, P)') <= Cardinality(Waiting(m, P))
                + One(ManifestOf[j] = m /\ pc'[j] \in P) - One(ManifestOf[j] = m /\ pc[j] \in P)
  <1>1. PICK S : S = Waiting(m, P)'
    OBVIOUS
  <1>2. \A y : y # j => (y \in S => y \in Waiting(m, P))
    BY <1>1 DEF Waiting
  <1>3. /\ j \in S <=> ManifestOf[j] = m /\ pc'[j] \in P
        /\ j \in Waiting(m, P) <=> ManifestOf[j] = m /\ pc[j] \in P
    BY <1>1 DEF Waiting
  <1>4. /\ One(j \in S) = One(ManifestOf[j] = m /\ pc'[j] \in P)
        /\ One(j \in Waiting(m, P)) = One(ManifestOf[j] = m /\ pc[j] \in P)
    BY <1>3 DEF One
  <1>5. /\ Cardinality(S) \in Nat
        /\ Cardinality(S) <= Cardinality(Waiting(m, P)) + One(j \in S) - One(j \in Waiting(m, P))
    BY <1>2, CountsFinite, OneMoves
  <1> QED
    BY <1>1, <1>4, <1>5

\* No job moves.
LEMMA WaitingStays ==
    ASSUME NEW m, NEW P, \A b \in Jobs : pc'[b] = pc[b]
    PROVE  Waiting(m, P)' = Waiting(m, P) /\ Fresh(m)' = Fresh(m)
  BY DEF Waiting, Fresh

\* The rows of m that are to be replayed after a step of a job.
LEMMA ParkedMoves ==
    ASSUME TypeOK, NEW m, NEW Q, NEW k \in Manifests, todo' = todo, \A w \in Replayers : pc'[w] = pc[w],
           rows' = rows \/ rows' = Append(rows, NewRow(k))
    PROVE  /\ Cardinality(Parked(m, Q)') \in Nat
           /\ Cardinality(Parked(m, Q)') <= Cardinality(Parked(m, Q)) + One(k = m /\ rows' # rows)
  <1>1. IsFiniteSet(Parked(m, Q)) /\ Cardinality(Parked(m, Q)) \in Nat
    BY CountsFinite
  <1>2. CASE rows' = rows
    <2>1. Parked(m, Q)' = Parked(m, Q)
      BY <1>2 DEF Parked
    <2> QED
      BY <1>1, <1>2, <2>1 DEF One
  <1>3. CASE rows' # rows
    <2>1. rows \in Seq(Row) /\ Len(rows) \in Nat /\ NewRow(k) \in Row /\ NewRow(k).manifest = k
      BY DEF TypeOK, NewRow, Row
    <2>2. /\ Len(rows') = Len(rows) + 1 /\ \A i \in 1 .. Len(rows) : rows'[i] = rows[i]
          /\ rows'[Len(rows) + 1] = NewRow(k)
      BY <1>3, <2>1
    <2>3. PICK S : S = Parked(m, Q)'
      OBVIOUS
    <2>4. \A y : y # Len(rows) + 1 => (y \in S => y \in Parked(m, Q))
      BY <2>1, <2>2, <2>3 DEF Parked
    <2>5. (Len(rows) + 1 \in S => k = m) /\ Len(rows) + 1 \notin Parked(m, Q)
      BY <2>1, <2>2, <2>3 DEF Parked
    <2>6. One(Len(rows) + 1 \in S) <= One(k = m /\ rows' # rows) /\ One(Len(rows) + 1 \in Parked(m, Q)) = 0
      BY <1>3, <2>5 DEF One
    <2>7. One(Len(rows) + 1 \in S) \in Nat /\ One(k = m /\ rows' # rows) \in Nat
      BY DEF One
    <2>8. /\ Cardinality(S) \in Nat
          /\ Cardinality(S) <= Cardinality(Parked(m, Q)) + One(Len(rows) + 1 \in S) - One(Len(rows) + 1 \in Parked(m, Q))
      BY <1>1, <2>4, OneMoves
    <2>9. Cardinality(S) <= Cardinality(Parked(m, Q)) + One(k = m /\ rows' # rows)
      BY <1>1, <2>6, <2>7, <2>8
    <2> QED
      BY <2>3, <2>8, <2>9
  <1> QED
    BY <1>2, <1>3

\* The same after a step of the replay worker on the row in hand.
LEMMA ParkedTurns ==
    ASSUME OneReplayWorker, TypeOK, TodoInv, NEW m, NEW Q, NEW w \in Replayers, pc[w] # "idle",
           rows' = rows, todo' = todo \/ pc'[w] \notin Q
    PROVE  /\ Cardinality(Parked(m, Q)') \in Nat
           /\ Cardinality(Parked(m, Q)') <= Cardinality(Parked(m, Q))
                + One(ManifestAt(w) = m /\ pc[w] \in Q) - One(ManifestAt(w) = m /\ pc'[w] \in Q)
  <1>1. IsFiniteSet(Parked(m, Q)) /\ Cardinality(Parked(m, Q)) \in Nat
    BY CountsFinite
  <1>2. PICK x : x = todo[w][1]
    OBVIOUS
  <1>3. x \in 1 .. Len(rows) /\ rows[x].status = "pending" /\ rows[x].manifest = ManifestAt(w)
    <2>1. Len(todo[w]) \in Nat /\ Len(todo[w]) >= 1 /\ x \in 1 .. Len(rows)
      BY <1>2, HeadType
    <2>2. rows[todo[w][1]].status = "pending"
      BY <2>1 DEF TodoInv
    <2>3. w \notin Jobs
      BY ActorsAssumption
    <2> QED
      BY <1>2, <2>1, <2>2, <2>3 DEF ManifestAt
  <1>4. \A v \in Replayers : v = w
    BY DEF OneReplayWorker
  <1>5. PICK S : S = Parked(m, Q)'
    OBVIOUS
  <1>6. \A y : y # x => (y \in S => y \in Parked(m, Q))
    BY <1>2, <1>4, <1>5 DEF Parked
  <1>7. /\ x \in S <=> ManifestAt(w) = m /\ pc'[w] \notin Q
        /\ x \in Parked(m, Q) <=> ManifestAt(w) = m /\ pc[w] \notin Q
    BY <1>2, <1>3, <1>4, <1>5 DEF Parked
  <1>8. One(x \in S) - One(x \in Parked(m, Q))
          = One(ManifestAt(w) = m /\ pc[w] \in Q) - One(ManifestAt(w) = m /\ pc'[w] \in Q)
    BY <1>7 DEF One
  <1>9. /\ Cardinality(S) \in Nat
        /\ Cardinality(S) <= Cardinality(Parked(m, Q)) + One(x \in S) - One(x \in Parked(m, Q))
    BY <1>1, <1>6, OneMoves
  <1>10. /\ One(x \in S) \in Int /\ One(x \in Parked(m, Q)) \in Int
         /\ One(ManifestAt(w) = m /\ pc[w] \in Q) \in Int /\ One(ManifestAt(w) = m /\ pc'[w] \in Q) \in Int
    BY DEF One
  <1>11. Cardinality(S) <= Cardinality(Parked(m, Q))
            + One(ManifestAt(w) = m /\ pc[w] \in Q) - One(ManifestAt(w) = m /\ pc'[w] \in Q)
    BY <1>1, <1>8, <1>9, <1>10
  <1> QED
    BY <1>5, <1>9, <1>11

\* A mark takes a row off, or leaves it to be replayed once more; a poll does
\* not change what there is to replay.
LEMMA ParkedMarked ==
    ASSUME OneReplayWorker, TypeOK, TodoInv, NEW m, NEW Q, NEW w \in Replayers,
           "success" \in Q, "failure" \notin Q, pc'[w] \notin Q,
           Marks(w) \/ (rows' = rows /\ pc[w] \notin Q)
    PROVE  Cardinality(Parked(m, Q)') \in Nat /\ Cardinality(Parked(m, Q)') <= Cardinality(Parked(m, Q))
  <1>1. IsFiniteSet(Parked(m, Q)) /\ Cardinality(Parked(m, Q)) \in Nat
    BY CountsFinite
  <1>2. PICK S : S = Parked(m, Q)'
    OBVIOUS
  <1>3. \A v \in Replayers : v = w
    BY DEF OneReplayWorker
  <1>4. CASE rows' = rows /\ pc[w] \notin Q
    BY <1>1, <1>2, <1>3, <1>4, FS_Subset DEF Parked
  <1>5. CASE Marks(w)
    <2>1. PICK x : x = todo[w][1]
      OBVIOUS
    <2>2. Len(todo[w]) \in Nat /\ Len(todo[w]) >= 1 /\ x \in 1 .. Len(rows)
      BY <1>5, <2>1, HeadType DEF Marks
    <2>3. rows[x].status = "pending"
      BY <2>1, <2>2 DEF TodoInv
    <2>4. /\ Len(rows') = Len(rows) /\ rows'[x].manifest = rows[x].manifest
          /\ pc[w] = "success" => rows'[x].status # "pending"
          /\ \A i \in 1 .. Len(rows) : i # x => rows'[i] = rows[i]
      BY <1>5, <2>1, MarksOne
    <2>5. pc[w] = "success" \/ pc[w] = "failure"
      BY <1>5 DEF Marks
    <2>6. \A y : y # x => (y \in S => y \in Parked(m, Q))
      BY <1>2, <1>3, <2>1, <2>4 DEF Parked
    <2>7. x \in S => x \in Parked(m, Q)
      BY <1>2, <1>3, <2>1, <2>2, <2>3, <2>4, <2>5 DEF Parked
    <2>8. S \subseteq Parked(m, Q)
      BY <2>6, <2>7
    <2> QED
      BY <1>1, <1>2, <2>8, FS_Subset, FS_CardinalityType
  <1> QED
    BY <1>4, <1>5

\* The sum of a step of a job.
LEMMA JobAffords ==
    ASSUME TypeOK, TypeOK', NEW j \in Jobs, NEW m \in Manifests, NEW P, NEW Q, NEW n \in Nat, NEW nn \in Nat,
           JobTurn(j), Afforded(m, n, P, Q),
           IF ManifestOf[j] = m THEN Charged(n, nn, pc[j] \in P, pc'[j] \in P) ELSE nn = n
    PROVE  nn + Cardinality(Waiting(m, P)') + Cardinality(Parked(m, Q)') + Fresh(m)' <= 1 + Used'
  <1>1. j \in Actors /\ ManifestOf[j] \in Manifests /\ Jobs \subseteq Actors /\ Replayers \subseteq Actors
        /\ \A w \in Replayers : w # j
    BY ActorsAssumption DEF Actors
  <1>2. Fresh(m)' = Fresh(m) /\ Fresh(m) \in Nat
    BY <1>1 DEF JobTurn, Fresh
  <1>3. /\ Cardinality(Waiting(m, P)') \in Nat
        /\ Cardinality(Waiting(m, P)') <= Cardinality(Waiting(m, P))
             + One(ManifestOf[j] = m /\ pc'[j] \in P) - One(ManifestOf[j] = m /\ pc[j] \in P)
    BY <1>1, WaitingMoves DEF JobTurn
  <1>4. /\ Cardinality(Parked(m, Q)') \in Nat
        /\ Cardinality(Parked(m, Q)') <= Cardinality(Parked(m, Q)) + One(ManifestOf[j] = m /\ rows' # rows)
    <2>1. /\ todo' = todo /\ \A w \in Replayers : pc'[w] = pc[w]
          /\ rows' = rows \/ rows' = Append(rows, NewRow(ManifestOf[j]))
      BY <1>1 DEF JobTurn
    <2> QED
      BY <1>1, <2>1, ParkedMoves
  <1>5. Cardinality(Waiting(m, P)) \in Nat /\ Cardinality(Parked(m, Q)) \in Nat
    BY CountsFinite
  <1>6. MaxFaults \in Int /\ faults \in Int /\ faults' \in Int /\ faults' <= faults
    BY FaultsInt DEF JobTurn
  <1>7. n + Cardinality(Waiting(m, P)) + Cardinality(Parked(m, Q)) + Fresh(m) <= 1 + (MaxFaults - faults)
    BY DEF Afforded, Used
  <1>8. nn + Cardinality(Waiting(m, P)') + Cardinality(Parked(m, Q)') + Fresh(m)' <= 1 + (MaxFaults - faults')
    <2>1. CASE ManifestOf[j] = m
      <3>1. nn + One(pc'[j] \in P) + One(rows' # rows) + faults' <= n + One(pc[j] \in P) + faults
        BY <2>1 DEF Charged
      <3>2. /\ Cardinality(Waiting(m, P)') <= Cardinality(Waiting(m, P)) + One(pc'[j] \in P) - One(pc[j] \in P)
            /\ Cardinality(Parked(m, Q)') <= Cardinality(Parked(m, Q)) + One(rows' # rows)
        BY <1>3, <1>4, <2>1 DEF One
      <3>3. One(pc'[j] \in P) \in Nat /\ One(rows' # rows) \in Nat /\ One(pc[j] \in P) \in Nat
        BY DEF One
      <3> QED
        BY <1>2, <1>3, <1>4, <1>5, <1>6, <1>7, <3>1, <3>2, <3>3
    <2>2. CASE ManifestOf[j] # m
      <3>1. /\ Cardinality(Waiting(m, P)') <= Cardinality(Waiting(m, P))
            /\ Cardinality(Parked(m, Q)') <= Cardinality(Parked(m, Q))
        BY <1>3, <1>4, <1>5, <2>2 DEF One
      <3>2. nn = n
        BY <2>2
      <3> QED
        BY <1>2, <1>3, <1>4, <1>5, <1>6, <1>7, <3>1, <3>2
    <2> QED
      BY <2>1, <2>2
  <1> QED
    BY <1>8 DEF Used

\* With c jobs waiting and a credit x that the step leaves alone.
SumMoves(n, nn, c, p, pp, x, f, g) ==
    n + c + p + x <= 1 + (MaxFaults - f) /\ nn + pp + g <= n + p + f => nn + c + pp + x <= 1 + (MaxFaults - g)

LEMMA SumAlwaysMoves ==
    ASSUME MaxFaults \in Int, NEW n \in Nat, NEW nn \in Nat, NEW c \in Nat, NEW p \in Nat, NEW pp \in Nat,
           NEW x \in Nat, NEW f \in Int, NEW g \in Int
    PROVE  SumMoves(n, nn, c, p, pp, x, f, g)
  BY DEF SumMoves

\* The sum of a step of the replay worker.
LEMMA ReplayAffords ==
    ASSUME OneReplayWorker, TypeOK, TypeOK', TodoInv, NEW w \in Replayers, NEW m \in Manifests, NEW P, NEW Q,
           NEW n \in Nat, NEW nn \in Nat, Afforded(m, n, P, Q), faults' <= faults,
           \A b \in Actors : b # w => pc'[b] = pc[b],
           "success" \in Q, {"idle", "insert", "failure"} \cap Q = {},
           \/ pc[w] = "idle" /\ pc'[w] = "insert" /\ rows' = rows /\ nn = n
           \/ Marks(w) /\ pc'[w] \in {"idle", "insert"} /\ nn = n
           \/ /\ pc[w] # "idle" /\ rows' = rows /\ (todo' = todo \/ pc'[w] = "idle")
              /\ IF ManifestAt(w) = m THEN Borne(n, nn, pc[w] \in Q, pc'[w] \in Q) ELSE nn = n
    PROVE  nn + Cardinality(Waiting(m, P)') + Cardinality(Parked(m, Q)') + Fresh(m)' <= 1 + Used'
  <1>1. \A b \in Jobs : pc'[b] = pc[b]
    BY ActorsAssumption DEF Actors
  <1>2. Waiting(m, P)' = Waiting(m, P) /\ Fresh(m)' = Fresh(m) /\ Fresh(m) \in Nat
    BY <1>1, WaitingStays DEF Fresh
  <1>3. Cardinality(Waiting(m, P)) \in Nat /\ Cardinality(Parked(m, Q)) \in Nat
    BY CountsFinite
  <1>4. MaxFaults \in Int /\ faults \in Int /\ faults' \in Int
    BY FaultsInt
  <1>5. n + Cardinality(Waiting(m, P)) + Cardinality(Parked(m, Q)) + Fresh(m) <= 1 + (MaxFaults - faults)
    BY DEF Afforded, Used
  <1>6. /\ Cardinality(Parked(m, Q)') \in Nat
        /\ nn + Cardinality(Parked(m, Q)') + faults' <= n + Cardinality(Parked(m, Q)) + faults
    <2>1. CASE \/ pc[w] = "idle" /\ pc'[w] = "insert" /\ rows' = rows /\ nn = n
               \/ Marks(w) /\ pc'[w] \in {"idle", "insert"} /\ nn = n
      <3>1. Cardinality(Parked(m, Q)') \in Nat /\ Cardinality(Parked(m, Q)') <= Cardinality(Parked(m, Q))
        BY <2>1, ParkedMarked
      <3>2. nn = n
        BY <2>1
      <3> QED
        BY <1>3, <1>4, <3>1, <3>2
    <2>2. CASE /\ pc[w] # "idle" /\ rows' = rows /\ (todo' = todo \/ pc'[w] = "idle")
               /\ IF ManifestAt(w) = m THEN Borne(n, nn, pc[w] \in Q, pc'[w] \in Q) ELSE nn = n
      <3>1. todo' = todo \/ pc'[w] \notin Q
        BY <2>2
      <3>2. /\ Cardinality(Parked(m, Q)') \in Nat
            /\ Cardinality(Parked(m, Q)') <= Cardinality(Parked(m, Q))
                 + One(ManifestAt(w) = m /\ pc[w] \in Q) - One(ManifestAt(w) = m /\ pc'[w] \in Q)
        BY <2>2, <3>1, ParkedTurns
      <3>3. CASE ManifestAt(w) = m
        <4>1. nn + One(pc[w] \in Q) + faults' <= n + One(pc'[w] \in Q) + faults
          BY <2>2, <3>3 DEF Borne
        <4>2. Cardinality(Parked(m, Q)') <= Cardinality(Parked(m, Q)) + One(pc[w] \in Q) - One(pc'[w] \in Q)
          BY <3>2, <3>3 DEF One
        <4>3. One(pc[w] \in Q) \in Nat /\ One(pc'[w] \in Q) \in Nat
          BY DEF One
        <4> QED
          BY <1>3, <1>4, <3>2, <4>1, <4>2, <4>3
      <3>4. CASE ManifestAt(w) # m
        <4>1. Cardinality(Parked(m, Q)') <= Cardinality(Parked(m, Q)) /\ nn = n
          BY <1>3, <2>2, <3>2, <3>4 DEF One
        <4> QED
          BY <1>3, <1>4, <3>2, <4>1
      <3> QED
        BY <3>3, <3>4
    <2> QED
      BY <2>1, <2>2
  <1>7. nn + Cardinality(Waiting(m, P)) + Cardinality(Parked(m, Q)') + Fresh(m) <= 1 + (MaxFaults - faults')
    <2>1. SumMoves(n, nn, Cardinality(Waiting(m, P)), Cardinality(Parked(m, Q)), Cardinality(Parked(m, Q)'),
                   Fresh(m), faults, faults')
      BY <1>2, <1>3, <1>4, <1>6, SumAlwaysMoves
    <2> QED
      BY <1>5, <1>6, <2>1 DEF SumMoves
  <1> QED
    BY <1>2, <1>7 DEF Used

\* A new job: the first of its manifest uses up Fresh, a further one is a fault.
LEMMA EnqueueAffords ==
    ASSUME TypeOK, TypeOK', NEW j \in Jobs, Enqueue(j), NEW m \in Manifests, NEW P, NEW Q, NEW n \in Nat,
           "absent" \notin P, Afforded(m, n, P, Q)
    PROVE  n + Cardinality(Waiting(m, P)') + Cardinality(Parked(m, Q)') + Fresh(m)' <= 1 + Used'
  <1>1. j \in Actors /\ Jobs \subseteq Actors /\ Replayers \subseteq Actors /\ \A w \in Replayers : w # j
    BY ActorsAssumption DEF Actors
  <1>2. /\ pc[j] = "absent" /\ pc'[j] = "queued" /\ \A b \in Actors : b # j => pc'[b] = pc[b]
        /\ todo' = todo /\ rows' = rows
    BY <1>1 DEF Enqueue, Goto, TypeOK, storeVars
  <1>3. Parked(m, Q)' = Parked(m, Q)
    BY <1>1, <1>2 DEF Parked
  <1>4. /\ Cardinality(Waiting(m, P)') \in Nat
        /\ Cardinality(Waiting(m, P)') <= Cardinality(Waiting(m, P))
             + One(ManifestOf[j] = m /\ pc'[j] \in P) - One(ManifestOf[j] = m /\ pc[j] \in P)
    BY <1>1, <1>2, WaitingMoves
  <1>5. Cardinality(Waiting(m, P)) \in Nat /\ Cardinality(Parked(m, Q)) \in Nat
    BY CountsFinite
  <1>6. Cardinality(Waiting(m, P)') <= Cardinality(Waiting(m, P)) + One(ManifestOf[j] = m)
    BY <1>2, <1>4, <1>5 DEF One
  <1>7. MaxFaults \in Int /\ faults \in Int /\ faults' \in Int
    BY FaultsInt
  <1>8. n + Cardinality(Waiting(m, P)) + Cardinality(Parked(m, Q)) + Fresh(m) <= 1 + (MaxFaults - faults)
    BY DEF Afforded, Used
  <1>9. One(ManifestOf[j] = m) + Fresh(m)' + faults' <= Fresh(m) + faults
    <2>1. CASE ManifestOf[j] # m
      <3>1. Fresh(m)' = Fresh(m) /\ Fresh(m) \in Nat
        BY <1>1, <1>2, <2>1 DEF Fresh
      <3>2. faults' <= faults
        BY <1>7 DEF Enqueue, Fault
      <3> QED
        BY <1>7, <2>1, <3>1, <3>2 DEF One
    <2>2. CASE ManifestOf[j] = m /\ \E i \in Jobs : i # j /\ ManifestOf[i] = ManifestOf[j] /\ pc[i] # "absent"
      <3>1. Fresh(m)' = 0 /\ Fresh(m) = 0
        BY <1>2, <2>2 DEF Fresh
      <3>2. faults' = faults - 1
        BY <2>2 DEF Enqueue, Fault
      <3> QED
        BY <1>7, <2>2, <3>1, <3>2 DEF One
    <2>3. CASE ManifestOf[j] = m /\ ~\E i \in Jobs : i # j /\ ManifestOf[i] = ManifestOf[j] /\ pc[i] # "absent"
      <3>1. Fresh(m)' = 0 /\ Fresh(m) = 1
        BY <1>2, <2>3 DEF Fresh
      <3>2. faults' = faults
        BY <2>3 DEF Enqueue
      <3> QED
        BY <1>7, <2>3, <3>1, <3>2 DEF One
    <2> QED
      BY <2>1, <2>2, <2>3
  <1>10. Fresh(m) \in Nat /\ Fresh(m)' \in Nat /\ One(ManifestOf[j] = m) \in Nat
    BY DEF Fresh, One
  <1>11. n + Cardinality(Waiting(m, P)') + Cardinality(Parked(m, Q)) + Fresh(m)' <= 1 + (MaxFaults - faults')
    BY <1>4, <1>5, <1>6, <1>7, <1>8, <1>9, <1>10
  <1> QED
    BY <1>3, <1>11 DEF Used

LEMMA StepActor ==
    ASSUME Next
    PROVE  \/ \E j \in Jobs : Enqueue(j)
           \/ \E j \in Jobs : \/ JobProgress(j) \/ JobDies(j) \/ ParkFallsBack(j) \/ DeadLetterError(j)
                              \/ PathFault(j)
           \/ \E w \in Replayers : ReplayProgress(w) \/ ReplayDies(w) \/ PathFault(w)
  BY RolesDiffer DEF Next

LEMMA NextRepeat ==
    ASSUME OneReplayWorker, TypeOK, TypeOK', TodoInv, Uncallable, RepeatInv, [Next]_vars
    PROVE  RepeatInv'
  <1> SUFFICES ASSUME NEW m \in Manifests
               PROVE  /\ Afforded(m, evidence[m], ToStore, PastStore)'
                      /\ Afforded(m, appends[m], ToAppend, PastAppend)'
    BY DEF RepeatInv
  <1>1. Afforded(m, evidence[m], ToStore, PastStore) /\ Afforded(m, appends[m], ToAppend, PastAppend)
    BY DEF RepeatInv
  <1>2. evidence[m] \in Nat /\ evidence'[m] \in Nat /\ appends[m] \in Nat /\ appends'[m] \in Nat
    BY DEF TypeOK
  <1>3. ASSUME UNCHANGED vars
        PROVE  /\ Afforded(m, evidence[m], ToStore, PastStore)'
               /\ Afforded(m, appends[m], ToAppend, PastAppend)'
    BY <1>1, <1>3 DEF vars, batchVars, storeVars, Afforded, Waiting, Parked, Fresh, Used, ToStore, ToAppend,
                      PastStore, PastAppend
  <1>4. /\ "absent" \notin ToStore /\ "absent" \notin ToAppend
        /\ "success" \in PastStore /\ "success" \in PastAppend
        /\ {"idle", "insert", "failure"} \cap PastStore = {} /\ {"idle", "insert", "failure"} \cap PastAppend = {}
    BY DEF ToStore, ToAppend, PastStore, PastAppend
  <1>5. ASSUME NEW j \in Jobs, Enqueue(j)
        PROVE  /\ Afforded(m, evidence[m], ToStore, PastStore)'
               /\ Afforded(m, appends[m], ToAppend, PastAppend)'
    <2>1. evidence'[m] = evidence[m] /\ appends'[m] = appends[m]
      BY <1>5 DEF Enqueue, batchVars, storeVars
    <2>2. /\ evidence[m] + Cardinality(Waiting(m, ToStore)') + Cardinality(Parked(m, PastStore)') + Fresh(m)'
               <= 1 + Used'
          /\ appends[m] + Cardinality(Waiting(m, ToAppend)') + Cardinality(Parked(m, PastAppend)') + Fresh(m)'
               <= 1 + Used'
      BY <1>1, <1>2, <1>4, <1>5, EnqueueAffords
    <2> QED
      BY <2>1, <2>2 DEF Afforded
  <1>6. ASSUME NEW j \in Jobs, JobTurn(j)
        PROVE  /\ Afforded(m, evidence[m], ToStore, PastStore)'
               /\ Afforded(m, appends[m], ToAppend, PastAppend)'
    <2>1. /\ IF ManifestOf[j] = m THEN Charged(evidence[m], evidence'[m], pc[j] \in ToStore, pc'[j] \in ToStore)
                                  ELSE evidence'[m] = evidence[m]
          /\ IF ManifestOf[j] = m THEN Charged(appends[m], appends'[m], pc[j] \in ToAppend, pc'[j] \in ToAppend)
                                  ELSE appends'[m] = appends[m]
      BY <1>6 DEF JobTurn
    <2>2. evidence'[m] + Cardinality(Waiting(m, ToStore)') + Cardinality(Parked(m, PastStore)') + Fresh(m)' <= 1 + Used'
      BY <1>1, <1>2, <1>6, <2>1, JobAffords
    <2>3. appends'[m] + Cardinality(Waiting(m, ToAppend)') + Cardinality(Parked(m, PastAppend)') + Fresh(m)' <= 1 + Used'
      BY <1>1, <1>2, <1>6, <2>1, JobAffords
    <2> QED
      BY <2>2, <2>3 DEF Afforded
  <1>7. ASSUME NEW w \in Replayers, ReplayTurn(w)
        PROVE  /\ Afforded(m, evidence[m], ToStore, PastStore)'
               /\ Afforded(m, appends[m], ToAppend, PastAppend)'
    <2>1. faults' <= faults /\ \A b \in Actors : b # w => pc'[b] = pc[b]
      BY <1>7 DEF ReplayTurn
    <2>2. \/ pc[w] = "idle" /\ pc'[w] = "insert" /\ rows' = rows /\ evidence'[m] = evidence[m]
          \/ Marks(w) /\ pc'[w] \in {"idle", "insert"} /\ evidence'[m] = evidence[m]
          \/ /\ pc[w] # "idle" /\ rows' = rows /\ (todo' = todo \/ pc'[w] = "idle")
             /\ IF ManifestAt(w) = m THEN Borne(evidence[m], evidence'[m], pc[w] \in PastStore, pc'[w] \in PastStore)
                                     ELSE evidence'[m] = evidence[m]
      BY <1>7 DEF ReplayTurn
    <2>3. \/ pc[w] = "idle" /\ pc'[w] = "insert" /\ rows' = rows /\ appends'[m] = appends[m]
          \/ Marks(w) /\ pc'[w] \in {"idle", "insert"} /\ appends'[m] = appends[m]
          \/ /\ pc[w] # "idle" /\ rows' = rows /\ (todo' = todo \/ pc'[w] = "idle")
             /\ IF ManifestAt(w) = m THEN Borne(appends[m], appends'[m], pc[w] \in PastAppend, pc'[w] \in PastAppend)
                                     ELSE appends'[m] = appends[m]
      BY <1>7 DEF ReplayTurn
    <2>4. evidence'[m] + Cardinality(Waiting(m, ToStore)') + Cardinality(Parked(m, PastStore)') + Fresh(m)' <= 1 + Used'
      BY <1>1, <1>2, <1>4, <2>1, <2>2, ReplayAffords
    <2>5. appends'[m] + Cardinality(Waiting(m, ToAppend)') + Cardinality(Parked(m, PastAppend)') + Fresh(m)' <= 1 + Used'
      BY <1>1, <1>2, <1>4, <2>1, <2>3, ReplayAffords
    <2> QED
      BY <2>4, <2>5 DEF Afforded
  <1> QED
    BY <1>3, <1>5, <1>6, <1>7, StepActor, JobTurns, ReplayTurns

LEMMA InitRepeat == Init => RepeatInv
  <1> SUFFICES ASSUME Init, NEW m \in Manifests, NEW P, NEW Q, "absent" \notin P PROVE Afforded(m, 0, P, Q)
    BY DEF Init, RepeatInv, ToStore, ToAppend
  <1>1. Waiting(m, P) = {}
    BY DEF Init, Waiting, Actors
  <1>2. Parked(m, Q) = {}
    BY DEF Init, Parked
  <1>3. Fresh(m) = 1 /\ Used = 0
    BY BoundsAssumption DEF Init, Fresh, Actors, Used
  <1>4. Cardinality(Waiting(m, P)) = 0 /\ Cardinality(Parked(m, Q)) = 0
    BY <1>1, <1>2, FS_EmptySet
  <1> QED
    BY <1>3, <1>4 DEF Afforded

\* A job joins the failing ones by a fault.
FailTurn(j) ==
    /\ \A b \in Jobs : b # j => pc'[b] = pc[b] /\ tries'[b] = tries[b]
    /\ pc'[j] # "absent" /\ faults' <= faults
    /\ One(pc'[j] = "failed" \/ (pc'[j] = "queued" /\ tries'[j] > 0)) + faults'
         <= One(pc[j] = "failed" \/ (pc[j] = "queued" /\ tries[j] > 0)) + faults

LEMMA StepFails ==
    ASSUME TypeOK, FailInv, Next
    PROVE  \/ \E j \in Jobs : FailTurn(j)
           \/ (\A b \in Jobs : pc'[b] = pc[b] /\ tries'[b] = tries[b]) /\ faults' <= faults
  <1>1. /\ pc \in [Actors -> JobPC \cup ReplayPC] /\ tries \in [Jobs -> 0 .. MaxTries] /\ Jobs \subseteq Actors
        /\ faults \in Int /\ MaxTries \in Nat /\ MaxTries > 0
    BY BoundsAssumption DEF TypeOK, Actors
  <1> USE DEF Goto, Fault
  <1>2. ASSUME NEW j \in Jobs, Enqueue(j) PROVE FailTurn(j)
    BY <1>1, <1>2 DEF Enqueue, FailTurn, FailInv, One
  <1>3. ASSUME NEW j \in Jobs, Start(j) PROVE FailTurn(j)
    BY <1>1, <1>3 DEF Start, FailTurn, One
  <1>4. ASSUME NEW j \in Jobs, JobDies(j) PROVE FailTurn(j)
    BY <1>1, <1>4 DEF JobDies, FailTurn, One
  <1>5. ASSUME NEW j \in Jobs,
               \/ InsertEvidence(j) \/ InsertExhausted(j) \/ AppendLeaf(j) \/ NumberBatch(j) \/ InsertAnchor(j)
               \/ Park(j) \/ ParkFallsBack(j) \/ DeadLetter(j) \/ InsertAnswerLost(j)
        PROVE  FailTurn(j)
    <2>1. /\ \A b \in Jobs : b # j => pc'[b] = pc[b]
          /\ pc'[j] \notin {"absent", "queued", "failed"} /\ tries' = tries
      BY <1>1, <1>5 DEF InsertEvidence, InsertExhausted, AppendLeaf, Finish, NumberBatch, InsertAnchor, Park,
                        ParkFallsBack, DeadLetter, InsertAnswerLost
    <2>2. faults' \in {faults, faults - 1}
      BY <1>5 DEF InsertEvidence, InsertExhausted, AppendLeaf, NumberBatch, InsertAnchor, Park,
                  ParkFallsBack, DeadLetter, InsertAnswerLost
    <2>3. ~(pc'[j] = "failed" \/ (pc'[j] = "queued" /\ tries'[j] > 0)) /\ pc'[j] # "absent"
      BY <2>1
    <2>4. faults' <= faults /\ faults' \in Int
      BY <1>1, <2>2
    <2>5. \A b \in Jobs : b # j => pc'[b] = pc[b] /\ tries'[b] = tries[b]
      BY <2>1
    <2>6. /\ One(pc'[j] = "failed" \/ (pc'[j] = "queued" /\ tries'[j] > 0)) = 0
          /\ One(pc[j] = "failed" \/ (pc[j] = "queued" /\ tries[j] > 0)) \in {0, 1}
      BY <2>3 DEF One
    <2>7. faults \in Int /\ faults' \in Int /\ faults' <= faults
      BY <1>1, <2>4
    <2>8. \A x, y \in Int : x <= y => 0 + x <= 0 + y /\ 0 + x <= 1 + y
      OBVIOUS
    <2>9. One(pc'[j] = "failed" \/ (pc'[j] = "queued" /\ tries'[j] > 0)) + faults'
            <= One(pc[j] = "failed" \/ (pc[j] = "queued" /\ tries[j] > 0)) + faults
      BY <2>6, <2>7, <2>8
    <2> QED
      BY <2>3, <2>4, <2>5, <2>9 DEF FailTurn
  <1>6. ASSUME NEW j \in Jobs, AppendError(j) \/ NumberError(j) \/ AnchorExhausted(j) \/ DeadLetterError(j)
        PROVE  FailTurn(j)
    <2>1. pc' = [pc EXCEPT ![j] = "failed"] /\ tries' = tries /\ faults' = faults - 1
      BY <1>6 DEF AppendError, NumberError, Uncaught, AnchorExhausted, DeadLetterError
    <2> QED
      BY <1>1, <2>1 DEF FailTurn, One
  <1>7. ASSUME NEW w \in Replayers, ReplayProgress(w) \/ ReplayDies(w) \/ PathFault(w)
        PROVE  (\A b \in Jobs : pc'[b] = pc[b] /\ tries'[b] = tries[b]) /\ faults' <= faults
    <2>1. tries' = tries /\ faults' \in {faults, faults - 1}
      BY <1>7 DEF ReplayProgress, ReplayDies, PathFault, FetchPending, InsertEvidence, InsertExhausted, AppendLeaf,
                  NumberBatch, InsertAnchor, MarkReplayed, MarkReplayFailure, InsertAnswerLost, AppendError,
                  NumberError, AnchorExhausted
    <2>2. pc' = pc \/ \E step : pc' = [pc EXCEPT ![w] = step]
      BY <1>7 DEF ReplayProgress, ReplayDies, PathFault, FetchPending, InsertEvidence, InsertExhausted, AppendLeaf,
                  NumberBatch, InsertAnchor, MarkReplayed, MarkReplayFailure, InsertAnswerLost, AppendError,
                  NumberError, AnchorExhausted, Finish, Uncaught, NextRow
    <2>3. \A b \in Jobs : b # w
      BY ActorsAssumption
    <2> QED
      BY <1>1, <2>1, <2>2, <2>3
  <1> QED
    BY <1>2, <1>3, <1>4, <1>5, <1>6, <1>7, StepActor DEF JobProgress, PathFault

LEMMA FailsWithin ==
    ASSUME NEW c \in Nat, NEW d \in Nat, NEW a \in Int, NEW b \in Int, NEW f \in Int, NEW g \in Int,
           NEW n \in Int, d <= n - f, c <= d + a - b, a + g <= b + f
    PROVE  c <= n - g
  OBVIOUS

LEMMA NextFails ==
    ASSUME TypeOK, TypeOK', FailInv, [Next]_vars
    PROVE  FailInv'
  <1>1. /\ IsFiniteSet(Failing) /\ Cardinality(Failing) \in Nat /\ faults \in Int /\ faults' \in Int
        /\ MaxFaults \in Int
    <2>1. IsFiniteSet(Failing)
      BY ActorsAssumption, FS_Subset DEF Failing
    <2> QED
      BY <2>1, FS_CardinalityType, FaultsInt
  <1>2. Cardinality(Failing) <= MaxFaults - faults
    BY DEF FailInv, Used
  <1>3. ASSUME \A b \in Jobs : pc'[b] = pc[b] /\ tries'[b] = tries[b], faults' <= faults
        PROVE  FailInv'
    <2>1. Failing' = Failing
      BY <1>3 DEF Failing
    <2>2. Cardinality(Failing) <= MaxFaults - faults'
      BY <1>1, <1>2, <1>3
    <2>3. \A b \in Jobs : pc'[b] = "absent" => tries'[b] = 0
      BY <1>3 DEF FailInv
    <2> QED
      BY <2>1, <2>2, <2>3 DEF FailInv, Used
  <1>4. ASSUME NEW j \in Jobs, FailTurn(j) PROVE FailInv'
    <2>1. PICK S : S = Failing'
      OBVIOUS
    <2>2. \A y : y # j => (y \in S => y \in Failing)
      BY <1>4, <2>1 DEF Failing, FailTurn
    <2>3. /\ Cardinality(S) \in Nat
          /\ Cardinality(S) <= Cardinality(Failing) + One(j \in S) - One(j \in Failing)
      BY <1>1, <2>2, OneMoves
    <2>4. /\ One(j \in S) = One(pc'[j] = "failed" \/ (pc'[j] = "queued" /\ tries'[j] > 0))
          /\ One(j \in Failing) = One(pc[j] = "failed" \/ (pc[j] = "queued" /\ tries[j] > 0))
      BY <2>1 DEF One, Failing
    <2>5. One(j \in S) + faults' <= One(j \in Failing) + faults
      BY <1>4, <2>4 DEF FailTurn
    <2>6. PICK a, b : a = One(j \in S) /\ b = One(j \in Failing)
      OBVIOUS
    <2>7. a \in {0, 1} /\ b \in {0, 1}
      BY <2>6 DEF One
    <2>8. a + faults' <= b + faults /\ Cardinality(S) <= Cardinality(Failing) + a - b
      BY <2>3, <2>5, <2>6
    <2>9. Cardinality(S) <= MaxFaults - faults'
      <3>1. PICK c, d : c = Cardinality(S) /\ d = Cardinality(Failing)
        OBVIOUS
      <3>2. c \in Nat /\ d \in Nat /\ d <= MaxFaults - faults /\ c <= d + a - b
        BY <1>1, <1>2, <2>3, <2>8, <3>1
      <3>3. faults \in Int /\ faults' \in Int /\ MaxFaults \in Int
        BY <1>1
      <3>4. a \in Int /\ b \in Int /\ a + faults' <= b + faults
        BY <2>7, <2>8
      <3>5. c <= MaxFaults - faults'
        BY <3>2, <3>3, <3>4, FailsWithin
      <3> QED
        BY <3>1, <3>5
    <2>10. \A b1 \in Jobs : pc'[b1] = "absent" => tries'[b1] = 0
      BY <1>4 DEF FailInv, FailTurn
    <2> QED
      BY <2>1, <2>9, <2>10 DEF FailInv, Used
  <1>5. CASE UNCHANGED vars
    BY <1>1, <1>3, <1>5 DEF vars, batchVars, storeVars
  <1>6. CASE Next
    BY <1>3, <1>4, <1>6, StepFails
  <1> QED
    BY <1>5, <1>6

LEMMA InitFails == Init => FailInv
  <1> SUFFICES ASSUME Init PROVE FailInv
    OBVIOUS
  <1>1. Failing = {}
    BY DEF Init, Failing, Actors
  <1>2. Cardinality(Failing) = 0
    BY <1>1, FS_EmptySet
  <1> QED
    BY <1>2, BoundsAssumption DEF Init, FailInv, Used, Actors

LEMMA RepeatImplies ==
    ASSUME TypeOK, RepeatInv, FailInv
    PROVE  RepetitionsCaused
  <1>1. ASSUME NEW m \in Manifests, NEW n \in Nat, NEW P, NEW Q, Afforded(m, n, P, Q) PROVE n <= 1 + Used
    <2>1. Fresh(m) \in Nat /\ Used \in Int
      BY BoundsAssumption DEF Fresh, TypeOK, Used
    <2>2. Cardinality(Waiting(m, P)) \in Nat /\ Cardinality(Parked(m, Q)) \in Nat
      BY CountsFinite
    <2>3. n + Cardinality(Waiting(m, P)) + Cardinality(Parked(m, Q)) + Fresh(m) <= 1 + Used
      BY <1>1 DEF Afforded
    <2> QED
      BY <2>1, <2>2, <2>3
  <1>2. ASSUME NEW m \in Manifests PROVE evidence[m] <= 1 + Used /\ appends[m] <= 1 + Used
    <2>1. evidence[m] \in Nat /\ appends[m] \in Nat
      BY DEF TypeOK
    <2>2. Afforded(m, evidence[m], ToStore, PastStore) /\ Afforded(m, appends[m], ToAppend, PastAppend)
      BY DEF RepeatInv
    <2> QED
      BY <1>1, <2>1, <2>2
  <1>3. Cardinality({j \in Jobs : pc[j] = "failed"}) <= Used
    <2>1. PICK S : S = {j \in Jobs : pc[j] = "failed"}
      OBVIOUS
    <2>2. S \subseteq Failing /\ IsFiniteSet(Failing)
      BY <2>1, ActorsAssumption, FS_Subset DEF Failing
    <2>3. Cardinality(S) \in Nat /\ Cardinality(Failing) \in Nat /\ Cardinality(S) <= Cardinality(Failing)
      BY <2>2, FS_Subset, FS_CardinalityType
    <2>4. Cardinality(Failing) <= Used /\ Used \in Int
      BY BoundsAssumption DEF FailInv, TypeOK, Used
    <2> QED
      BY <2>1, <2>3, <2>4
  <1> QED
    BY <1>2, <1>3 DEF RepetitionsCaused

\* Neither evidence_manifests nor the batch list repeats a manifest without a
\* fault to answer for the copy, and no job ends in an exception without one:
\* of a manifest's rows, of its leaves and of the failed jobs there are never
\* more than the faults of the run (plus the one row, the one leaf) explain.
\* One replay worker is assumed, as in the docstring of fetch_pending_batch ("Intended
\* for a single replay worker (no row-level lock)"): two may fetch the same row
\* and store it once each, with a single fault behind them.
THEOREM RepetitionsAlwaysCaused == OneReplayWorker => (Spec => []RepetitionsCaused)
  <1> SUFFICES ASSUME OneReplayWorker PROVE Spec => []RepetitionsCaused
    OBVIOUS
  <1>1. TypeOK /\ TypeOK' /\ TodoInv /\ OrphanInv /\ RepeatInv /\ [Next]_vars => RepeatInv'
    BY NextRepeat DEF OrphanInv
  <1>2. TypeOK /\ TypeOK' /\ FailInv /\ [Next]_vars => FailInv'
    BY NextFails
  <1>3. Spec => [](TypeOK /\ TodoInv)
    BY TodoAlways
  <1>4. Spec => []RepeatInv
    BY <1>1, <1>3, InitRepeat, OrphanInductive, PTL DEF Spec
  <1>5. Spec => []FailInv
    BY <1>2, InitFails, TypeCorrect, PTL DEF Spec
  <1>6. TypeOK /\ RepeatInv /\ FailInv => RepetitionsCaused
    BY RepeatImplies
  <1> QED
    BY <1>4, <1>5, <1>6, TypeCorrect, PTL
==============================================================================
