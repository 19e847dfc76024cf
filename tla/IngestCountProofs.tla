------------------------- MODULE IngestCountProofs --------------------------
(***************************************************************************)
(* What EventIngest does once: the publications under an idempotency key   *)
(* and the commits of a message, each further one owed to a fault.  Both   *)
(* are counted against what may still happen without one.                  *)
(***************************************************************************)
EXTENDS IngestProofs, FiniteSetTheorems

\* Most leaves are first-order: Zenon is asked before SMT.
USE Zenon, SMT

(***************************************************************************)
(* Keys.  A call that has arrived and not been answered may publish.  What *)
(* a key is still good for without a fault: nothing when it is not cached  *)
(* and no call is under way, since the call that arrives next pays for     *)
(* itself; one more when it is cached or a call is under way; and two when *)
(* it is cached and a call is yet to look, since that call will not        *)
(* publish.                                                                *)
(***************************************************************************)
Active(k) == {r \in Requests : Key[r] = k /\ req[r] \in {"check", "publish"}}
Looking(k) == \E r \in Requests : Key[r] = k /\ req[r] = "check"
Reach(k) == Publishers(k) \cup Active(k)
Credit(k) ==
    IF cache[k] = "none" /\ Active(k) = {} THEN 0
    ELSE IF cache[k] # "none" /\ Looking(k) THEN 2 ELSE 1

KeyInv ==
    RedisConfigured =>
        \A k \in Keys : IsFiniteSet(Reach(k)) /\ Cardinality(Reach(k)) <= Used + Credit(k)

\* A call that has not passed its look at the key has published nothing.
FreshInv ==
    \A r \in Requests : req[r] \in {"new", "check"} => \A m \in Body[r] : stream[m] = "absent"

\* What a step does to the calls, the cache and what is published.
Elsewhere ==
    /\ UNCHANGED <<req, cache>> /\ faults' \in {faults, faults - 1}
    /\ \A r \in Requests : \A m \in Body[r] : stream'[m] = "absent" <=> stream[m] = "absent"

Arrives(r) ==
    /\ req[r] = "new" /\ req' = [req EXCEPT ![r] = "check"] /\ UNCHANGED <<cache, stream>>
    /\ (~Overlaps(r) /\ faults' = faults) \/ faults' = faults - 1

Looks(r) ==
    /\ req[r] = "check" /\ UNCHANGED <<cache, stream>>
    /\ \/ /\ req' = [req EXCEPT ![r] = "duplicate"]
          /\ Keyed(r) /\ cache[Key[r]] # "none" /\ faults' = faults
       \/ /\ req' = [req EXCEPT ![r] = "publish"]
          /\ \/ ~(Keyed(r) /\ cache[Key[r]] # "none") /\ faults' = faults
             \/ faults' = faults - 1

PutsOut(r) ==
    /\ req[r] = "publish" /\ UNCHANGED <<req, cache, faults>>
    /\ \E m \in Body[r] : stream' = [stream EXCEPT ![m] = "ready"]

Fails(r) ==
    /\ req[r] \in {"check", "publish"} /\ req' = [req EXCEPT ![r] = "failed"]
    /\ cache' = cache /\ faults' = faults - 1
    /\ \/ stream' = stream
       \/ req[r] = "publish" /\ \E m \in Body[r] : stream' = [stream EXCEPT ![m] = "ready"]

Answers(r) ==
    /\ req[r] = "publish" /\ req' = [req EXCEPT ![r] = "accepted"] /\ stream' = stream
    /\ \/ faults' = faults /\ cache' = IF Keyed(r) THEN [cache EXCEPT ![Key[r]] = r] ELSE cache
       \/ faults' = faults - 1 /\ Keyed(r) /\ cache' \in {cache, [cache EXCEPT ![Key[r]] = r]}

Expires(k) ==
    /\ cache[k] # "none" /\ cache' = [cache EXCEPT ![k] = "none"]
    /\ UNCHANGED <<req, stream>> /\ faults' = faults - 1

LEMMA ConsumersElsewhere ==
    ASSUME TypeOK, HeldInv, NEW c \in Consumers, ConsumerStep(c) \/ ConsumerFault(c)
    PROVE  Elsewhere
  <1> USE DEF requestVars, loopVars, effectVars, Fault
  <1>1. pc[c] # "idle" => msg[c] \in Messages /\ stream[msg[c]] # "absent"
    BY DEF TypeOK, HeldInv
  <1>2. stream \in [Messages -> StreamState] /\ Body \in [Requests -> SUBSET Messages]
    BY RequestsAssumption DEF TypeOK
  <1>3. UNCHANGED <<req, cache>> /\ faults' \in {faults, faults - 1}
    BY DEF ConsumerStep, ConsumerFault, Fetch, TakeNext, Evaluate2xx, Evaluate4xx, Evaluate5xx, Commit,
           CommitRefused, Park, FailureNaks, FailureParks, Ack, Nak, EvaluateError, CommitAnswerLost,
           ParkError, FailureParkError, SettlementLost, SettlementError, Crash
  <1>4. \A m \in Messages : stream'[m] = "absent" <=> stream[m] = "absent"
    <2>1. CASE Fetch(c)
      <3>1. PICK B \in SUBSET {m \in Messages : stream[m] = "ready"} :
              stream' = [m \in Messages |-> IF m \in B THEN "inflight" ELSE stream[m]]
        BY <2>1 DEF Fetch
      <3> QED
        BY <3>1
    <2>2. CASE Ack(c) \/ Nak(c)
      <3>1. PICK n \in Messages : n = msg[c] /\ stream[n] # "absent"
        BY <1>1, <2>2 DEF Ack, Nak
      <3>2. \E s \in {"acked", "ready"} : stream' = [stream EXCEPT ![n] = s]
        BY <2>2, <3>1 DEF Ack, Nak
      <3> QED
        BY <1>2, <3>1, <3>2
    <2>3. CASE stream' = stream
      BY <2>3
    <2> QED
      BY <2>1, <2>2, <2>3
      DEF ConsumerStep, ConsumerFault, TakeNext, Evaluate2xx, Evaluate4xx, Evaluate5xx, Commit,
          CommitRefused, Park, FailureNaks, FailureParks, EvaluateError, CommitAnswerLost,
          ParkError, FailureParkError, SettlementLost, SettlementError, Crash
  <1> QED
    BY <1>2, <1>3, <1>4 DEF Elsewhere

LEMMA StepKeys ==
    ASSUME TypeOK, HeldInv, [Next]_vars
    PROVE  \/ Elsewhere
           \/ \E r \in Requests : \/ Arrives(r) \/ Looks(r) \/ PutsOut(r)
                                  \/ Fails(r) \/ Answers(r)
           \/ \E k \in Keys : Expires(k)
  <1> USE DEF requestVars, loopVars, effectVars, Fault
  <1>1. CASE UNCHANGED vars
    BY <1>1 DEF vars, Elsewhere
  <1>2. ASSUME NEW r \in Requests, Arrive(r) PROVE Arrives(r)
    BY <1>2 DEF Arrive, Arrives
  <1>3. ASSUME NEW r \in Requests, CheckKey(r) PROVE Looks(r)
    BY <1>3 DEF CheckKey, Looks
  <1>4. ASSUME NEW r \in Requests, CheckKeyError(r) PROVE Looks(r)
    BY <1>4 DEF CheckKeyError, Looks
  <1>5. ASSUME NEW r \in Requests, Publish(r) PROVE PutsOut(r)
    BY <1>5 DEF Publish, Unpublished, PutsOut
  <1>6. ASSUME NEW r \in Requests, PublishError(r) PROVE Fails(r)
    BY <1>6 DEF PublishError, Unpublished, Fails
  <1>7. ASSUME NEW r \in Requests, Respond(r) PROVE Answers(r)
    BY <1>7 DEF Respond, Answers
  <1>8. ASSUME NEW r \in Requests, RespondSetError(r) PROVE Answers(r)
    BY <1>8 DEF RespondSetError, Answers
  <1>9. ASSUME NEW r \in Requests, RequestDies(r) PROVE Fails(r)
    BY <1>9 DEF RequestDies, Fails
  <1>10. ASSUME NEW k \in Keys, KeyExpires(k) PROVE Expires(k)
    BY <1>10 DEF KeyExpires, Expires
  <1>11. ASSUME NEW m \in Messages, ForeignPublish(m) PROVE Elsewhere
    BY <1>11, RequestsAssumption DEF ForeignPublish, Elsewhere, TypeOK
  <1>12. ASSUME NEW m \in Messages, AckWait(m) PROVE Elsewhere
    BY <1>12, RequestsAssumption DEF AckWait, Elsewhere, TypeOK
  <1> QED
    BY <1>1, <1>2, <1>3, <1>4, <1>5, <1>6, <1>7, <1>8, <1>9, <1>10, <1>11, <1>12, ConsumersElsewhere
    DEF Next, RequestStep, RequestFault

LEMMA InitKey == Init => KeyInv /\ FreshInv
  <1> SUFFICES ASSUME Init PROVE KeyInv /\ FreshInv
    OBVIOUS
  <1>1. FreshInv
    BY RequestsAssumption DEF Init, FreshInv
  <1>2. ASSUME NEW k \in Keys PROVE Reach(k) = {} /\ Credit(k) = 0
    <2>1. Active(k) = {} /\ cache[k] = "none"
      BY DEF Init, Active
    <2>2. Publishers(k) = {}
      BY RequestsAssumption DEF Init, Publishers
    <2> QED
      BY <2>1, <2>2 DEF Reach, Credit
  <1>3. Used = 0
    BY BoundsAssumption DEF Init, Used
  <1>4. \A k \in Keys : IsFiniteSet(Reach(k)) /\ Cardinality(Reach(k)) <= Used + Credit(k)
    BY <1>2, <1>3, FS_EmptySet
  <1> QED
    BY <1>1, <1>4 DEF KeyInv

LEMMA NextFresh == TypeOK /\ HeldInv /\ FreshInv /\ [Next]_vars => FreshInv'
  <1> SUFFICES ASSUME TypeOK, HeldInv, FreshInv, [Next]_vars,
                      NEW q \in Requests, req'[q] \in {"new", "check"}, NEW m \in Body[q]
               PROVE  stream'[m] = "absent"
    BY DEF FreshInv
  <1>1. /\ req \in [Requests -> ReqState] /\ stream \in [Messages -> StreamState]
        /\ Body \in [Requests -> SUBSET Messages]
        /\ \A r \in Requests : r # q => m \notin Body[r]
    BY RequestsAssumption DEF TypeOK
  <1>2. m \in Messages /\ (req[q] \in {"new", "check"} => stream[m] = "absent")
    BY <1>1 DEF FreshInv
  <1>3. CASE Elsewhere
    BY <1>2, <1>3 DEF Elsewhere
  <1>4. ASSUME NEW r \in Requests, Arrives(r) \/ Looks(r) \/ Answers(r) PROVE stream'[m] = "absent"
    <2>1. stream' = stream /\ req[q] \in {"new", "check"}
      BY <1>1, <1>4 DEF Arrives, Looks, Answers
    <2> QED
      BY <1>2, <2>1
  <1>5. ASSUME NEW r \in Requests, PutsOut(r) \/ Fails(r) PROVE stream'[m] = "absent"
    <2>1. req[q] \in {"new", "check"} /\ (r = q => stream' = stream)
      BY <1>1, <1>5 DEF PutsOut, Fails
    <2>2. stream' = stream \/ \E n \in Body[r] : stream' = [stream EXCEPT ![n] = "ready"]
      BY <1>5 DEF PutsOut, Fails
    <2>3. r # q => stream'[m] = stream[m]
      BY <1>1, <2>2
    <2> QED
      BY <1>2, <2>1, <2>3
  <1>6. ASSUME NEW k \in Keys, Expires(k) PROVE stream'[m] = "absent"
    BY <1>2, <1>6 DEF Expires
  <1> QED
    BY <1>3, <1>4, <1>5, <1>6, StepKeys

\* The books of a key: at most n entries before, at most p after.
LEMMA Ledger ==
    ASSUME NEW R, NEW S, NEW x, IsFiniteSet(R), NEW n \in Int, NEW p \in Int, Cardinality(R) <= n,
           \/ S \subseteq R /\ n <= p
           \/ S \subseteq R \cup {x} /\ n + 1 <= p
           \/ S \subseteq R \ {x} /\ x \in R /\ n - 1 <= p
    PROVE  IsFiniteSet(S) /\ Cardinality(S) <= p
  <1>1. Cardinality(R) \in Nat
    BY FS_CardinalityType
  <1>2. CASE S \subseteq R /\ n <= p
    <2>1. IsFiniteSet(S) /\ Cardinality(S) <= Cardinality(R) /\ Cardinality(S) \in Nat
      BY <1>2, FS_Subset, FS_CardinalityType
    <2> QED
      BY <1>1, <1>2, <2>1
  <1>3. CASE S \subseteq R \cup {x} /\ n + 1 <= p
    <2>1. /\ IsFiniteSet(R \cup {x})
          /\ Cardinality(R \cup {x}) = Cardinality(R) \/ Cardinality(R \cup {x}) = Cardinality(R) + 1
      BY FS_AddElement
    <2>2. /\ IsFiniteSet(S) /\ Cardinality(S) <= Cardinality(R \cup {x}) /\ Cardinality(S) \in Nat
      BY <1>3, <2>1, FS_Subset, FS_CardinalityType
    <2> QED
      BY <1>1, <1>3, <2>1, <2>2
  <1>4. CASE S \subseteq R \ {x} /\ x \in R /\ n - 1 <= p
    <2>1. IsFiniteSet(R \ {x}) /\ Cardinality(R \ {x}) = Cardinality(R) - 1
      BY <1>4, FS_RemoveElement
    <2>2. IsFiniteSet(S) /\ Cardinality(S) <= Cardinality(R \ {x}) /\ Cardinality(S) \in Nat
      BY <1>4, <2>1, FS_Subset, FS_CardinalityType
    <2> QED
      BY <1>1, <1>4, <2>1, <2>2
  <1> QED
    BY <1>2, <1>3, <1>4

\* A step of a call with another key, or that is not in the books of k.
LEMMA OtherKey ==
    ASSUME NEW k \in Keys, cache'[k] = cache[k],
           \A q \in Requests : Key[q] = k =>
              /\ req'[q] = req[q]
              /\ \A m \in Body[q] : stream'[m] = "absent" <=> stream[m] = "absent"
    PROVE  Reach(k)' = Reach(k) /\ Credit(k)' = Credit(k)
  <1>1. Active(k)' = Active(k)
    BY DEF Active
  <1>2. Publishers(k)' = Publishers(k)
    BY DEF Publishers
  <1>3. Looking(k)' <=> Looking(k)
    BY DEF Looking
  <1> QED
    BY <1>1, <1>2, <1>3 DEF Reach, Credit

Balanced(k) == IsFiniteSet(Reach(k)) /\ Cardinality(Reach(k)) <= Used + Credit(k)

LEMMA Balance ==
    ASSUME TypeOK, TypeOK', NEW k \in Keys, Balanced(k), NEW x,
           \/ Reach(k)' \subseteq Reach(k) /\ Used + Credit(k) <= Used' + Credit(k)'
           \/ Reach(k)' \subseteq Reach(k) \cup {x} /\ Used + Credit(k) + 1 <= Used' + Credit(k)'
           \/ Reach(k)' \subseteq Reach(k) \ {x} /\ x \in Reach(k) /\ Used + Credit(k) - 1 <= Used' + Credit(k)'
    PROVE  Balanced(k)'
  <1>1. Used \in Int /\ Used' \in Int
    BY BoundsAssumption DEF TypeOK, Used
  <1>2. Credit(k) \in Int /\ Credit(k)' \in Int
    BY DEF Credit
  <1>3. PICK n \in Int : n = Used + Credit(k)
    BY <1>1, <1>2
  <1>4. PICK p \in Int : p = Used' + Credit(k)'
    BY <1>1, <1>2
  <1>5. IsFiniteSet(Reach(k)) /\ Cardinality(Reach(k)) <= n
    BY <1>3 DEF Balanced
  <1>6. PICK S : S = Reach(k)'
    OBVIOUS
  <1>7. \/ S \subseteq Reach(k) /\ n <= p
        \/ S \subseteq Reach(k) \cup {x} /\ n + 1 <= p
        \/ S \subseteq Reach(k) \ {x} /\ x \in Reach(k) /\ n - 1 <= p
    <2>1. CASE Reach(k)' \subseteq Reach(k) /\ Used + Credit(k) <= Used' + Credit(k)'
      BY <1>3, <1>4, <1>6, <2>1
    <2>2. CASE Reach(k)' \subseteq Reach(k) \cup {x} /\ Used + Credit(k) + 1 <= Used' + Credit(k)'
      BY <1>3, <1>4, <1>6, <2>2
    <2>3. CASE /\ Reach(k)' \subseteq Reach(k) \ {x} /\ x \in Reach(k)
               /\ Used + Credit(k) - 1 <= Used' + Credit(k)'
      <3>1. Used + Credit(k) - 1 <= Used' + Credit(k)'
        BY <2>3
      <3>2. n - 1 <= p
        BY <1>1, <1>2, <1>3, <1>4, <3>1
      <3>3. S \subseteq Reach(k) \ {x} /\ x \in Reach(k)
        BY <1>6, <2>3
      <3> QED
        BY <3>2, <3>3
    <2> QED
      BY <2>1, <2>2, <2>3
  <1>8. IsFiniteSet(S) /\ Cardinality(S) <= p
    BY <1>5, <1>7, Ledger
  <1> QED
    BY <1>4, <1>6, <1>8 DEF Balanced

\* Who is in the books after a move of r.
LEMMA MovesOn ==
    ASSUME TypeOK, NEW k \in Keys, NEW r \in Requests, Key[r] = k, NEW to \in ReqState,
           req' = [req EXCEPT ![r] = to]
    PROVE  /\ Active(k)' = IF to \in {"check", "publish"} THEN Active(k) \cup {r} ELSE Active(k) \ {r}
           /\ Looking(k)' <=> \/ to = "check"
                              \/ \E q \in Requests : q # r /\ Key[q] = k /\ req[q] = "check"
           /\ stream' = stream => Publishers(k)' = Publishers(k)
  <1>1. req'[r] = to /\ \A q \in Requests : q # r => req'[q] = req[q]
    BY DEF TypeOK
  <1>2. Active(k)' = IF to \in {"check", "publish"} THEN Active(k) \cup {r} ELSE Active(k) \ {r}
    BY <1>1 DEF Active
  <1>3. Looking(k)' <=> \/ to = "check"
                        \/ \E q \in Requests : q # r /\ Key[q] = k /\ req[q] = "check"
    BY <1>1 DEF Looking
  <1>4. stream' = stream => Publishers(k)' = Publishers(k)
    BY DEF Publishers
  <1> QED
    BY <1>2, <1>3, <1>4

LEMMA ArrivesBalanced ==
    ASSUME TypeOK, TypeOK', RedisConfigured, NEW k \in Keys, Balanced(k),
           NEW r \in Requests, Key[r] = k, Arrives(r)
    PROVE  Balanced(k)'
  <1>1. req' = [req EXCEPT ![r] = "check"] /\ "check" \in ReqState /\ stream' = stream
    BY DEF Arrives, ReqState
  <1>2. Active(k)' = Active(k) \cup {r} /\ Looking(k)' /\ Publishers(k)' = Publishers(k)
    BY <1>1, MovesOn
  <1>3. Reach(k)' \subseteq Reach(k) \cup {r}
    BY <1>2 DEF Reach
  <1>4. cache' = cache
    BY DEF Arrives
  <1>5. Credit(k)' = (IF cache[k] = "none" THEN 1 ELSE 2) /\ Credit(k) \in 0 .. 2
    BY <1>2, <1>4 DEF Credit
  <1>6. faults \in Int /\ MaxFaults \in Int
    BY BoundsAssumption DEF TypeOK
  <1>7. CASE ~Overlaps(r) /\ faults' = faults
    <2>1. Active(k) = {} /\ ~Looking(k)
      <3>1. Keyed(r) /\ req[r] = "new"
        BY RequestsAssumption DEF Keyed, Arrives
      <3>2. \A q \in Requests : q # r /\ Key[q] = k => req[q] \notin {"check", "publish"}
        BY <1>7, <3>1 DEF Overlaps
      <3> QED
        BY <3>1, <3>2 DEF Active, Looking
    <2>2. Credit(k) = IF cache[k] = "none" THEN 0 ELSE 1
      BY <2>1 DEF Credit
    <2>3. Used + Credit(k) + 1 <= Used' + Credit(k)'
      BY <1>5, <1>6, <1>7, <2>2 DEF Used
    <2> QED
      BY <1>3, <2>3, Balance
  <1>8. CASE faults' = faults - 1
    <2>1. Credit(k) <= Credit(k)'
      BY <1>4, <1>5 DEF Credit
    <2>2. Used + Credit(k) + 1 <= Used' + Credit(k)'
      BY <1>5, <1>6, <1>8, <2>1 DEF Used
    <2> QED
      BY <1>3, <2>2, Balance
  <1> QED
    BY <1>7, <1>8 DEF Arrives

LEMMA LooksBalanced ==
    ASSUME TypeOK, TypeOK', FreshInv, RedisConfigured, NEW k \in Keys, Balanced(k),
           NEW r \in Requests, Key[r] = k, Looks(r)
    PROVE  Balanced(k)'
  <1>1. UNCHANGED <<cache, stream>> /\ req[r] = "check" /\ Keyed(r)
    BY RequestsAssumption DEF Looks, Keyed
  <1>2. r \in Active(k) /\ Looking(k) /\ r \notin Publishers(k)
    BY <1>1 DEF Active, Looking, Publishers, FreshInv
  <1>3. faults \in Int /\ MaxFaults \in Int
    BY BoundsAssumption DEF TypeOK
  <1>4. Credit(k) = IF cache[k] = "none" THEN 1 ELSE 2
    BY <1>2 DEF Credit
  <1>5. CASE req' = [req EXCEPT ![r] = "duplicate"] /\ cache[k] # "none" /\ faults' = faults
    <2>1. Active(k)' = Active(k) \ {r} /\ Publishers(k)' = Publishers(k)
      BY <1>1, <1>5, MovesOn DEF ReqState
    <2>2. Reach(k)' \subseteq Reach(k) \ {r} /\ r \in Reach(k)
      BY <1>2, <2>1 DEF Reach
    <2>3. Credit(k)' \in {1, 2}
      BY <1>1, <1>5 DEF Credit
    <2>4. Used + Credit(k) - 1 <= Used' + Credit(k)'
      BY <1>3, <1>4, <1>5, <2>3 DEF Used
    <2> QED
      BY <2>2, <2>4, Balance
  <1>6. CASE /\ req' = [req EXCEPT ![r] = "publish"]
             /\ (cache[k] = "none" /\ faults' = faults) \/ faults' = faults - 1
    <2>1. Active(k)' = Active(k) \cup {r} /\ Publishers(k)' = Publishers(k)
      BY <1>1, <1>6, MovesOn DEF ReqState
    <2>2. Reach(k)' \subseteq Reach(k)
      BY <1>2, <2>1 DEF Reach
    <2>3. Credit(k)' \in {1, 2}
      BY <2>1 DEF Credit
    <2>4. Used + Credit(k) <= Used' + Credit(k)'
      BY <1>3, <1>4, <1>6, <2>3 DEF Used
    <2> QED
      BY <2>2, <2>4, Balance
  <1> QED
    BY <1>1, <1>5, <1>6 DEF Looks

LEMMA PutsOutBalanced ==
    ASSUME TypeOK, TypeOK', NEW k \in Keys, Balanced(k),
           NEW r \in Requests, Key[r] = k, PutsOut(r)
    PROVE  Balanced(k)'
  <1>1. UNCHANGED <<req, cache, faults>> /\ r \in Active(k)
    BY DEF PutsOut, Active
  <1>2. Active(k)' = Active(k) /\ (Looking(k)' <=> Looking(k))
    BY <1>1 DEF Active, Looking
  <1>3. Publishers(k)' \subseteq Publishers(k) \cup {r}
    <2>1. \A q \in Requests : q # r => \A m \in Body[q] : stream'[m] = stream[m]
      BY RequestsAssumption DEF PutsOut, TypeOK
    <2> QED
      BY <2>1 DEF Publishers
  <1>4. Reach(k)' \subseteq Reach(k)
    BY <1>1, <1>2, <1>3 DEF Reach
  <1>5. Used \in Int /\ Used' = Used
    BY <1>1, BoundsAssumption DEF TypeOK, Used
  <1>6. Credit(k)' = Credit(k) /\ Credit(k) \in Int
    BY <1>1, <1>2 DEF Credit
  <1>7. Used + Credit(k) <= Used' + Credit(k)'
    BY <1>5, <1>6
  <1> QED
    BY <1>4, <1>7, Balance

LEMMA FailsBalanced ==
    ASSUME TypeOK, TypeOK', NEW k \in Keys, Balanced(k),
           NEW r \in Requests, Key[r] = k, Fails(r)
    PROVE  Balanced(k)'
  <1>1. /\ cache' = cache /\ faults' = faults - 1 /\ r \in Active(k)
        /\ req' = [req EXCEPT ![r] = "failed"]
    BY DEF Fails, Active
  <1>2. Active(k)' = Active(k) \ {r}
    <2>1. req'[r] = "failed" /\ \A q \in Requests : q # r => req'[q] = req[q]
      BY <1>1 DEF TypeOK
    <2> QED
      BY <2>1 DEF Active
  <1>3. Publishers(k)' \subseteq Publishers(k) \cup {r}
    <2>0. stream' = stream \/ \E m \in Body[r] : stream' = [stream EXCEPT ![m] = "ready"]
      BY DEF Fails
    <2>1. \A q \in Requests : q # r => \A m \in Body[q] : stream'[m] = stream[m]
      BY <2>0, RequestsAssumption DEF TypeOK
    <2> QED
      BY <2>1 DEF Publishers
  <1>4. Reach(k)' \subseteq Reach(k)
    BY <1>1, <1>2, <1>3 DEF Reach
  <1>5. faults \in Int /\ MaxFaults \in Int
    BY BoundsAssumption DEF TypeOK
  \* A cached key keeps at least one, another loses at most the one it had.
  <1>6. Credit(k) \in 0 .. 2 /\ Credit(k)' \in 0 .. 2 /\ Credit(k) <= Credit(k)' + 1
    BY <1>1 DEF Credit
  <1>7. Used + Credit(k) <= Used' + Credit(k)'
    BY <1>1, <1>5, <1>6 DEF Used
  <1> QED
    BY <1>4, <1>7, Balance

LEMMA AnswersBalanced ==
    ASSUME TypeOK, TypeOK', RedisConfigured, NEW k \in Keys, Balanced(k),
           NEW r \in Requests, Key[r] = k, Answers(r)
    PROVE  Balanced(k)'
  <1>1. /\ r \in Active(k) /\ req[r] = "publish" /\ stream' = stream
        /\ req' = [req EXCEPT ![r] = "accepted"] /\ "accepted" \in ReqState
    BY DEF Answers, Active, ReqState
  <1>2. Active(k)' = Active(k) \ {r} /\ Publishers(k)' = Publishers(k)
    BY <1>1, MovesOn
  <1>0. Looking(k) => Looking(k)'
    BY <1>1 DEF Looking, TypeOK
  <1>3. Reach(k)' \subseteq Reach(k)
    BY <1>1, <1>2 DEF Reach
  <1>4. faults \in Int /\ MaxFaults \in Int
    BY BoundsAssumption DEF TypeOK
  <1>5. r # "none" /\ Keyed(r)
    BY NoRequestAssumption, RequestsAssumption DEF Keyed
  <1>6. Credit(k) \in 1 .. 2 /\ Credit(k)' \in 0 .. 2
    BY <1>1 DEF Credit
  <1>7. CASE faults' = faults /\ cache' = [cache EXCEPT ![k] = r]
    <2>1. cache'[k] # "none"
      BY <1>5, <1>7 DEF TypeOK
    <2>2. Credit(k) <= Credit(k)'
      BY <1>0, <1>6, <2>1 DEF Credit
    <2>3. Used + Credit(k) <= Used' + Credit(k)'
      BY <1>4, <1>6, <1>7, <2>2 DEF Used
    <2> QED
      BY <1>3, <2>3, Balance
  <1>8. CASE faults' = faults - 1 /\ cache' \in {cache, [cache EXCEPT ![k] = r]}
    <2>1. cache'[k] = cache[k] \/ cache'[k] # "none"
      BY <1>5, <1>8 DEF TypeOK
    <2>2. Credit(k) <= Credit(k)' + 1
      BY <1>0, <1>6, <2>1 DEF Credit
    <2>3. Used + Credit(k) <= Used' + Credit(k)'
      BY <1>4, <1>6, <1>8, <2>2 DEF Used
    <2> QED
      BY <1>3, <2>3, Balance
  <1> QED
    BY <1>5, <1>7, <1>8 DEF Answers

LEMMA ExpiresBalanced ==
    ASSUME TypeOK, TypeOK', NEW k \in Keys, Balanced(k), Expires(k)
    PROVE  Balanced(k)'
  <1>1. UNCHANGED <<req, stream>> /\ faults' = faults - 1 /\ cache[k] # "none" /\ cache'[k] = "none"
    BY DEF Expires, TypeOK
  <1>2. Active(k)' = Active(k) /\ Publishers(k)' = Publishers(k) /\ (Looking(k)' <=> Looking(k))
    BY <1>1 DEF Active, Publishers, Looking
  <1>3. Looking(k) => Active(k) # {}
    BY DEF Looking, Active
  <1>4. Reach(k)' \subseteq Reach(k)
    BY <1>2 DEF Reach
  <1>5. faults \in Int /\ MaxFaults \in Int
    BY BoundsAssumption DEF TypeOK
  <1>6. Credit(k) \in 0 .. 2 /\ Credit(k)' \in 0 .. 2 /\ Credit(k) <= Credit(k)' + 1
    BY <1>1, <1>2, <1>3 DEF Credit
  <1>7. Used + Credit(k) <= Used' + Credit(k)'
    BY <1>1, <1>5, <1>6 DEF Used
  <1> QED
    BY <1>4, <1>7, Balance

LEMMA NextKey ==
    TypeOK /\ TypeOK' /\ HeldInv /\ FreshInv /\ KeyInv /\ [Next]_vars => KeyInv'
  <1> SUFFICES ASSUME TypeOK, TypeOK', HeldInv, FreshInv, KeyInv, [Next]_vars, RedisConfigured,
                      NEW k \in Keys
               PROVE  Balanced(k)'
    BY DEF KeyInv, Balanced
  <1>1. Balanced(k)
    BY DEF KeyInv, Balanced
  <1>2. faults \in Int /\ MaxFaults \in Int /\ Credit(k) \in Int
    BY BoundsAssumption DEF TypeOK, Credit
  <1>3. ASSUME faults' \in {faults, faults - 1}, cache'[k] = cache[k],
               \A q \in Requests : Key[q] = k =>
                  /\ req'[q] = req[q]
                  /\ \A m \in Body[q] : stream'[m] = "absent" <=> stream[m] = "absent"
        PROVE  Balanced(k)'
    <2>1. Reach(k)' = Reach(k) /\ Credit(k)' = Credit(k)
      BY <1>3, OtherKey
    <2>2. Used + Credit(k) <= Used' + Credit(k)'
      BY <1>2, <1>3, <2>1 DEF Used
    <2> QED
      BY <1>1, <2>1, <2>2, Balance
  <1>4. CASE Elsewhere
    BY <1>3, <1>4 DEF Elsewhere
  <1>5. ASSUME NEW r \in Requests, Key[r] # k,
               Arrives(r) \/ Looks(r) \/ PutsOut(r) \/ Fails(r) \/ Answers(r)
        PROVE  Balanced(k)'
    <2>1. faults' \in {faults, faults - 1}
      BY <1>5 DEF Arrives, Looks, PutsOut, Fails, Answers
    <2>2. cache'[k] = cache[k]
      BY <1>5 DEF Arrives, Looks, PutsOut, Fails, Answers, TypeOK
    <2>3. \A q \in Requests : q # r => req'[q] = req[q]
      BY <1>5 DEF Arrives, Looks, PutsOut, Fails, Answers, TypeOK
    <2>4. stream' = stream \/ \E m \in Body[r] : stream' = [stream EXCEPT ![m] = "ready"]
      BY <1>5 DEF Arrives, Looks, PutsOut, Fails, Answers
    <2>5. \A q \in Requests : q # r => \A m \in Body[q] : stream'[m] = stream[m]
      BY <2>4, RequestsAssumption DEF TypeOK
    <2> QED
      BY <1>3, <1>5, <2>1, <2>2, <2>3, <2>5
  <1>6. ASSUME NEW r \in Requests, Key[r] = k,
               Arrives(r) \/ Looks(r) \/ PutsOut(r) \/ Fails(r) \/ Answers(r)
        PROVE  Balanced(k)'
    BY <1>1, <1>6, ArrivesBalanced, LooksBalanced, PutsOutBalanced, FailsBalanced, AnswersBalanced
  <1>7. ASSUME NEW h \in Keys, Expires(h) PROVE Balanced(k)'
    <2>1. CASE h = k
      BY <1>1, <1>7, <2>1, ExpiresBalanced
    <2>2. CASE h # k
      BY <1>3, <1>7, <2>2 DEF Expires, TypeOK
    <2> QED
      BY <2>1, <2>2
  <1> QED
    BY <1>4, <1>5, <1>6, <1>7, StepKeys

\* An idempotency key is worth one publication, each further call that
\* publishes under it being owed to a fault of its own, for any number of calls,
\* keys and consumers: the endpoints of event-ingest look at the key before
\* they publish and set it before they answer.
THEOREM PublicationsAlwaysCaused == Spec => []PublicationsCaused
  <1>1. TypeOK /\ FreshInv /\ KeyInv => PublicationsCaused
    <2> SUFFICES ASSUME TypeOK, FreshInv, KeyInv, RedisConfigured, NEW k \in Keys
                 PROVE  Cardinality(Publishers(k)) <= 1 + Used
      BY DEF PublicationsCaused
    <2>1. Used \in Int
      BY BoundsAssumption DEF TypeOK, Used
    <2>2. IsFiniteSet(Reach(k)) /\ Cardinality(Reach(k)) <= Used + Credit(k)
      BY DEF KeyInv
    <2>3. CASE Credit(k) <= 1
      <3>1. Publishers(k) \subseteq Reach(k) /\ Used + Credit(k) <= 1 + Used /\ Credit(k) \in Int
        BY <2>1, <2>3 DEF Reach, Credit
      <3>2. Used + Credit(k) \in Int /\ 1 + Used \in Int
        BY <2>1, <3>1
      <3> QED
        BY <2>2, <3>1, <3>2, Ledger
    <2>4. CASE Looking(k) /\ Credit(k) = 2
      <3>1. PICK r \in Requests : Key[r] = k /\ req[r] = "check"
        BY <2>4 DEF Looking
      <3>2. Publishers(k) \subseteq Reach(k) \ {r} /\ r \in Reach(k)
        BY <3>1 DEF Publishers, Reach, Active, FreshInv
      <3>3. Used + Credit(k) \in Int /\ 1 + Used \in Int /\ (Used + Credit(k)) - 1 <= 1 + Used
        BY <2>1, <2>4
      <3> QED
        BY <2>2, <3>2, <3>3, Ledger
    <2> QED
      BY <2>3, <2>4 DEF Credit
  <1>2. TypeOK /\ LoopInv => HeldInv
    BY DEF LoopInv
  <1>3. Spec => [](FreshInv /\ KeyInv)
    BY <1>2, InitKey, NextFresh, NextKey, LoopAlways, PTL DEF Spec
  <1> QED
    BY <1>1, <1>3, TypeCorrect, PTL

(***************************************************************************)
(* Commits.  A delivery that is on its way to its ack or nak may still     *)
(* commit; a message that will be delivered again without a fault is due   *)
(* one more.  What a message has left is one commit and the faults, less   *)
(* what it has had.                                                        *)
(***************************************************************************)
InBatch(c, m) == \E d \in batch[c] : d[1] = m
Unsettled(c, m) == InBatch(c, m) \/ (msg[c] = m /\ pc[c] \notin {"ack", "dlq_ack"})
Pending(m) == {c \in Consumers : Unsettled(c, m)}
Due(m) ==
    IF \/ stream[m] \in {"absent", "ready"}
       \/ stream[m] = "inflight" /\ \A c \in Consumers : ~Holds(c, m)
    THEN 1 ELSE 0
Slack(m) == 1 + Used - committed[m] - Due(m)
Covered(m) == IsFiniteSet(Pending(m)) /\ Cardinality(Pending(m)) <= Slack(m)

CommitInv == \A m \in Messages : Covered(m)

\* A consumer has a message at most once.
SingleInv ==
    \A c \in Consumers :
        /\ \A d, e \in batch[c] : d[1] = e[1] => d = e
        /\ \A d \in batch[c] : d[1] # msg[c]

\* What a step does to the consumers, the commits and the stream.
Stays(c, label) == pc' = [pc EXCEPT ![c] = label] /\ UNCHANGED <<batch, msg>>
Drops(c) == pc' = [pc EXCEPT ![c] = "idle"] /\ msg' = [msg EXCEPT ![c] = "none"]

Proceeds(c) ==
    /\ \E label \in PC \ {"idle"} : Stays(c, label)
    /\ pc[c] # "idle" /\ UNCHANGED <<stream, committed>>
    /\ (faults' = faults /\ pc[c] \notin {"ack", "dlq_ack"}) \/ faults' = faults - 1

CommitsNow(c) ==
    /\ pc[c] = "commit" /\ committed' = [committed EXCEPT ![msg[c]] = @ + 1] /\ stream' = stream
    /\ (faults' = faults /\ Stays(c, "ack")) \/ (faults' = faults - 1 /\ Stays(c, "fail"))

GivesUp(c) ==
    /\ Drops(c) /\ faults' = faults - 1 /\ UNCHANGED <<stream, committed>>
    /\ batch' = batch \/ batch' = [batch EXCEPT ![c] = {}]

SettlesNow(c) ==
    /\ pc[c] # "idle" /\ Drops(c) /\ UNCHANGED <<batch, faults, committed>>
    /\ \/ stream' = [stream EXCEPT ![msg[c]] = "acked"]
       \/ pc[c] = "nak" /\ \E s \in StreamState : stream' = [stream EXCEPT ![msg[c]] = s]

NobodyMoves ==
    /\ UNCHANGED <<batch, msg, pc, committed>>
    /\ \A m \in Messages :
          \/ faults' \in {faults, faults - 1} /\ stream'[m] = stream[m]
          \/ faults' \in {faults, faults - 1} /\ stream[m] = "absent"
          \/ faults' = faults /\ stream[m] = "inflight" /\ \A c \in Consumers : ~Holds(c, m)
          \/ faults' = faults - 1

LEMMA StepCommits ==
    ASSUME TypeOK, [Next]_vars
    PROVE  \/ NobodyMoves
           \/ \E c \in Consumers : \/ Fetch(c) \/ TakeNext(c) \/ Proceeds(c) \/ CommitsNow(c)
                                   \/ GivesUp(c) \/ SettlesNow(c)
  <1> USE DEF requestVars, loopVars, effectVars, Fault
  <1>1. CASE UNCHANGED vars
    BY <1>1 DEF vars, NobodyMoves
  <1>2. ASSUME NEW r \in Requests, Arrive(r) \/ RequestStep(r) \/ RequestFault(r) PROVE NobodyMoves
    <2>1. UNCHANGED <<batch, msg, pc, committed>> /\ faults' \in {faults, faults - 1}
      BY <1>2 DEF Arrive, RequestStep, CheckKey, Publish, Respond, RequestFault, CheckKeyError,
                  PublishError, RespondSetError, RequestDies
    <2>2. stream' = stream \/ \E m \in Unpublished(r) : stream' = [stream EXCEPT ![m] = "ready"]
      BY <1>2 DEF Arrive, RequestStep, CheckKey, Publish, Respond, RequestFault, CheckKeyError,
                  PublishError, RespondSetError, RequestDies
    <2>3. \A m \in Messages : stream'[m] = stream[m] \/ stream[m] = "absent"
      BY <2>2 DEF Unpublished, TypeOK
    <2> QED
      BY <2>1, <2>3 DEF NobodyMoves
  <1>3. ASSUME NEW k \in Keys, KeyExpires(k) PROVE NobodyMoves
    BY <1>3 DEF KeyExpires, NobodyMoves
  <1>4. ASSUME NEW m \in Messages, ForeignPublish(m) PROVE NobodyMoves
    BY <1>4 DEF ForeignPublish, NobodyMoves, TypeOK
  <1>5. ASSUME NEW m \in Messages, AckWait(m) PROVE NobodyMoves
    BY <1>5 DEF AckWait, NobodyMoves, TypeOK
  <1>6. ASSUME NEW c \in Consumers, pc[c] # "idle", Raise(c), faults' = faults - 1,
               UNCHANGED <<stream, committed>>
        PROVE  Proceeds(c) \/ GivesUp(c)
    BY <1>6 DEF Raise, Advance, Proceeds, GivesUp, Stays, Drops, PC
  <1>7. ASSUME NEW c \in Consumers,
               \/ Evaluate2xx(c) \/ Evaluate4xx(c) \/ Evaluate5xx(c) \/ CommitRefused(c) \/ Park(c)
               \/ FailureNaks(c) \/ FailureParks(c) \/ ParkError(c) \/ FailureParkError(c)
        PROVE  Proceeds(c)
    <2>1. pc[c] \notin {"idle", "ack", "dlq_ack"} /\ faults' \in {faults, faults - 1}
      BY <1>7 DEF Evaluate2xx, Evaluate4xx, Evaluate5xx, CommitRefused, Park, FailureNaks,
                  FailureParks, ParkError, FailureParkError
    <2>2. UNCHANGED <<stream, committed>>
      BY <1>7 DEF Evaluate2xx, Evaluate4xx, Evaluate5xx, CommitRefused, Park, FailureNaks,
                  FailureParks, ParkError, FailureParkError
    <2>3. \E label \in {"commit", "ack", "park", "fail", "nak", "dlq_ack"} : Goto(c, label)
      BY <1>7 DEF Evaluate2xx, Evaluate4xx, Evaluate5xx, CommitRefused, Park, FailureNaks,
                  FailureParks, ParkError, FailureParkError
    <2>4. \E label \in PC \ {"idle"} : Stays(c, label)
      BY <2>3 DEF Goto, Stays, PC
    <2> QED
      BY <2>1, <2>2, <2>4 DEF Proceeds
  <1>8. ASSUME NEW c \in Consumers, Commit(c) \/ CommitAnswerLost(c) PROVE CommitsNow(c)
    BY <1>8 DEF Commit, CommitAnswerLost, CommitsNow, Goto, Stays
  <1>9. ASSUME NEW c \in Consumers, EvaluateError(c) PROVE Proceeds(c) \/ GivesUp(c)
    BY <1>6, <1>9 DEF EvaluateError
  <1>10. ASSUME NEW c \in Consumers, SettlementError(c) PROVE Proceeds(c) \/ GivesUp(c)
    <2>1. CASE pc[c] = "dlq_ack"
      BY <1>10, <2>1 DEF SettlementError, Goto, Proceeds, Stays, PC
    <2>2. CASE pc[c] # "dlq_ack"
      BY <1>6, <1>10, <2>2 DEF SettlementError
    <2> QED
      BY <2>1, <2>2
  <1>11. ASSUME NEW c \in Consumers, SettlementLost(c) \/ Crash(c) PROVE GivesUp(c)
    BY <1>11 DEF SettlementLost, Crash, Advance, GivesUp, Drops
  <1>12. ASSUME NEW c \in Consumers, Ack(c) \/ Nak(c) PROVE SettlesNow(c)
    BY <1>12 DEF Ack, Nak, Advance, SettlesNow, Drops, StreamState
  <1> QED
    BY <1>1, <1>2, <1>3, <1>4, <1>5, <1>7, <1>8, <1>9, <1>10, <1>11, <1>12
    DEF Next, ConsumerStep, ConsumerFault

LEMMA InitCommit == Init => CommitInv /\ SingleInv
  <1> SUFFICES ASSUME Init PROVE CommitInv /\ SingleInv
    OBVIOUS
  <1>1. SingleInv
    BY DEF Init, SingleInv
  <1>2. ASSUME NEW m \in Messages PROVE Covered(m)
    <2>1. Pending(m) = {}
      BY <1>2, NoDeliveryAssumption DEF Init, Pending, Unsettled, InBatch
    <2>2. Slack(m) = 0
      BY BoundsAssumption DEF Init, Slack, Due, Used
    <2> QED
      BY <2>1, <2>2, FS_EmptySet DEF Covered
  <1> QED
    BY <1>1, <1>2 DEF CommitInv

\* The types the counting needs.
LEMMA LoopTypes ==
    ASSUME TypeOK
    PROVE  /\ batch \in [Consumers -> SUBSET Delivery] /\ msg \in [Consumers -> Messages \cup {"none"}]
           /\ pc \in [Consumers -> PC] /\ stream \in [Messages -> StreamState]
           /\ \A c \in Consumers : pc[c] = "idle" <=> msg[c] = "none"
  BY DEF TypeOK

LEMMA NextSingle == TypeOK /\ SingleInv /\ [Next]_vars => SingleInv'
  <1> SUFFICES ASSUME TypeOK, SingleInv, [Next]_vars PROVE SingleInv'
    OBVIOUS
  <1>1. ASSUME NEW c \in Consumers, UNCHANGED batch \/ batch' = [batch EXCEPT ![c] = {}],
               msg' = msg \/ msg' = [msg EXCEPT ![c] = "none"]
        PROVE  SingleInv'
    <2>1. \A b \in Consumers : batch'[b] \subseteq batch[b] /\ msg'[b] \in {msg[b], "none"}
      BY <1>1, LoopTypes
    <2>2. \A b \in Consumers : \A d \in batch[b] : d[1] # "none"
      BY BatchHoldsMessages, NoDeliveryAssumption
    <2> QED
      BY <2>1, <2>2 DEF SingleInv
  <1>2. CASE NobodyMoves
    BY <1>2 DEF NobodyMoves, SingleInv
  <1>3. ASSUME NEW c \in Consumers, Proceeds(c) \/ CommitsNow(c) PROVE SingleInv'
    <2>1. UNCHANGED <<batch, msg>>
      BY <1>3 DEF Proceeds, CommitsNow, Stays
    <2> QED
      BY <2>1 DEF SingleInv
  <1>4. ASSUME NEW c \in Consumers, GivesUp(c) \/ SettlesNow(c) PROVE SingleInv'
    BY <1>1, <1>4 DEF GivesUp, SettlesNow, Drops
  <1>5. ASSUME NEW c \in Consumers, Fetch(c) PROVE SingleInv'
    <2>1. PICK B \in SUBSET Messages : batch' = [batch EXCEPT ![c] = {<<m, delivered'[m]>> : m \in B}]
      BY <1>5 DEF Fetch
    <2>2. msg' = msg /\ msg[c] = "none"
      BY <1>5, LoopTypes DEF Fetch
    <2>3. batch'[c] = {<<m, delivered'[m]>> : m \in B} /\ \A b \in Consumers : b # c => batch'[b] = batch[b]
      BY <2>1, LoopTypes
    <2>4. /\ \A d, e \in batch'[c] : d[1] = e[1] => d = e
          /\ \A d \in batch'[c] : d[1] # msg'[c]
      BY <2>2, <2>3, NoDeliveryAssumption
    <2> QED
      BY <2>2, <2>3, <2>4 DEF SingleInv
  <1>6. ASSUME NEW c \in Consumers, TakeNext(c) PROVE SingleInv'
    <2>1. PICK d \in batch[c] : batch' = [batch EXCEPT ![c] = @ \ {d}] /\ msg' = [msg EXCEPT ![c] = d[1]]
      BY <1>6 DEF TakeNext
    <2>2. batch'[c] = batch[c] \ {d} /\ msg'[c] = d[1]
      BY <2>1, LoopTypes
    <2>3. \A b \in Consumers : b # c => batch'[b] = batch[b] /\ msg'[b] = msg[b]
      BY <2>1, LoopTypes
    <2> QED
      BY <2>2, <2>3 DEF SingleInv
  <1> QED
    BY <1>2, <1>3, <1>4, <1>5, <1>6, StepCommits

\* Who holds a message, through the batch or in hand.
LEMMA HoldsBatch ==
    ASSUME TypeOK, NEW c \in Consumers, NEW m \in Messages
    PROVE  Holds(c, m) <=> msg[c] = m \/ InBatch(c, m)
  <1>1. batch[c] \subseteq Messages \X (1 .. MaxDeliver)
    BY DEF TypeOK, Delivery
  <1>2. \A d \in batch[c] : d = <<d[1], d[2]>> /\ d[2] \in 1 .. MaxDeliver
    BY <1>1
  <1> QED
    BY <1>2 DEF Holds, InBatch

LEMMA SlackType ==
    ASSUME TypeOK, NEW m \in Messages
    PROVE  Slack(m) \in Int /\ Used \in Int /\ committed[m] \in Int /\ Due(m) \in {0, 1}
  BY BoundsAssumption DEF TypeOK, Slack, Used, Due

\* The books of a message after a step.
LEMMA Cover ==
    ASSUME TypeOK, TypeOK', NEW m \in Messages, Covered(m), NEW x,
           \/ Pending(m)' \subseteq Pending(m) /\ Slack(m) <= Slack(m)'
           \/ Pending(m)' \subseteq Pending(m) \cup {x} /\ Slack(m) + 1 <= Slack(m)'
           \/ Pending(m)' \subseteq Pending(m) \ {x} /\ x \in Pending(m) /\ Slack(m) - 1 <= Slack(m)'
    PROVE  Covered(m)'
  <1>1. PICK n \in Int : n = Slack(m)
    BY SlackType
  <1>2. PICK p \in Int : p = Slack(m)'
    BY BoundsAssumption DEF TypeOK, Slack, Used, Due
  <1>3. PICK S : S = Pending(m)'
    OBVIOUS
  <1>4. IsFiniteSet(Pending(m)) /\ Cardinality(Pending(m)) <= n
    BY <1>1 DEF Covered
  <1>5. \/ S \subseteq Pending(m) /\ n <= p
        \/ S \subseteq Pending(m) \cup {x} /\ n + 1 <= p
        \/ S \subseteq Pending(m) \ {x} /\ x \in Pending(m) /\ n - 1 <= p
    BY <1>1, <1>2, <1>3
  <1>6. IsFiniteSet(S) /\ Cardinality(S) <= p
    BY <1>4, <1>5, Ledger
  <1> QED
    BY <1>2, <1>3, <1>6 DEF Covered

LEMMA SlackChange ==
    ASSUME TypeOK, TypeOK', NEW m \in Messages
    PROVE  /\ Slack(m)' = Slack(m) + (faults - faults') - (committed'[m] - committed[m]) - (Due(m)' - Due(m))
           /\ Slack(m) \in Int /\ faults \in Int /\ faults' \in Int
           /\ committed[m] \in Int /\ committed'[m] \in Int /\ Due(m) \in {0, 1} /\ Due(m)' \in {0, 1}
  <1>1. MaxFaults \in Int /\ faults \in Int /\ faults' \in Int /\ committed[m] \in Int /\ committed'[m] \in Int
    BY BoundsAssumption DEF TypeOK
  <1>2. Due(m) \in {0, 1} /\ Due(m)' \in {0, 1}
    BY DEF Due
  <1> QED
    BY <1>1, <1>2 DEF Slack, Used

\* A message that stays with its consumers, or that is acked, is not more due.
LEMMA DueKept ==
    ASSUME NEW m \in Messages, stream'[m] = stream[m] \/ stream'[m] = "acked",
           \A b \in Consumers : Holds(b, m) => Holds(b, m)'
    PROVE  Due(m)' <= Due(m)
  <1>1. CASE stream'[m] = stream[m]
    BY <1>1 DEF Due
  <1>2. CASE stream'[m] = "acked"
    BY <1>2 DEF Due
  <1> QED
    BY <1>1, <1>2

\* The consumer moves and keeps what it has.
LEMMA StaysBooks ==
    ASSUME TypeOK, NEW c \in Consumers, NEW label \in PC, Stays(c, label), NEW m \in Messages
    PROVE  /\ \A b \in Consumers : Holds(b, m) => Holds(b, m)'
           /\ Pending(m)' \subseteq Pending(m) \cup {c}
           /\ msg[c] # m \/ pc[c] \notin {"ack", "dlq_ack"} => Pending(m)' \subseteq Pending(m)
           /\ msg[c] = m /\ ~InBatch(c, m) /\ label = "ack" => Pending(m)' \subseteq Pending(m) \ {c}
  <1>1. UNCHANGED <<batch, msg>> /\ pc'[c] = label /\ \A b \in Consumers : b # c => pc'[b] = pc[b]
    BY LoopTypes DEF Stays
  <1>2. \A b \in Consumers : (InBatch(b, m)' <=> InBatch(b, m)) /\ (Holds(b, m)' <=> Holds(b, m))
    BY <1>1 DEF InBatch, Holds
  <1>3. \A b \in Consumers : b # c => (Unsettled(b, m)' <=> Unsettled(b, m))
    BY <1>1, <1>2 DEF Unsettled
  <1>4. msg[c] # m \/ pc[c] \notin {"ack", "dlq_ack"} => (Unsettled(c, m)' => Unsettled(c, m))
    BY <1>1, <1>2 DEF Unsettled
  <1>5. msg[c] = m /\ ~InBatch(c, m) /\ label = "ack" => ~Unsettled(c, m)'
    BY <1>1, <1>2 DEF Unsettled
  <1> QED
    BY <1>2, <1>3, <1>4, <1>5 DEF Pending

\* The consumer lets go of the message in hand, and perhaps of its batch.
LEMMA DropsBooks ==
    ASSUME TypeOK, NEW c \in Consumers, Drops(c), NEW m \in Messages,
           batch' = batch \/ batch' = [batch EXCEPT ![c] = {}]
    PROVE  /\ Pending(m)' \subseteq Pending(m)
           /\ msg[c] # m /\ batch' = batch => \A b \in Consumers : Holds(b, m) => Holds(b, m)'
           /\ msg[c] = m /\ ~InBatch(c, m) => Pending(m)' \subseteq Pending(m) \ {c}
  <1>1. /\ msg'[c] = "none" /\ \A b \in Consumers : b # c => pc'[b] = pc[b] /\ msg'[b] = msg[b]
        /\ \A b \in Consumers : b # c => batch'[b] = batch[b]
        /\ batch'[c] \subseteq batch[c] /\ m # "none"
    BY LoopTypes, NoDeliveryAssumption DEF Drops
  <1>2. \A b \in Consumers : InBatch(b, m)' => InBatch(b, m)
    BY <1>1 DEF InBatch
  <1>3. \A b \in Consumers : Unsettled(b, m)' => Unsettled(b, m)
    BY <1>1, <1>2 DEF Unsettled
  <1>4. msg[c] = m /\ ~InBatch(c, m) => ~Unsettled(c, m)'
    BY <1>1, <1>2 DEF Unsettled
  <1>5. msg[c] # m /\ batch' = batch => \A b \in Consumers : Holds(b, m) => Holds(b, m)'
    BY <1>1 DEF Holds
  <1> QED
    BY <1>3, <1>4, <1>5 DEF Pending

LEMMA ProceedsCovered ==
    ASSUME TypeOK, TypeOK', NEW c \in Consumers, Proceeds(c), NEW m \in Messages, Covered(m)
    PROVE  Covered(m)'
  <1>1. PICK label \in PC : Stays(c, label)
    BY DEF Proceeds
  <1>2. Due(m)' <= Due(m)
    BY <1>1, StaysBooks, DueKept DEF Proceeds
  <1>3. committed'[m] = committed[m]
    BY DEF Proceeds
  <1>4. CASE faults' = faults /\ pc[c] \notin {"ack", "dlq_ack"}
    <2>1. Slack(m) <= Slack(m)'
      BY <1>2, <1>3, <1>4, SlackChange
    <2> QED
      BY <1>1, <1>4, <2>1, StaysBooks, Cover
  <1>5. CASE faults' = faults - 1
    <2>1. Slack(m) + 1 <= Slack(m)'
      BY <1>2, <1>3, <1>5, SlackChange
    <2> QED
      BY <1>1, <2>1, StaysBooks, Cover
  <1> QED
    BY <1>4, <1>5 DEF Proceeds

LEMMA CommitsCovered ==
    ASSUME TypeOK, TypeOK', SingleInv, NEW c \in Consumers, CommitsNow(c), NEW m \in Messages, Covered(m)
    PROVE  Covered(m)'
  <1>1. PICK label \in {"ack", "fail"} : Stays(c, label) /\ faults' = IF label = "ack" THEN faults ELSE faults - 1
    BY DEF CommitsNow
  <1>2. label \in PC /\ pc[c] = "commit" /\ stream' = stream
    BY DEF CommitsNow, PC
  <1>3. Due(m)' <= Due(m) /\ Pending(m)' \subseteq Pending(m)
    BY <1>1, <1>2, StaysBooks, DueKept
  <1>4. CASE msg[c] # m
    <2>1. committed'[m] = committed[m]
      BY <1>4 DEF CommitsNow, TypeOK
    <2>2. Slack(m) <= Slack(m)'
      BY <1>1, <1>3, <2>1, SlackChange
    <2> QED
      BY <1>3, <2>2, Cover
  <1>5. CASE msg[c] = m /\ label = "fail"
    <2>1. committed'[m] = committed[m] + 1
      BY <1>5 DEF CommitsNow, TypeOK
    <2>2. Slack(m) <= Slack(m)'
      BY <1>1, <1>3, <1>5, <2>1, SlackChange
    <2> QED
      BY <1>3, <2>2, Cover
  <1>6. CASE msg[c] = m /\ label = "ack"
    <2>1. committed'[m] = committed[m] + 1
      BY <1>6 DEF CommitsNow, TypeOK
    <2>2. Slack(m) - 1 <= Slack(m)'
      BY <1>1, <1>3, <1>6, <2>1, SlackChange
    <2>3. ~InBatch(c, m) /\ c \in Pending(m)
      BY <1>2, <1>6 DEF SingleInv, InBatch, Pending, Unsettled
    <2>4. Pending(m)' \subseteq Pending(m) \ {c}
      BY <1>1, <1>2, <1>6, <2>3, StaysBooks
    <2> QED
      BY <2>2, <2>3, <2>4, Cover
  <1> QED
    BY <1>4, <1>5, <1>6

LEMMA GivesUpCovered ==
    ASSUME TypeOK, TypeOK', NEW c \in Consumers, GivesUp(c), NEW m \in Messages, Covered(m)
    PROVE  Covered(m)'
  <1>1. Pending(m)' \subseteq Pending(m)
    BY DropsBooks DEF GivesUp
  <1>2. faults' = faults - 1 /\ committed'[m] = committed[m]
    BY DEF GivesUp
  <1>3. Slack(m) <= Slack(m)'
    BY <1>2, SlackChange
  <1> QED
    BY <1>1, <1>3, Cover

LEMMA SettlesCovered ==
    ASSUME TypeOK, TypeOK', SingleInv, NEW c \in Consumers, SettlesNow(c), NEW m \in Messages, Covered(m)
    PROVE  Covered(m)'
  <1>1. Drops(c) /\ batch' = batch /\ faults' = faults /\ committed'[m] = committed[m]
    BY DEF SettlesNow
  <1>2. Pending(m)' \subseteq Pending(m)
    BY <1>1, DropsBooks
  <1>3. CASE msg[c] # m
    <2>1. stream'[m] = stream[m]
      BY <1>3 DEF SettlesNow, TypeOK
    <2>2. Due(m)' <= Due(m)
      BY <1>1, <1>3, <2>1, DropsBooks, DueKept
    <2>3. Slack(m) <= Slack(m)'
      BY <1>1, <2>2, SlackChange
    <2> QED
      BY <1>2, <2>3, Cover
  <1>4. CASE msg[c] = m /\ stream' = [stream EXCEPT ![msg[c]] = "acked"]
    <2>1. stream'[m] = "acked"
      BY <1>4 DEF TypeOK
    <2>2. Due(m)' = 0
      BY <2>1 DEF Due
    <2>3. Slack(m) <= Slack(m)'
      BY <1>1, <2>2, SlackChange
    <2> QED
      BY <1>2, <2>3, Cover
  \* A nak makes the message due again and its delivery is over.
  <1>5. CASE msg[c] = m /\ pc[c] = "nak"
    <2>1. ~InBatch(c, m) /\ c \in Pending(m)
      BY <1>5 DEF SingleInv, InBatch, Pending, Unsettled
    <2>2. Pending(m)' \subseteq Pending(m) \ {c}
      BY <1>1, <1>5, <2>1, DropsBooks
    <2>3. Slack(m) - 1 <= Slack(m)'
      BY <1>1, SlackChange
    <2> QED
      BY <2>1, <2>2, <2>3, Cover
  <1> QED
    BY <1>3, <1>4, <1>5 DEF SettlesNow

LEMMA NobodyCovered ==
    ASSUME TypeOK, TypeOK', NobodyMoves, NEW m \in Messages, Covered(m)
    PROVE  Covered(m)'
  <1>1. UNCHANGED <<batch, msg, pc>> /\ committed'[m] = committed[m]
    BY DEF NobodyMoves
  <1>2. Pending(m)' = Pending(m) /\ \A b \in Consumers : Holds(b, m)' <=> Holds(b, m)
    BY <1>1 DEF Pending, Unsettled, InBatch, Holds
  <1>3. \/ faults' = faults - 1
        \/ faults' = faults /\ Due(m)' <= Due(m)
    <2>1. CASE stream'[m] = stream[m] /\ faults' = faults
      BY <1>2, <2>1, DueKept
    <2>2. CASE /\ faults' = faults
               /\ stream[m] = "absent" \/ (stream[m] = "inflight" /\ \A c \in Consumers : ~Holds(c, m))
      <3>1. Due(m) = 1
        BY <2>2 DEF Due
      <3> QED
        BY <2>2, <3>1, SlackChange
    <2> QED
      BY <2>1, <2>2 DEF NobodyMoves
  <1>4. Slack(m) <= Slack(m)'
    BY <1>1, <1>3, SlackChange
  <1> QED
    BY <1>2, <1>4, Cover

\* A fetched message is in the batch and no longer due.
LEMMA FetchCovered ==
    ASSUME TypeOK, TypeOK', NEW c \in Consumers, Fetch(c), NEW m \in Messages, Covered(m)
    PROVE  Covered(m)'
  <1>1. PICK B \in SUBSET {n \in Messages : stream[n] = "ready"} :
          /\ stream' = [n \in Messages |-> IF n \in B THEN "inflight" ELSE stream[n]]
          /\ batch' = [batch EXCEPT ![c] = {<<n, delivered'[n]>> : n \in B}]
    BY DEF Fetch
  <1>2. UNCHANGED <<msg, pc, committed, faults>> /\ batch[c] = {}
    BY DEF Fetch, effectVars
  <1>3. batch'[c] = {<<n, delivered'[n]>> : n \in B} /\ \A b \in Consumers : b # c => batch'[b] = batch[b]
    BY <1>1, LoopTypes
  <1>4. \A b \in Consumers : b # c => (InBatch(b, m)' <=> InBatch(b, m))
    BY <1>3 DEF InBatch
  <1>5. InBatch(c, m)' <=> m \in B
    <2>1. ASSUME m \in B PROVE \E d \in batch'[c] : d[1] = m
      <3>1. <<m, delivered'[m]>> \in batch'[c] /\ <<m, delivered'[m]>>[1] = m
        BY <1>3, <2>1
      <3> QED
        BY <3>1
    <2>2. ASSUME NEW d \in batch'[c], d[1] = m PROVE m \in B
      <3>1. PICK n \in B : d = <<n, delivered'[n]>>
        BY <1>3
      <3> QED
        BY <2>2, <3>1
    <2> QED
      BY <2>1, <2>2 DEF InBatch
  <1>6. ~InBatch(c, m)
    BY <1>2 DEF InBatch
  <1>7. \A b \in Consumers : b # c => (Unsettled(b, m)' <=> Unsettled(b, m))
    BY <1>2, <1>4 DEF Unsettled
  <1>8. committed'[m] = committed[m] /\ faults' = faults
    BY <1>2
  <1>9. CASE m \in B
    <2>1. Due(m) = 1
      BY <1>9 DEF Due
    <2>2. Holds(c, m)'
      <3>1. PICK d \in batch'[c] : d[1] = m
        BY <1>5, <1>9 DEF InBatch
      <3>2. d \in Messages \X (1 .. MaxDeliver)
        BY <3>1 DEF TypeOK, Delivery
      <3> QED
        BY <3>1, <3>2 DEF Holds
    <2>3. Due(m)' = 0
      BY <1>1, <1>9, <2>2 DEF Due
    <2>4. Slack(m) + 1 <= Slack(m)'
      BY <1>8, <2>1, <2>3, SlackChange
    <2>5. Pending(m)' \subseteq Pending(m) \cup {c}
      BY <1>7 DEF Pending
    <2> QED
      BY <2>4, <2>5, Cover
  <1>10. CASE m \notin B
    <2>1. Unsettled(c, m)' <=> Unsettled(c, m)
      BY <1>2, <1>5, <1>6, <1>10 DEF Unsettled
    <2>2. Pending(m)' = Pending(m)
      BY <1>7, <2>1 DEF Pending
    <2>3. stream'[m] = stream[m]
      BY <1>1, <1>10
    <2>4. \A b \in Consumers : Holds(b, m) => Holds(b, m)'
      BY <1>2, <1>3 DEF Holds
    <2>5. Due(m)' <= Due(m)
      BY <2>3, <2>4, DueKept
    <2>6. Slack(m) <= Slack(m)'
      BY <1>8, <2>5, SlackChange
    <2> QED
      BY <2>2, <2>6, Cover
  <1> QED
    BY <1>9, <1>10

LEMMA TakeCovered ==
    ASSUME TypeOK, TypeOK', NEW c \in Consumers, TakeNext(c), NEW m \in Messages, Covered(m)
    PROVE  Covered(m)'
  <1>1. PICK d \in batch[c] : batch' = [batch EXCEPT ![c] = @ \ {d}] /\ msg' = [msg EXCEPT ![c] = d[1]]
    BY DEF TakeNext
  <1>2. UNCHANGED <<stream, faults>> /\ committed'[m] = committed[m] /\ msg[c] = "none"
    BY LoopTypes DEF TakeNext, effectVars
  <1>3. /\ batch'[c] = batch[c] \ {d} /\ msg'[c] = d[1] /\ m # "none"
        /\ \A b \in Consumers : b # c => batch'[b] = batch[b] /\ msg'[b] = msg[b] /\ pc'[b] = pc[b]
    BY <1>1, LoopTypes, NoDeliveryAssumption DEF TakeNext
  <1>4. \A b \in Consumers : Unsettled(b, m)' => Unsettled(b, m)
    BY <1>3 DEF Unsettled, InBatch
  <1>5. \A b \in Consumers : Holds(b, m) => Holds(b, m)'
    BY <1>2, <1>3 DEF Holds
  <1>6. Due(m)' <= Due(m)
    BY <1>2, <1>5, DueKept
  <1>7. Slack(m) <= Slack(m)'
    BY <1>2, <1>6, SlackChange
  <1>8. Pending(m)' \subseteq Pending(m)
    BY <1>4 DEF Pending
  <1> QED
    BY <1>7, <1>8, Cover

LEMMA NextCommit == TypeOK /\ TypeOK' /\ SingleInv /\ CommitInv /\ [Next]_vars => CommitInv'
  <1> SUFFICES ASSUME TypeOK, TypeOK', SingleInv, CommitInv, [Next]_vars, NEW m \in Messages
               PROVE  Covered(m)'
    BY DEF CommitInv
  <1>1. Covered(m)
    BY DEF CommitInv
  <1> QED
    BY <1>1, StepCommits, NobodyCovered, FetchCovered, TakeCovered, ProceedsCovered, CommitsCovered,
       GivesUpCovered, SettlesCovered

\* The side effects of a message are committed once, every further commit being
\* owed to a fault of its own, for any number of consumers and messages and any
\* batch size: the loop of event-ingest acks what it committed, and JetStream
\* redelivers only what is nakked or outlives ack_wait.
THEOREM CommitsAlwaysCaused == Spec => []CommitsCaused
  <1>1. TypeOK /\ CommitInv => CommitsCaused
    <2> SUFFICES ASSUME TypeOK, CommitInv, NEW m \in Messages PROVE committed[m] <= 1 + Used
      BY DEF CommitsCaused
    <2>1. Cardinality(Pending(m)) \in Nat /\ Cardinality(Pending(m)) <= Slack(m)
      BY FS_CardinalityType DEF CommitInv, Covered
    <2>2. Slack(m) >= 0
      BY <2>1, SlackType
    <2> QED
      BY <2>2, SlackType DEF Slack
  <1>2. Spec => [](SingleInv /\ CommitInv)
    BY InitCommit, NextSingle, NextCommit, TypeCorrect, PTL DEF Spec
  <1> QED
    BY <1>1, <1>2, TypeCorrect, PTL
=============================================================================
