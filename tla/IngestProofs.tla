---------------------------- MODULE IngestProofs ----------------------------
(***************************************************************************)
(* Proofs about EventIngest for all sets of requests, keys, messages and   *)
(* consumers, every batch size, delivery limit and number of faults, and   *)
(* that it implements IngestContract.                                      *)
(***************************************************************************)
EXTENDS IngestImplements, TLAPS

(***************************************************************************)
(* Type correctness.                                                       *)
(***************************************************************************)
\* The part of TypeOK about the consumer loop.
LoopOK ==
    /\ batch \in [Consumers -> SUBSET Delivery]
    /\ msg \in [Consumers -> Messages \cup {"none"}]
    /\ tries \in [Consumers -> 0 .. MaxDeliver]
    /\ pc \in [Consumers -> PC]
    /\ handling \in [Consumers -> BOOLEAN]
    /\ \A c \in Consumers :
          /\ pc[c] = "idle" <=> msg[c] = "none"
          /\ msg[c] # "none" => tries[c] <= delivered[msg[c]]
          /\ \A d \in batch[c] : d[2] <= delivered[d[1]]

\* The part of TypeOK about everything else.
DataOK ==
    /\ kind \in [Messages -> Kinds]
    /\ req \in [Requests -> ReqState]
    /\ cache \in [Keys -> Requests \cup {"none"}]
    /\ stream \in [Messages -> StreamState]
    /\ delivered \in [Messages -> 0 .. MaxDeliver]
    /\ evaluated \subseteq Messages
    /\ committed \in [Messages -> Nat]
    /\ dlq \subseteq Messages
    /\ faults \in 0 .. MaxFaults

LEMMA InitTypeOK == Init => TypeOK
  BY MessagesAssumption, BoundsAssumption
  DEF Init, TypeOK, Kinds, ReqState, StreamState, PC

LEMMA FaultType ==
    ASSUME TypeOK, Fault
    PROVE  faults' \in 0 .. MaxFaults
  BY BoundsAssumption DEF TypeOK, Fault

\* A consumer that goes on with the message in hand.
LEMMA GotoType ==
    ASSUME TypeOK, NEW c \in Consumers, NEW label \in PC \ {"idle"}, pc[c] # "idle",
           Goto(c, label), UNCHANGED delivered
    PROVE  LoopOK'
  BY DEF TypeOK, Goto, LoopOK

\* A consumer that is done with it.
LEMMA AdvanceType ==
    ASSUME TypeOK, NEW c \in Consumers, Advance(c), UNCHANGED delivered
    PROVE  LoopOK'
  <1> "idle" \in PC /\ MaxDeliver \in Nat
    BY BoundsAssumption DEF PC
  <1> QED
    BY NoDeliveryAssumption DEF TypeOK, Advance, LoopOK

LEMMA RaiseType ==
    ASSUME TypeOK, NEW c \in Consumers, pc[c] # "idle", Raise(c), UNCHANGED delivered
    PROVE  LoopOK'
  <1>1. CASE handling[c]
    BY <1>1, AdvanceType DEF Raise
  <1>2. CASE ~handling[c]
    BY <1>2 DEF Raise, TypeOK, LoopOK, PC
  <1> QED
    BY <1>1, <1>2

LEMMA FetchType ==
    ASSUME TypeOK, NEW c \in Consumers, Fetch(c)
    PROVE  LoopOK' /\ stream' \in [Messages -> StreamState] /\ delivered' \in [Messages -> 0 .. MaxDeliver]
  <1>1. PICK B \in SUBSET {m \in Messages : stream[m] = "ready"} :
          /\ stream' = [m \in Messages |-> IF m \in B THEN "inflight" ELSE stream[m]]
          /\ delivered' = [m \in Messages |->
                              IF m \in B /\ delivered[m] < MaxDeliver
                              THEN delivered[m] + 1 ELSE delivered[m]]
          /\ batch' = [batch EXCEPT ![c] = {<<m, delivered'[m]>> : m \in B}]
    BY DEF Fetch
  <1>2. MaxDeliver \in Nat /\ MaxDeliver > 0
    BY BoundsAssumption
  <1>3. stream' \in [Messages -> StreamState]
    BY <1>1 DEF TypeOK, StreamState
  <1>4. delivered' \in [Messages -> 0 .. MaxDeliver]
    BY <1>1, <1>2 DEF TypeOK
  <1>5. \A m \in Messages : delivered'[m] >= delivered[m] /\ (m \in B => delivered'[m] \in 1 .. MaxDeliver)
    BY <1>1, <1>2 DEF TypeOK
  <1>6. {<<m, delivered'[m]>> : m \in B} \in SUBSET Delivery
    BY <1>1, <1>5 DEF Delivery
  <1>7. batch' \in [Consumers -> SUBSET Delivery]
    BY <1>1, <1>6 DEF TypeOK
  <1>8. UNCHANGED <<msg, tries, pc, handling>>
    BY DEF Fetch
  <1>9. ASSUME NEW b \in Consumers, NEW d \in batch'[b] PROVE d[2] <= delivered'[d[1]]
    <2>1. CASE b = c
      <3>1. PICK m \in B : d = <<m, delivered'[m]>>
        BY <1>1, <2>1, <1>9 DEF TypeOK
      <3> QED
        BY <1>4, <3>1
    <2>2. CASE b # c
      <3>1. d \in batch[b] /\ d \in Delivery
        BY <1>1, <1>9, <2>2 DEF TypeOK
      <3>2. d[1] \in Messages /\ d[2] \in 1 .. MaxDeliver /\ d[2] <= delivered[d[1]]
        BY <3>1 DEF TypeOK, Delivery
      <3>3. delivered'[d[1]] >= delivered[d[1]] /\ delivered[d[1]] \in Nat /\ delivered'[d[1]] \in Nat
        BY <1>4, <1>5, <3>2 DEF TypeOK
      <3> QED
        BY <3>2, <3>3
    <2> QED
      BY <2>1, <2>2
  <1>10. ASSUME NEW b \in Consumers, msg[b] # "none" PROVE tries[b] <= delivered'[msg[b]]
    <2>1. msg[b] \in Messages /\ tries[b] \in Nat /\ tries[b] <= delivered[msg[b]]
      BY <1>10 DEF TypeOK
    <2>2. delivered'[msg[b]] >= delivered[msg[b]] /\ delivered[msg[b]] \in Nat /\ delivered'[msg[b]] \in Nat
      BY <1>4, <1>5, <2>1 DEF TypeOK
    <2> QED
      BY <2>1, <2>2
  <1> QED
    BY <1>3, <1>4, <1>7, <1>8, <1>9, <1>10 DEF LoopOK, TypeOK

LEMMA TakeNextType ==
    ASSUME TypeOK, NEW c \in Consumers, TakeNext(c)
    PROVE  LoopOK'
  <1>1. PICK d \in batch[c] :
          /\ batch' = [batch EXCEPT ![c] = @ \ {d}]
          /\ msg' = [msg EXCEPT ![c] = d[1]]
          /\ tries' = [tries EXCEPT ![c] = d[2]]
          /\ pc' = [pc EXCEPT ![c] = CASE kind[d[1]] = "broken" -> "fail"
                                       [] kind[d[1]] = "envelope" -> "ack"
                                       [] OTHER -> "evaluate"]
    BY DEF TakeNext
  <1>2. d \in Delivery /\ d[2] <= delivered[d[1]]
    BY DEF TypeOK
  <1>3. d[1] \in Messages /\ d[2] \in 1 .. MaxDeliver /\ d[1] # "none"
    BY <1>2, NoDeliveryAssumption DEF Delivery
  <1>4. PICK p \in PC \ {"idle"} : pc' = [pc EXCEPT ![c] = p]
    BY <1>1 DEF PC
  <1>5. UNCHANGED <<handling, delivered>>
    BY DEF TakeNext
  <1>6. batch' \in [Consumers -> SUBSET Delivery] /\ \A b \in Consumers : batch'[b] \subseteq batch[b]
    BY <1>1 DEF TypeOK
  <1>7. tries' \in [Consumers -> 0 .. MaxDeliver] /\ msg' \in [Consumers -> Messages \cup {"none"}]
    BY <1>1, <1>3, BoundsAssumption DEF TypeOK
  <1>8. pc' \in [Consumers -> PC]
    BY <1>4 DEF TypeOK
  <1> QED
    BY <1>1, <1>2, <1>3, <1>4, <1>5, <1>6, <1>7, <1>8 DEF LoopOK, TypeOK

LEMMA NextTypeOK == TypeOK /\ [Next]_vars => TypeOK'
  <1> SUFFICES ASSUME TypeOK, [Next]_vars PROVE LoopOK' /\ DataOK'
    BY DEF TypeOK, LoopOK, DataOK
  <1> USE DEF requestVars, loopVars, effectVars
  <1>1. DataOK /\ LoopOK
    BY DEF TypeOK, LoopOK, DataOK
  <1>2. ASSUME UNCHANGED <<batch, msg, tries, pc, handling, delivered>> PROVE LoopOK'
    BY <1>1, <1>2 DEF LoopOK
  <1>3. \A c \in Consumers : pc[c] # "idle" => msg[c] \in Messages
    BY DEF TypeOK
  <1>4. ASSUME Fault PROVE faults' \in 0 .. MaxFaults
    BY <1>4, FaultType
  <1>5. CASE UNCHANGED vars
    BY <1>1, <1>2, <1>5 DEF vars, DataOK
  <1>6. ASSUME NEW r \in Requests, Arrive(r) PROVE LoopOK' /\ DataOK'
    <2>1. LoopOK'
      BY <1>2, <1>6 DEF Arrive
    <2> QED
      BY <1>1, <1>3, <1>4, <1>6, <2>1 DEF Arrive, DataOK, ReqState
  <1>7. ASSUME NEW r \in Requests, CheckKey(r) PROVE LoopOK' /\ DataOK'
    <2>1. LoopOK'
      BY <1>2, <1>7 DEF CheckKey
    <2> QED
      BY <1>1, <1>3, <1>4, <1>7, <2>1 DEF CheckKey, DataOK, ReqState
  <1>8. ASSUME NEW r \in Requests, CheckKeyError(r) PROVE LoopOK' /\ DataOK'
    <2>1. LoopOK'
      BY <1>2, <1>8 DEF CheckKeyError
    <2> QED
      BY <1>1, <1>3, <1>4, <1>8, <2>1 DEF CheckKeyError, DataOK, ReqState
  <1>9. ASSUME NEW r \in Requests, Publish(r) PROVE LoopOK' /\ DataOK'
    <2>1. LoopOK'
      BY <1>2, <1>9 DEF Publish
    <2> QED
      BY <1>1, <1>3, <1>4, <1>9, <2>1, RequestsAssumption DEF Publish, DataOK, StreamState, Unpublished
  <1>10. ASSUME NEW r \in Requests, PublishError(r) PROVE LoopOK' /\ DataOK'
    <2>1. LoopOK'
      BY <1>2, <1>10 DEF PublishError
    <2> QED
      BY <1>1, <1>3, <1>4, <1>10, <2>1, RequestsAssumption DEF PublishError, DataOK, ReqState, StreamState, Unpublished
  <1>11. ASSUME NEW r \in Requests, Respond(r) PROVE LoopOK' /\ DataOK'
    <2>1. LoopOK'
      BY <1>2, <1>11 DEF Respond
    <2> QED
      BY <1>1, <1>3, <1>4, <1>11, <2>1, RequestsAssumption DEF Respond, DataOK, ReqState, Keyed
  <1>12. ASSUME NEW r \in Requests, RespondSetError(r) PROVE LoopOK' /\ DataOK'
    <2>1. LoopOK'
      BY <1>2, <1>12 DEF RespondSetError
    <2> QED
      BY <1>1, <1>3, <1>4, <1>12, <2>1, RequestsAssumption DEF RespondSetError, DataOK, ReqState, Keyed
  <1>13. ASSUME NEW r \in Requests, RequestDies(r) PROVE LoopOK' /\ DataOK'
    <2>1. LoopOK'
      BY <1>2, <1>13 DEF RequestDies
    <2> QED
      BY <1>1, <1>3, <1>4, <1>13, <2>1 DEF RequestDies, DataOK, ReqState
  <1>14. ASSUME NEW k \in Keys, KeyExpires(k) PROVE LoopOK' /\ DataOK'
    <2>1. LoopOK'
      BY <1>2, <1>14 DEF KeyExpires
    <2> QED
      BY <1>1, <1>3, <1>4, <1>14, <2>1 DEF KeyExpires, DataOK
  <1>15. ASSUME NEW c \in Consumers, Fetch(c) PROVE LoopOK' /\ DataOK'
    <2>1. LoopOK' /\ stream' \in [Messages -> StreamState] /\ delivered' \in [Messages -> 0 .. MaxDeliver]
      BY <1>15, FetchType
    <2> QED
      BY <1>1, <1>15, <2>1 DEF Fetch, DataOK
  <1>16. ASSUME NEW c \in Consumers, TakeNext(c) PROVE LoopOK' /\ DataOK'
    BY <1>1, <1>16, TakeNextType DEF TakeNext, DataOK
  <1>17. ASSUME NEW c \in Consumers, Evaluate2xx(c) PROVE LoopOK' /\ DataOK'
    <2>1. LoopOK'
      BY <1>17, GotoType DEF Evaluate2xx, PC
    <2> QED
      BY <1>1, <1>3, <1>4, <1>17, <2>1 DEF Evaluate2xx, DataOK
  <1>18. ASSUME NEW c \in Consumers, Evaluate4xx(c) PROVE LoopOK' /\ DataOK'
    <2>1. LoopOK'
      BY <1>18, GotoType DEF Evaluate4xx, PC
    <2> QED
      BY <1>1, <1>3, <1>4, <1>18, <2>1 DEF Evaluate4xx, DataOK
  <1>19. ASSUME NEW c \in Consumers, Evaluate5xx(c) PROVE LoopOK' /\ DataOK'
    <2>1. LoopOK'
      BY <1>19, GotoType DEF Evaluate5xx, PC
    <2> QED
      BY <1>1, <1>3, <1>4, <1>19, <2>1 DEF Evaluate5xx, DataOK
  <1>20. ASSUME NEW c \in Consumers, Commit(c) PROVE LoopOK' /\ DataOK'
    <2>1. LoopOK'
      BY <1>20, GotoType DEF Commit, PC
    <2> QED
      BY <1>1, <1>3, <1>4, <1>20, <2>1 DEF Commit, DataOK
  <1>21. ASSUME NEW c \in Consumers, CommitRefused(c) PROVE LoopOK' /\ DataOK'
    <2>1. LoopOK'
      BY <1>21, GotoType DEF CommitRefused, PC
    <2> QED
      BY <1>1, <1>3, <1>4, <1>21, <2>1 DEF CommitRefused, DataOK
  <1>22. ASSUME NEW c \in Consumers, CommitAnswerLost(c) PROVE LoopOK' /\ DataOK'
    <2>1. LoopOK'
      BY <1>22, GotoType DEF CommitAnswerLost, PC
    <2> QED
      BY <1>1, <1>3, <1>4, <1>22, <2>1 DEF CommitAnswerLost, DataOK
  <1>23. ASSUME NEW c \in Consumers, Park(c) PROVE LoopOK' /\ DataOK'
    <2>1. LoopOK'
      BY <1>23, GotoType DEF Park, PC
    <2> QED
      BY <1>1, <1>3, <1>4, <1>23, <2>1 DEF Park, DataOK
  <1>24. ASSUME NEW c \in Consumers, ParkError(c) PROVE LoopOK' /\ DataOK'
    <2>1. LoopOK'
      BY <1>24, GotoType DEF ParkError, PC
    <2> QED
      BY <1>1, <1>3, <1>4, <1>24, <2>1 DEF ParkError, DataOK
  <1>25. ASSUME NEW c \in Consumers, FailureNaks(c) PROVE LoopOK' /\ DataOK'
    <2>1. LoopOK'
      BY <1>25, GotoType DEF FailureNaks, PC
    <2> QED
      BY <1>1, <1>3, <1>4, <1>25, <2>1 DEF FailureNaks, DataOK
  <1>26. ASSUME NEW c \in Consumers, FailureParks(c) PROVE LoopOK' /\ DataOK'
    <2>1. LoopOK'
      BY <1>26, GotoType DEF FailureParks, PC
    <2> QED
      BY <1>1, <1>3, <1>4, <1>26, <2>1 DEF FailureParks, DataOK
  <1>27. ASSUME NEW c \in Consumers, FailureParkError(c) PROVE LoopOK' /\ DataOK'
    <2>1. LoopOK'
      BY <1>27, GotoType DEF FailureParkError, PC
    <2> QED
      BY <1>1, <1>3, <1>4, <1>27, <2>1 DEF FailureParkError, DataOK
  <1>28. ASSUME NEW c \in Consumers, EvaluateError(c) PROVE LoopOK' /\ DataOK'
    <2>1. LoopOK'
      BY <1>28, RaiseType DEF EvaluateError
    <2> QED
      BY <1>1, <1>3, <1>4, <1>28, <2>1 DEF EvaluateError, DataOK, StreamState
  <1>29. ASSUME NEW c \in Consumers, Ack(c) PROVE LoopOK' /\ DataOK'
    <2>1. LoopOK'
      BY <1>29, AdvanceType DEF Ack
    <2> QED
      BY <1>1, <1>3, <1>4, <1>29, <2>1 DEF Ack, DataOK, StreamState
  <1>30. ASSUME NEW c \in Consumers, SettlementLost(c) PROVE LoopOK' /\ DataOK'
    <2>1. LoopOK'
      BY <1>30, AdvanceType DEF SettlementLost
    <2> QED
      BY <1>1, <1>3, <1>4, <1>30, <2>1 DEF SettlementLost, DataOK, StreamState
  <1>31. ASSUME NEW c \in Consumers, Nak(c) PROVE LoopOK' /\ DataOK'
    <2>1. LoopOK'
      BY <1>31, AdvanceType DEF Nak
    <2> QED
      BY <1>1, <1>3, <1>4, <1>31, <2>1 DEF Nak, DataOK, StreamState
  <1>32. ASSUME NEW c \in Consumers, SettlementError(c) PROVE LoopOK' /\ DataOK'
    <2>1. LoopOK'
      <3>1. CASE pc[c] = "dlq_ack"
        BY <1>32, <3>1, GotoType DEF SettlementError, PC
      <3>2. CASE pc[c] # "dlq_ack"
        BY <1>32, <3>2, RaiseType DEF SettlementError
      <3> QED
        BY <3>1, <3>2
    <2> QED
      BY <1>1, <1>4, <1>32, <2>1 DEF SettlementError, DataOK
  <1>33. ASSUME NEW c \in Consumers, Crash(c) PROVE LoopOK' /\ DataOK'
    <2>1. LoopOK'
      BY <1>33, BoundsAssumption DEF Crash, TypeOK, LoopOK, PC
    <2> QED
      BY <1>1, <1>4, <1>33, <2>1 DEF Crash, DataOK
  <1>34. ASSUME NEW m \in Messages, ForeignPublish(m) PROVE LoopOK' /\ DataOK'
    <2>1. LoopOK'
      BY <1>2, <1>34 DEF ForeignPublish
    <2> QED
      BY <1>1, <1>3, <1>4, <1>34, <2>1 DEF ForeignPublish, DataOK, StreamState
  <1>35. ASSUME NEW m \in Messages, AckWait(m) PROVE LoopOK' /\ DataOK'
    <2>1. LoopOK'
      BY <1>2, <1>35 DEF AckWait
    <2> QED
      BY <1>1, <1>3, <1>4, <1>35, <2>1 DEF AckWait, DataOK, StreamState
  <1> QED
    BY <1>5, <1>6, <1>7, <1>8, <1>9, <1>10, <1>11, <1>12, <1>13, <1>14, <1>15, <1>16, <1>17, <1>18, <1>19, <1>20, <1>21, <1>22, <1>23, <1>24, <1>25, <1>26, <1>27, <1>28, <1>29, <1>30, <1>31, <1>32, <1>33, <1>34, <1>35
    DEF Next, RequestStep, RequestFault, ConsumerStep, ConsumerFault

\* Every variable of EventIngest keeps its type; a delivery in a batch never
\* claims more deliveries than the stream has counted, and the loop has a
\* message in hand exactly when it is in its body.
THEOREM TypeCorrect == Spec => []TypeOK
  BY InitTypeOK, NextTypeOK, PTL DEF Spec

(***************************************************************************)
(* What one step does.                                                     *)
(***************************************************************************)
\* Nothing that happened to a message is undone, and a settled one stays so.
Grows ==
    /\ kind' = kind
    /\ evaluated \subseteq evaluated' /\ dlq \subseteq dlq'
    /\ \A m \in Messages :
          /\ stream[m] # "absent" => stream'[m] # "absent"
          /\ stream[m] = "acked" => stream'[m] = "acked"
          /\ delivered'[m] >= delivered[m]
          /\ committed'[m] >= committed[m]

\* A step that leaves the consumers and what they brought about alone.
NoConsumerMoves ==
    UNCHANGED <<batch, msg, pc, tries, delivered, evaluated, committed, dlq>>

\* A step of consumer c inside its loop body, or from one message to the next.
ConsumerEffect(c) ==
    /\ \A b \in Consumers : b # c => pc'[b] = pc[b] /\ msg'[b] = msg[b] /\ batch'[b] = batch[b]
    /\ batch'[c] \subseteq batch[c]
    /\ pc'[c] # "idle" => \/ msg'[c] = msg[c] /\ pc[c] # "idle"
                          \/ \E d \in batch[c] : msg'[c] = d[1]
    /\ pc'[c] = "park" => kind[msg'[c]] = "rejected"
    /\ pc'[c] \in {"ack", "dlq_ack"} =>
          \/ kind[msg'[c]] = "envelope"
          \/ committed'[msg'[c]] > 0
          \/ msg'[c] \in dlq'
          \/ ~OrchestratorSet /\ msg'[c] \in evaluated'
    /\ \/ dlq' = dlq
       \/ /\ dlq' = dlq \cup {msg[c]} /\ pc[c] # "idle"
          /\ pc[c] = "park" \/ Exhausted(c)

\* Only Fetch brings deliveries into a batch.
FetchEffect(c) ==
    /\ \A b \in Consumers : b # c => batch'[b] = batch[b]
    /\ \A d \in batch'[c] : d[1] \in Messages /\ stream'[d[1]] # "absent"
    /\ UNCHANGED <<pc, msg, evaluated, committed, dlq>>

LEMMA StepEffect ==
    ASSUME TypeOK, Next
    PROVE  /\ Grows
           /\ \/ NoConsumerMoves
              \/ \E c \in Consumers : ConsumerEffect(c) \/ FetchEffect(c)
  <1> USE DEF requestVars, loopVars, effectVars
  <1>1. \A c \in Consumers : pc[c] # "idle" => msg[c] \in Messages
    BY DEF TypeOK
  <1>2. /\ stream \in [Messages -> StreamState] /\ delivered \in [Messages -> 0 .. MaxDeliver]
        /\ committed \in [Messages -> Nat] /\ MaxDeliver \in Nat
    BY BoundsAssumption DEF TypeOK
  <1>3. /\ batch \in [Consumers -> SUBSET Delivery] /\ msg \in [Consumers -> Messages \cup {"none"}]
        /\ pc \in [Consumers -> PC]
    BY DEF TypeOK
  <1>4. ASSUME NEW r \in Requests, Arrive(r) PROVE Grows /\ NoConsumerMoves
    BY <1>2, <1>4 DEF Arrive, Grows, NoConsumerMoves
  <1>5. ASSUME NEW r \in Requests, CheckKey(r) PROVE Grows /\ NoConsumerMoves
    BY <1>2, <1>5 DEF CheckKey, Grows, NoConsumerMoves
  <1>6. ASSUME NEW r \in Requests, CheckKeyError(r) PROVE Grows /\ NoConsumerMoves
    BY <1>2, <1>6 DEF CheckKeyError, Grows, NoConsumerMoves
  <1>7. ASSUME NEW r \in Requests, Publish(r) PROVE Grows /\ NoConsumerMoves
    BY <1>2, <1>7 DEF Publish, Unpublished, Grows, NoConsumerMoves
  <1>8. ASSUME NEW r \in Requests, PublishError(r) PROVE Grows /\ NoConsumerMoves
    BY <1>2, <1>8 DEF PublishError, Unpublished, Grows, NoConsumerMoves
  <1>9. ASSUME NEW r \in Requests, Respond(r) PROVE Grows /\ NoConsumerMoves
    BY <1>2, <1>9 DEF Respond, Grows, NoConsumerMoves
  <1>10. ASSUME NEW r \in Requests, RespondSetError(r) PROVE Grows /\ NoConsumerMoves
    BY <1>2, <1>10 DEF RespondSetError, Grows, NoConsumerMoves
  <1>11. ASSUME NEW r \in Requests, RequestDies(r) PROVE Grows /\ NoConsumerMoves
    BY <1>2, <1>11 DEF RequestDies, Grows, NoConsumerMoves
  <1>12. ASSUME NEW k \in Keys, KeyExpires(k) PROVE Grows /\ NoConsumerMoves
    BY <1>2, <1>12 DEF KeyExpires, Grows, NoConsumerMoves
  <1>13. ASSUME NEW m \in Messages, ForeignPublish(m) PROVE Grows /\ NoConsumerMoves
    BY <1>2, <1>13 DEF ForeignPublish, Grows, NoConsumerMoves
  <1>14. ASSUME NEW m \in Messages, AckWait(m) PROVE Grows /\ NoConsumerMoves
    BY <1>2, <1>14 DEF AckWait, Grows, NoConsumerMoves
  <1>15. ASSUME NEW c \in Consumers, Fetch(c) PROVE Grows /\ FetchEffect(c)
    <2>1. PICK B \in SUBSET {m \in Messages : stream[m] = "ready"} :
            /\ stream' = [m \in Messages |-> IF m \in B THEN "inflight" ELSE stream[m]]
            /\ delivered' = [m \in Messages |->
                                IF m \in B /\ delivered[m] < MaxDeliver
                                THEN delivered[m] + 1 ELSE delivered[m]]
            /\ batch' = [batch EXCEPT ![c] = {<<m, delivered'[m]>> : m \in B}]
      BY <1>15 DEF Fetch
    <2>2. Grows
      BY <1>2, <1>15, <2>1 DEF Fetch, Grows
    <2>3. \A d \in batch'[c] : d[1] \in Messages /\ stream'[d[1]] # "absent"
      BY <1>3, <2>1
    <2>4. (\A b \in Consumers : b # c => batch'[b] = batch[b]) /\ UNCHANGED <<pc, msg, evaluated, committed, dlq>>
      BY <1>3, <1>15, <2>1 DEF Fetch
    <2> QED
      BY <2>2, <2>3, <2>4 DEF FetchEffect
  <1>16. ASSUME NEW c \in Consumers, TakeNext(c) PROVE Grows /\ ConsumerEffect(c)
    <2>1. Grows
      BY <1>1, <1>2, <1>16 DEF TakeNext, Grows
    <2>2. ConsumerEffect(c)
      BY <1>1, <1>2, <1>3, <1>16 DEF TakeNext, ConsumerEffect, PC
    <2> QED
      BY <2>1, <2>2
  <1>17. ASSUME NEW c \in Consumers, Evaluate2xx(c) PROVE Grows /\ ConsumerEffect(c)
    <2>1. Grows
      BY <1>1, <1>2, <1>17 DEF Evaluate2xx, Grows
    <2>2. ConsumerEffect(c)
      BY <1>1, <1>2, <1>3, <1>17 DEF Evaluate2xx, Goto, ConsumerEffect, PC
    <2> QED
      BY <2>1, <2>2
  <1>18. ASSUME NEW c \in Consumers, Evaluate4xx(c) PROVE Grows /\ ConsumerEffect(c)
    <2>1. Grows
      BY <1>1, <1>2, <1>18 DEF Evaluate4xx, Grows
    <2>2. ConsumerEffect(c)
      BY <1>1, <1>2, <1>3, <1>18 DEF Evaluate4xx, Goto, ConsumerEffect, PC
    <2> QED
      BY <2>1, <2>2
  <1>19. ASSUME NEW c \in Consumers, Evaluate5xx(c) PROVE Grows /\ ConsumerEffect(c)
    <2>1. Grows
      BY <1>1, <1>2, <1>19 DEF Evaluate5xx, Grows
    <2>2. ConsumerEffect(c)
      BY <1>1, <1>2, <1>3, <1>19 DEF Evaluate5xx, Goto, ConsumerEffect, PC
    <2> QED
      BY <2>1, <2>2
  <1>20. ASSUME NEW c \in Consumers, EvaluateError(c) PROVE Grows /\ ConsumerEffect(c)
    <2>1. Grows
      BY <1>1, <1>2, <1>20 DEF EvaluateError, Grows
    <2>2. ConsumerEffect(c)
      BY <1>1, <1>2, <1>3, <1>20 DEF EvaluateError, Raise, Advance, ConsumerEffect, PC
    <2> QED
      BY <2>1, <2>2
  <1>21. ASSUME NEW c \in Consumers, Commit(c) PROVE Grows /\ ConsumerEffect(c)
    <2>1. Grows
      <3>1. PICK m \in Messages : m = msg[c]
        BY <1>1, <1>21 DEF Commit
      <3>2. committed' = [committed EXCEPT ![m] = @ + 1] /\ UNCHANGED <<kind, stream, delivered, evaluated, dlq>>
        BY <1>21, <3>1 DEF Commit
      <3>3. \A k \in Messages : committed'[k] >= committed[k]
        BY <1>2, <3>1, <3>2
      <3> QED
        BY <1>2, <3>2, <3>3 DEF Grows
    <2>2. ConsumerEffect(c)
      BY <1>1, <1>2, <1>3, <1>21 DEF Commit, Goto, ConsumerEffect, PC
    <2> QED
      BY <2>1, <2>2
  <1>22. ASSUME NEW c \in Consumers, CommitRefused(c) PROVE Grows /\ ConsumerEffect(c)
    <2>1. Grows
      <3>1. UNCHANGED <<kind, stream, delivered, evaluated, committed, dlq>>
        BY <1>22 DEF CommitRefused
      <3> QED
        BY <1>2, <3>1 DEF Grows
    <2>2. ConsumerEffect(c)
      BY <1>1, <1>2, <1>3, <1>22 DEF CommitRefused, Goto, ConsumerEffect, PC
    <2> QED
      BY <2>1, <2>2
  <1>23. ASSUME NEW c \in Consumers, CommitAnswerLost(c) PROVE Grows /\ ConsumerEffect(c)
    <2>1. Grows
      <3>1. PICK m \in Messages : m = msg[c]
        BY <1>1, <1>23 DEF CommitAnswerLost
      <3>2. /\ committed' = [committed EXCEPT ![m] = @ + 1]
            /\ UNCHANGED <<kind, stream, delivered, evaluated, dlq>>
        BY <1>23, <3>1 DEF CommitAnswerLost
      <3>3. \A k \in Messages : committed'[k] >= committed[k]
        BY <1>2, <3>2
      <3> QED
        BY <1>2, <3>2, <3>3 DEF Grows
    <2>2. ConsumerEffect(c)
      BY <1>1, <1>2, <1>3, <1>23 DEF CommitAnswerLost, Goto, ConsumerEffect, PC
    <2> QED
      BY <2>1, <2>2
  <1>24. ASSUME NEW c \in Consumers, Park(c) PROVE Grows /\ ConsumerEffect(c)
    <2>1. Grows
      BY <1>1, <1>2, <1>24 DEF Park, Grows
    <2>2. ConsumerEffect(c)
      BY <1>1, <1>2, <1>3, <1>24 DEF Park, Goto, ConsumerEffect, PC
    <2> QED
      BY <2>1, <2>2
  <1>25. ASSUME NEW c \in Consumers, ParkError(c) PROVE Grows /\ ConsumerEffect(c)
    <2>1. Grows
      BY <1>1, <1>2, <1>25 DEF ParkError, Grows
    <2>2. ConsumerEffect(c)
      BY <1>1, <1>2, <1>3, <1>25 DEF ParkError, Goto, ConsumerEffect, PC
    <2> QED
      BY <2>1, <2>2
  <1>26. ASSUME NEW c \in Consumers, FailureNaks(c) PROVE Grows /\ ConsumerEffect(c)
    <2>1. Grows
      BY <1>1, <1>2, <1>26 DEF FailureNaks, Grows
    <2>2. ConsumerEffect(c)
      BY <1>1, <1>2, <1>3, <1>26 DEF FailureNaks, Goto, ConsumerEffect, PC
    <2> QED
      BY <2>1, <2>2
  <1>27. ASSUME NEW c \in Consumers, FailureParks(c) PROVE Grows /\ ConsumerEffect(c)
    <2>1. Grows
      BY <1>1, <1>2, <1>27 DEF FailureParks, Grows
    <2>2. ConsumerEffect(c)
      BY <1>1, <1>2, <1>3, <1>27 DEF FailureParks, Goto, ConsumerEffect, PC
    <2> QED
      BY <2>1, <2>2
  <1>28. ASSUME NEW c \in Consumers, FailureParkError(c) PROVE Grows /\ ConsumerEffect(c)
    <2>1. Grows
      BY <1>1, <1>2, <1>28 DEF FailureParkError, Grows
    <2>2. ConsumerEffect(c)
      BY <1>1, <1>2, <1>3, <1>28 DEF FailureParkError, Goto, ConsumerEffect, PC
    <2> QED
      BY <2>1, <2>2
  <1>29. ASSUME NEW c \in Consumers, Ack(c) PROVE Grows /\ ConsumerEffect(c)
    <2>1. Grows
      <3>1. PICK m \in Messages : m = msg[c]
        BY <1>1, <1>29 DEF Ack
      <3>2. /\ stream' = [stream EXCEPT ![m] = "acked"]
            /\ UNCHANGED <<kind, delivered, evaluated, committed, dlq>>
        BY <1>29, <3>1 DEF Ack
      <3>3. \A k \in Messages : /\ stream[k] # "absent" => stream'[k] # "absent"
                                /\ stream[k] = "acked" => stream'[k] = "acked"
        BY <1>2, <3>1, <3>2
      <3> QED
        BY <1>2, <3>2, <3>3 DEF Grows
    <2>2. ConsumerEffect(c)
      BY <1>1, <1>2, <1>3, <1>29 DEF Ack, Advance, ConsumerEffect, PC
    <2> QED
      BY <2>1, <2>2
  <1>30. ASSUME NEW c \in Consumers, SettlementLost(c) PROVE Grows /\ ConsumerEffect(c)
    <2>1. Grows
      <3>1. UNCHANGED <<kind, stream, delivered, evaluated, committed, dlq>>
        BY <1>30 DEF SettlementLost
      <3> QED
        BY <1>2, <3>1 DEF Grows
    <2>2. ConsumerEffect(c)
      BY <1>1, <1>2, <1>3, <1>30 DEF SettlementLost, Advance, ConsumerEffect, PC
    <2> QED
      BY <2>1, <2>2
  <1>31. ASSUME NEW c \in Consumers, SettlementError(c) PROVE Grows /\ ConsumerEffect(c)
    <2>1. Grows
      <3>1. UNCHANGED <<kind, stream, delivered, evaluated, committed, dlq>>
        BY <1>31 DEF SettlementError
      <3> QED
        BY <1>2, <3>1 DEF Grows
    <2>2. ConsumerEffect(c)
      BY <1>1, <1>2, <1>3, <1>31 DEF SettlementError, Goto, Raise, Advance, ConsumerEffect, PC
    <2> QED
      BY <2>1, <2>2
  <1>32. ASSUME NEW c \in Consumers, Nak(c) PROVE Grows /\ ConsumerEffect(c)
    <2>1. Grows
      <3>1. PICK m \in Messages : m = msg[c]
        BY <1>1, <1>32 DEF Nak
      <3>2. /\ stream' = [stream EXCEPT ![m] = IF stream[m] = "acked" THEN "acked" ELSE "ready"]
            /\ UNCHANGED <<kind, delivered, evaluated, committed, dlq>>
        BY <1>32, <3>1 DEF Nak
      <3>3. \A k \in Messages : /\ stream[k] # "absent" => stream'[k] # "absent"
                                /\ stream[k] = "acked" => stream'[k] = "acked"
        BY <1>2, <3>1, <3>2
      <3> QED
        BY <1>2, <3>2, <3>3 DEF Grows
    <2>2. ConsumerEffect(c)
      BY <1>1, <1>2, <1>3, <1>32 DEF Nak, Advance, ConsumerEffect, PC
    <2> QED
      BY <2>1, <2>2
  <1>33. ASSUME NEW c \in Consumers, Crash(c) PROVE Grows /\ ConsumerEffect(c)
    <2>1. Grows
      BY <1>1, <1>2, <1>33 DEF Crash, Grows
    <2>2. ConsumerEffect(c)
      BY <1>1, <1>2, <1>3, <1>33 DEF Crash, ConsumerEffect, PC
    <2> QED
      BY <2>1, <2>2
  <1> QED
    BY <1>4, <1>5, <1>6, <1>7, <1>8, <1>9, <1>10, <1>11, <1>12, <1>13, <1>14, <1>15, <1>16, <1>17, <1>18, <1>19, <1>20, <1>21, <1>22, <1>23, <1>24, <1>25, <1>26, <1>27, <1>28, <1>29, <1>30, <1>31, <1>32, <1>33
    DEF Next, RequestStep, RequestFault, ConsumerStep, ConsumerFault

(***************************************************************************)
(* Answers.  Redis names only accepted requests, each under its own key.   *)
(***************************************************************************)
CacheInv ==
    \A k \in Keys : cache[k] # "none" => req[cache[k]] = "accepted" /\ Key[cache[k]] = k

AnswerInv == AnswersAreBacked /\ CacheInv

LEMMA InitAnswer == Init => AnswerInv
  BY DEF Init, AnswerInv, AnswersAreBacked, CacheInv

\* What is published stays published.
LEMMA PublishedGrows ==
    ASSUME Grows, NEW r \in Requests, Published(r)
    PROVE  Published(r)'
  BY RequestsAssumption DEF Grows, Published

\* A step that gives no new answer.
LEMMA NoAnswer ==
    ASSUME TypeOK, AnswerInv, Grows,
           \A r \in Requests : req'[r] \in {"accepted", "duplicate"} => req'[r] = req[r],
           \A r \in Requests : req[r] = "accepted" => req'[r] = req[r],
           \A k \in Keys : cache'[k] \in {cache[k], "none"}
    PROVE  AnswerInv'
  <1>1. \A r \in Requests : Published(r) => Published(r)'
    BY PublishedGrows
  <1>2. AnswersAreBacked'
    BY <1>1 DEF AnswerInv, AnswersAreBacked
  <1>3. CacheInv'
    BY DEF AnswerInv, CacheInv, TypeOK
  <1> QED
    BY <1>2, <1>3 DEF AnswerInv

\* An accepted request is published, and may be what its key now names.
LEMMA AcceptAnswer ==
    ASSUME TypeOK, AnswerInv, Grows, NEW r \in Requests, Published(r),
           req' = [req EXCEPT ![r] = "accepted"],
           cache' = cache \/ (Keyed(r) /\ cache' = [cache EXCEPT ![Key[r]] = r])
    PROVE  AnswerInv'
  <1>1. \A q \in Requests : Published(q) => Published(q)'
    BY PublishedGrows
  <1>2. AnswersAreBacked'
    <2>1. \A q \in Requests : req'[q] = IF q = r THEN "accepted" ELSE req[q]
      BY DEF TypeOK
    <2> QED
      BY <1>1, <2>1 DEF AnswerInv, AnswersAreBacked
  <1>3. CacheInv'
    <2>1. \A k \in Keys : cache[k] # "none" => cache[k] \in Requests /\ req'[cache[k]] = "accepted"
      BY DEF AnswerInv, CacheInv, TypeOK
    <2>2. CASE cache' = cache
      BY <2>1, <2>2 DEF AnswerInv, CacheInv
    <2>3. CASE Keyed(r) /\ cache' = [cache EXCEPT ![Key[r]] = r]
      <3>1. Key[r] \in Keys /\ req'[r] = "accepted"
        BY <2>3, RequestsAssumption DEF Keyed, TypeOK
      <3>2. \A k \in Keys : cache'[k] = IF k = Key[r] THEN r ELSE cache[k]
        BY <2>3, <3>1 DEF TypeOK
      <3> QED
        BY <2>1, <3>1, <3>2 DEF AnswerInv, CacheInv
    <2> QED
      BY <2>2, <2>3
  <1> QED
    BY <1>2, <1>3 DEF AnswerInv

LEMMA NextAnswer == TypeOK /\ AnswerInv /\ [Next]_vars => AnswerInv'
  <1> SUFFICES ASSUME TypeOK, AnswerInv, [Next]_vars PROVE AnswerInv'
    OBVIOUS
  <1> USE DEF requestVars, loopVars, effectVars
  <1>1. CASE UNCHANGED vars
    BY <1>1 DEF vars, AnswerInv, AnswersAreBacked, CacheInv, Published
  <1> SUFFICES ASSUME Next PROVE AnswerInv'
    BY <1>1
  <1>2. Grows
    BY StepEffect
  <1>3. req \in [Requests -> ReqState] /\ cache \in [Keys -> Requests \cup {"none"}]
    BY DEF TypeOK
  <1>4. ASSUME UNCHANGED <<req, cache>> PROVE AnswerInv'
    BY <1>2, <1>4, NoAnswer
  <1>5. ASSUME NEW r \in Requests, Arrive(r) PROVE AnswerInv'
    BY <1>2, <1>3, <1>5, NoAnswer DEF Arrive
  <1>6. ASSUME NEW r \in Requests, CheckKey(r) PROVE AnswerInv'
    <2>1. CASE Keyed(r) /\ cache[Key[r]] # "none"
      <3>1. Key[r] \in Keys
        BY <2>1, RequestsAssumption DEF Keyed
      <3>2. PICK q \in Requests : q = cache[Key[r]]
        BY <1>3, <2>1, <3>1
      <3>3. req[q] = "accepted" /\ Key[q] = Key[r]
        BY <2>1, <3>1, <3>2 DEF AnswerInv, CacheInv
      <3>4. q # r /\ Published(q)
        BY <1>6, <3>3 DEF CheckKey, AnswerInv, AnswersAreBacked
      <3>5. \A p \in Requests : Published(p) => Published(p)'
        BY <1>2, PublishedGrows
      <3>6. req' = [req EXCEPT ![r] = "duplicate"] /\ cache' = cache
        BY <1>6, <2>1 DEF CheckKey
      <3>7. AnswersAreBacked'
        BY <1>3, <3>3, <3>4, <3>5, <3>6 DEF AnswerInv, AnswersAreBacked
      <3>8. CacheInv'
        BY <1>3, <1>6, <3>6 DEF AnswerInv, CacheInv, CheckKey
      <3> QED
        BY <3>7, <3>8 DEF AnswerInv
    <2>2. CASE ~(Keyed(r) /\ cache[Key[r]] # "none")
      <3>1. req' = [req EXCEPT ![r] = "publish"] /\ cache' = cache /\ req[r] = "check"
        BY <1>6, <2>2 DEF CheckKey
      <3> QED
        BY <1>2, <1>3, <3>1, NoAnswer
    <2> QED
      BY <2>1, <2>2
  <1>7. ASSUME NEW r \in Requests, CheckKeyError(r) PROVE AnswerInv'
    BY <1>2, <1>3, <1>7, NoAnswer DEF CheckKeyError
  <1>8. ASSUME NEW r \in Requests, PublishError(r) PROVE AnswerInv'
    BY <1>2, <1>3, <1>8, NoAnswer DEF PublishError
  <1>9. ASSUME NEW r \in Requests, Unpublished(r) = {} PROVE Published(r)
    BY <1>9 DEF Unpublished, Published
  <1>10. ASSUME NEW r \in Requests, Respond(r) PROVE AnswerInv'
    BY <1>2, <1>9, <1>10, AcceptAnswer DEF Respond
  <1>11. ASSUME NEW r \in Requests, RespondSetError(r) PROVE AnswerInv'
    BY <1>2, <1>9, <1>11, AcceptAnswer DEF RespondSetError
  <1>12. ASSUME NEW r \in Requests, RequestDies(r) PROVE AnswerInv'
    BY <1>2, <1>3, <1>12, NoAnswer DEF RequestDies
  <1>13. ASSUME NEW k \in Keys, KeyExpires(k) PROVE AnswerInv'
    BY <1>2, <1>3, <1>13, NoAnswer DEF KeyExpires
  <1>14. ASSUME NEW r \in Requests, Publish(r) PROVE AnswerInv'
    BY <1>4, <1>14 DEF Publish
  <1>15. ASSUME NEW c \in Consumers, ConsumerStep(c) \/ ConsumerFault(c) PROVE UNCHANGED <<req, cache>>
    BY <1>15 DEF ConsumerStep, ConsumerFault, Fetch, TakeNext, Evaluate2xx, Evaluate4xx, Evaluate5xx,
                 EvaluateError, Commit, CommitRefused, CommitAnswerLost, Park, ParkError, FailureNaks,
                 FailureParks, FailureParkError, Ack, SettlementLost, SettlementError, Nak, Crash
  <1>16. ASSUME NEW m \in Messages, ForeignPublish(m) \/ AckWait(m) PROVE AnswerInv'
    BY <1>4, <1>16 DEF ForeignPublish, AckWait
  <1> QED
    BY <1>4, <1>5, <1>6, <1>7, <1>8, <1>10, <1>11, <1>12, <1>13, <1>14, <1>15, <1>16
    DEF Next, RequestStep, RequestFault

\* Whoever is told "accepted" or "duplicate" has its events on the stream, for
\* any number of calls and keys and whatever fails between the GET, the
\* publishes and the SET.
THEOREM AnswersAlwaysBacked == Spec => []AnswersAreBacked
  <1>1. Spec => []AnswerInv
    BY InitAnswer, NextAnswer, TypeCorrect, PTL DEF Spec
  <1> QED
    BY <1>1, PTL DEF AnswerInv

(***************************************************************************)
(* The loop.  What a consumer holds is on the stream, and it gets to the   *)
(* ack only with a message that took effect.                               *)
(***************************************************************************)
HeldInv ==
    \A c \in Consumers :
        /\ pc[c] # "idle" => stream[msg[c]] # "absent"
        /\ \A d \in batch[c] : stream[d[1]] # "absent"

PlaceInv ==
    \A c \in Consumers :
        /\ pc[c] = "park" => kind[msg[c]] = "rejected"
        /\ pc[c] \in {"ack", "dlq_ack"} => TookEffect(msg[c])

LoopInv == HeldInv /\ PlaceInv /\ ParkedWhenDue

LEMMA InitLoop == Init => LoopInv
  BY DEF Init, LoopInv, HeldInv, PlaceInv, ParkedWhenDue

\* An effect stays: the parts of TookEffect only grow.
LEMMA EffectGrows ==
    ASSUME TypeOK, TypeOK', Grows, NEW m \in Messages, TookEffect(m)
    PROVE  TookEffect(m)'
  <1>1. committed[m] \in Nat /\ committed'[m] \in Nat /\ committed'[m] >= committed[m]
    BY DEF TypeOK, Grows
  <1>2. committed[m] > 0 => committed'[m] > 0
    BY <1>1
  <1> QED
    BY <1>2 DEF TookEffect, Void, Grows

LEMMA BatchHoldsMessages ==
    ASSUME TypeOK, NEW b \in Consumers, NEW d \in batch[b]
    PROVE  d[1] \in Messages
  <1>1. batch[b] \subseteq Delivery
    BY DEF TypeOK
  <1>2. d \in Messages \X (1 .. MaxDeliver)
    BY <1>1 DEF Delivery
  <1> QED
    BY <1>2

LEMMA NextHeld ==
    ASSUME TypeOK, TypeOK', HeldInv, Grows, NEW c \in Consumers,
           ConsumerEffect(c) \/ FetchEffect(c)
    PROVE  HeldInv'
  <1>1. \A b \in Consumers : pc[b] # "idle" => msg[b] \in Messages
    BY DEF TypeOK
  <1>2. \A b \in Consumers : \A d \in batch[b] : d[1] \in Messages
    BY BatchHoldsMessages
  <1>3. \A m \in Messages : stream[m] # "absent" => stream'[m] # "absent"
    BY DEF Grows
  <1>4. CASE ConsumerEffect(c)
    <2>1. \A b \in Consumers : \A d \in batch'[b] : d \in batch[b]
      BY <1>4 DEF ConsumerEffect
    <2>2. \A b \in Consumers : pc'[b] # "idle" =>
            \/ msg'[b] = msg[b] /\ pc[b] # "idle"
            \/ \E d \in batch[b] : msg'[b] = d[1]
      BY <1>4 DEF ConsumerEffect
    <2> QED
      BY <1>1, <1>2, <1>3, <2>1, <2>2 DEF HeldInv
  <1>5. CASE FetchEffect(c)
    BY <1>1, <1>2, <1>3, <1>5 DEF FetchEffect, HeldInv
  <1> QED
    BY <1>4, <1>5

LEMMA NextPlace ==
    ASSUME TypeOK, TypeOK', HeldInv', PlaceInv, Grows, NEW c \in Consumers,
           ConsumerEffect(c) \/ FetchEffect(c)
    PROVE  PlaceInv'
  <1>1. \A b \in Consumers : pc[b] # "idle" => msg[b] \in Messages
    BY DEF TypeOK
  <1>2. kind' = kind
    BY DEF Grows
  <1>3. \A m \in Messages : TookEffect(m) => TookEffect(m)'
    BY EffectGrows
  <1>4. ASSUME NEW b \in Consumers, pc'[b] = pc[b], msg'[b] = msg[b]
        PROVE  /\ pc'[b] = "park" => kind'[msg'[b]] = "rejected"
               /\ pc'[b] \in {"ack", "dlq_ack"} => TookEffect(msg[b])'
    <2>1. pc[b] # "idle" => msg[b] \in Messages
      BY <1>1
    <2>2. CASE pc[b] \in {"ack", "dlq_ack"}
      <3>1. PICK m \in Messages : m = msg[b] /\ m = msg'[b]
        BY <1>4, <2>1, <2>2
      <3>2. TookEffect(m)
        BY <2>2, <3>1 DEF PlaceInv
      <3>3. TookEffect(m)'
        BY <1>3, <3>2
      <3> QED
        BY <1>4, <2>2, <3>1, <3>3 DEF TookEffect, Void
    <2>3. CASE pc[b] \notin {"ack", "dlq_ack"}
      BY <1>2, <1>4, <2>3 DEF PlaceInv
    <2> QED
      BY <2>2, <2>3
  <1>5. CASE FetchEffect(c)
    BY <1>4, <1>5 DEF FetchEffect, PlaceInv
  <1>6. CASE ConsumerEffect(c)
    <2>1. pc'[c] = "park" => kind'[msg'[c]] = "rejected"
      BY <1>2, <1>6 DEF ConsumerEffect
    <2>2. ASSUME pc'[c] \in {"ack", "dlq_ack"} PROVE TookEffect(msg[c])'
      <3>1. PICK m \in Messages : m = msg'[c]
        BY <2>2 DEF TypeOK
      <3>2. stream'[m] # "absent"
        BY <2>2, <3>1 DEF HeldInv
      <3>3. kind'[m] = "envelope" \/ committed'[m] > 0 \/ m \in dlq'
              \/ (~OrchestratorSet /\ m \in evaluated')
        BY <1>2, <1>6, <2>2, <3>1 DEF ConsumerEffect
      <3> QED
        BY <3>1, <3>2, <3>3 DEF TookEffect, Void
    <2>3. \A b \in Consumers : b # c => pc'[b] = pc[b] /\ msg'[b] = msg[b]
      BY <1>6 DEF ConsumerEffect
    <2> QED
      BY <1>4, <2>1, <2>2, <2>3 DEF PlaceInv
  <1> QED
    BY <1>5, <1>6

LEMMA NextParked ==
    ASSUME TypeOK, TypeOK', PlaceInv, ParkedWhenDue, Grows, NEW c \in Consumers,
           ConsumerEffect(c) \/ FetchEffect(c)
    PROVE  ParkedWhenDue'
  <1>1. \A m \in Messages : delivered[m] \in 0 .. MaxDeliver /\ delivered'[m] \in 0 .. MaxDeliver
                             /\ delivered'[m] >= delivered[m]
    BY DEF TypeOK, Grows
  <1>2. MaxDeliver \in Nat /\ kind' = kind /\ dlq \subseteq Messages
    BY BoundsAssumption DEF Grows, TypeOK
  <1>3. \A m \in dlq : kind'[m] = "rejected" \/ delivered'[m] = MaxDeliver
    BY <1>1, <1>2 DEF ParkedWhenDue
  <1>4. CASE dlq' = dlq
    BY <1>3, <1>4 DEF ParkedWhenDue
  <1>5. CASE dlq' # dlq
    <2>1. /\ dlq' = dlq \cup {msg[c]} /\ pc[c] # "idle"
          /\ pc[c] = "park" \/ Exhausted(c)
      BY <1>5 DEF ConsumerEffect, FetchEffect
    <2>2. PICK m \in Messages : m = msg[c]
      BY <2>1 DEF TypeOK
    <2>3. CASE pc[c] = "park"
      BY <1>2, <1>3, <2>1, <2>3 DEF PlaceInv, ParkedWhenDue
    <2>4. CASE Exhausted(c)
      <3>1. tries[c] \in 0 .. MaxDeliver /\ tries[c] <= delivered[m]
        BY <2>2, NoDeliveryAssumption DEF TypeOK
      <3>2. tries[c] >= MaxDeliver
        BY <2>4 DEF Exhausted
      <3>3. PICK t \in Int : t = tries[c]
        BY <3>1
      <3>4. PICK k \in Int : k = delivered[m]
        BY <1>1, <2>2
      <3>5. PICK l \in Int : l = delivered'[m]
        BY <1>1, <2>2
      <3>6. t >= MaxDeliver /\ t <= k
        BY <3>1, <3>2, <3>3, <3>4
      <3>7. k <= l /\ l <= MaxDeliver
        BY <1>1, <1>2, <2>2, <3>4, <3>5
      <3>8. delivered'[m] = MaxDeliver
        BY BoundsAssumption, <3>5, <3>6, <3>7
      <3> QED
        BY <1>3, <2>1, <2>2, <3>8 DEF ParkedWhenDue
    <2> QED
      BY <2>1, <2>3, <2>4
  <1> QED
    BY <1>4, <1>5

LEMMA NextLoop == TypeOK /\ TypeOK' /\ LoopInv /\ [Next]_vars => LoopInv'
  <1> SUFFICES ASSUME TypeOK, TypeOK', LoopInv, [Next]_vars PROVE LoopInv'
    OBVIOUS
  <1>1. CASE UNCHANGED vars
    BY <1>1 DEF vars, loopVars, requestVars, effectVars, LoopInv, HeldInv, PlaceInv, ParkedWhenDue,
                TookEffect, Void
  <1>2. CASE Next
    <2>1. Grows
      BY <1>2, StepEffect
    <2>2. CASE \E c \in Consumers : ConsumerEffect(c) \/ FetchEffect(c)
      <3>1. PICK c \in Consumers : ConsumerEffect(c) \/ FetchEffect(c)
        BY <2>2
      <3>2. HeldInv'
        BY <2>1, <3>1, NextHeld DEF LoopInv
      <3> QED
        BY <2>1, <3>1, <3>2, NextPlace, NextParked DEF LoopInv
    <2>3. CASE NoConsumerMoves
      <3>1. HeldInv'
        <4>1. \A b \in Consumers : pc[b] # "idle" => msg[b] \in Messages
          BY DEF TypeOK
        <4>2. \A b \in Consumers : \A d \in batch[b] : d[1] \in Messages
          BY BatchHoldsMessages
        <4> QED
          BY <2>1, <2>3, <4>1, <4>2 DEF LoopInv, HeldInv, NoConsumerMoves, Grows
      <3>2. ParkedWhenDue'
        BY <2>1, <2>3 DEF LoopInv, ParkedWhenDue, NoConsumerMoves, Grows
      <3>3. PlaceInv'
        BY <2>1, <2>3, <3>1 DEF LoopInv, HeldInv, PlaceInv, NoConsumerMoves, Grows, TookEffect, Void
      <3> QED
        BY <3>1, <3>2, <3>3 DEF LoopInv
    <2> QED
      BY <1>2, <2>2, <2>3, StepEffect
  <1> QED
    BY <1>1, <1>2

LEMMA LoopAlways == Spec => [](TypeOK /\ LoopInv)
  BY InitLoop, NextLoop, TypeCorrect, PTL DEF Spec

\* A message is parked only for a 4xx or with its last delivery, for any number
\* of consumers, messages, deliveries and faults: a delivery count is taken
\* with the message and never runs ahead of the stream's.
THEOREM AlwaysParkedWhenDue == Spec => []ParkedWhenDue
  BY LoopAlways, PTL DEF LoopInv

(***************************************************************************)
(* The refinement.  A step publishes one message, brings about effects of  *)
(* one message in hand, acks one, or changes nothing the contract sees.    *)
(***************************************************************************)
Publishes(n) ==
    /\ stream[n] = "absent" /\ stream' = [stream EXCEPT ![n] = "ready"]
    /\ UNCHANGED <<evaluated, committed, dlq>>

Effects(n) ==
    /\ stream[n] # "absent" /\ stream' = stream
    /\ \A m \in Messages : m # n =>
          /\ committed'[m] = committed[m]
          /\ m \in evaluated' <=> m \in evaluated
          /\ m \in dlq' <=> m \in dlq

Acks(n) ==
    /\ stream[n] # "absent" /\ TookEffect(n)
    /\ stream' = [stream EXCEPT ![n] = "acked"]
    /\ UNCHANGED <<evaluated, committed, dlq>>

Quiet ==
    /\ \A m \in Messages : StateOf(m)' = StateOf(m)
    /\ UNCHANGED <<evaluated, committed, dlq>>

LEMMA PublishesAccepts ==
    ASSUME TypeOK, kind' = kind, NEW n \in Messages, Publishes(n)
    PROVE  Contract!Accept(n)
  <1>1. \A m \in Messages : StateOf(m)' = IF m = n THEN "owed" ELSE StateOf(m)
    BY DEF Publishes, StateOf, TypeOK
  <1>2. \A m \in Messages : TookEffect(m)' <=> TookEffect(m) \/ (m = n /\ n \in Void)
    BY DEF Publishes, TookEffect, Void, TypeOK
  <1>3. Void' = Void /\ StateOf(n) = "absent"
    BY DEF Void, StateOf, Publishes
  <1>4. [m \in Messages |-> StateOf(m)]' = [[m \in Messages |-> StateOf(m)] EXCEPT ![n] = "owed"]
    BY <1>1
  <1>5. {m \in Messages : TookEffect(m)}' = {m \in Messages : TookEffect(m)} \cup ({n} \cap Void)
    BY <1>2
  <1> QED
    BY <1>3, <1>4, <1>5 DEF Contract!Accept

LEMMA AcksSettles ==
    ASSUME TypeOK, kind' = kind, NEW n \in Messages, Acks(n)
    PROVE  Contract!Settle(n) \/ UNCHANGED Contract!vars
  <1>1. \A m \in Messages : StateOf(m)' = IF m = n THEN "settled" ELSE StateOf(m)
    BY DEF Acks, StateOf, TypeOK
  <1>2. \A m \in Messages : TookEffect(m)' <=> TookEffect(m)
    BY DEF Acks, TookEffect, Void, TypeOK
  <1>3. Void' = Void /\ StateOf(n) \in {"owed", "settled"}
    BY DEF Void, StateOf, Acks, TypeOK
  <1>4. {m \in Messages : TookEffect(m)}' = {m \in Messages : TookEffect(m)}
    BY <1>2
  <1>5. CASE StateOf(n) = "owed"
    <2>1. [m \in Messages |-> StateOf(m)]' = [[m \in Messages |-> StateOf(m)] EXCEPT ![n] = "settled"]
      BY <1>1
    <2>2. n \in {m \in Messages : TookEffect(m)}
      BY DEF Acks
    <2> QED
      BY <1>3, <1>4, <1>5, <2>1, <2>2 DEF Contract!Settle
  <1>6. CASE StateOf(n) = "settled"
    <2>1. [m \in Messages |-> StateOf(m)]' = [m \in Messages |-> StateOf(m)]
      BY <1>1, <1>6
    <2> QED
      BY <1>3, <1>4, <2>1 DEF Contract!vars
  <1> QED
    BY <1>3, <1>5, <1>6

LEMMA EffectsTake ==
    ASSUME TypeOK, TypeOK', Grows, NEW n \in Messages, Effects(n)
    PROVE  Contract!TakeEffect(n) \/ UNCHANGED Contract!vars
  <1>1. \A m \in Messages : StateOf(m)' = StateOf(m)
    BY DEF Effects, StateOf
  <1>2. Void' = Void /\ StateOf(n) # "absent"
    BY DEF Void, StateOf, Effects, Grows
  <1>3. [m \in Messages |-> StateOf(m)]' = [m \in Messages |-> StateOf(m)]
    BY <1>1
  <1>4. \A m \in Messages : m # n => (TookEffect(m)' <=> TookEffect(m))
    BY <1>2 DEF Effects, TookEffect
  <1>5. TookEffect(n) => TookEffect(n)'
    BY EffectGrows
  <1>6. CASE TookEffect(n)'
    <2>1. {m \in Messages : TookEffect(m)}' = {m \in Messages : TookEffect(m)} \cup {n}
      BY <1>4, <1>6
    <2> QED
      BY <1>2, <1>3, <2>1 DEF Contract!TakeEffect
  <1>7. CASE ~TookEffect(n)'
    <2>1. {m \in Messages : TookEffect(m)}' = {m \in Messages : TookEffect(m)}
      BY <1>4, <1>5, <1>7
    <2> QED
      BY <1>2, <1>3, <2>1 DEF Contract!vars
  <1> QED
    BY <1>6, <1>7

LEMMA QuietStutters ==
    ASSUME TypeOK, kind' = kind, Quiet
    PROVE  UNCHANGED Contract!vars
  <1>1. \A m \in Messages : stream'[m] = "absent" <=> stream[m] = "absent"
    BY DEF Quiet, StateOf
  <1>2. \A m \in Messages : TookEffect(m)' <=> TookEffect(m)
    BY <1>1 DEF Quiet, TookEffect, Void
  <1>3. Void' = Void
    BY DEF Void
  <1>4. {m \in Messages : TookEffect(m)}' = {m \in Messages : TookEffect(m)}
    BY <1>2
  <1>5. [m \in Messages |-> StateOf(m)]' = [m \in Messages |-> StateOf(m)]
    BY DEF Quiet
  <1> QED
    BY <1>3, <1>4, <1>5 DEF Contract!vars

LEMMA StepClassified ==
    ASSUME TypeOK, LoopInv, Next
    PROVE  \/ Quiet
           \/ \E n \in Messages : Publishes(n) \/ Effects(n) \/ Acks(n)
  <1> USE DEF requestVars, loopVars, effectVars
  <1>1. \A c \in Consumers : pc[c] # "idle" => msg[c] \in Messages /\ stream[msg[c]] # "absent"
    BY DEF TypeOK, LoopInv, HeldInv
  <1>2. stream \in [Messages -> StreamState] /\ committed \in [Messages -> Nat]
    BY DEF TypeOK
  <1>3. ASSUME UNCHANGED <<stream, evaluated, committed, dlq>> PROVE Quiet
    BY <1>3 DEF Quiet, StateOf
  <1>4. ASSUME NEW r \in Requests, Publish(r) \/ PublishError(r)
        PROVE  Quiet \/ \E n \in Messages : Publishes(n)
    <2>1. PICK n \in Unpublished(r) : stream' \in {stream, [stream EXCEPT ![n] = "ready"]}
      BY <1>4 DEF Publish, PublishError
    <2>2. n \in Messages /\ stream[n] = "absent" /\ UNCHANGED <<evaluated, committed, dlq>>
      BY <1>4, <2>1, RequestsAssumption DEF Unpublished, Publish, PublishError
    <2> QED
      BY <1>3, <2>1, <2>2 DEF Publishes
  <1>5. ASSUME NEW m \in Messages, ForeignPublish(m) PROVE Publishes(m)
    BY <1>5 DEF ForeignPublish, Publishes
  <1>6. ASSUME NEW m \in Messages, AckWait(m) PROVE Quiet
    BY <1>2, <1>6 DEF AckWait, Quiet, StateOf
  <1>7. ASSUME NEW r \in Requests,
               Arrive(r) \/ CheckKey(r) \/ CheckKeyError(r) \/ Respond(r) \/ RespondSetError(r) \/ RequestDies(r)
        PROVE  Quiet
    BY <1>3, <1>7 DEF Arrive, CheckKey, CheckKeyError, Respond, RespondSetError, RequestDies
  <1>8. ASSUME NEW k \in Keys, KeyExpires(k) PROVE Quiet
    BY <1>3, <1>8 DEF KeyExpires
  <1>9. ASSUME NEW c \in Consumers, Fetch(c) PROVE Quiet
    BY <1>2, <1>9 DEF Fetch, Quiet, StateOf
  <1>10. ASSUME NEW c \in Consumers,
                TakeNext(c) \/ Evaluate4xx(c) \/ Evaluate5xx(c) \/ CommitRefused(c) \/ FailureNaks(c)
                  \/ SettlementLost(c) \/ SettlementError(c) \/ Crash(c)
         PROVE  Quiet
    BY <1>3, <1>10 DEF TakeNext, Evaluate4xx, Evaluate5xx, CommitRefused, FailureNaks,
                       SettlementLost, SettlementError, Crash
  <1>11. ASSUME NEW c \in Consumers, Evaluate2xx(c) \/ EvaluateError(c)
         PROVE  \E n \in Messages : Effects(n)
    <2>1. PICK n \in Messages : n = msg[c] /\ stream[n] # "absent"
      BY <1>1, <1>11 DEF Evaluate2xx, EvaluateError
    <2>2. /\ evaluated' \in {evaluated, evaluated \cup {n}}
          /\ UNCHANGED <<stream, committed, dlq>>
      BY <1>11, <2>1 DEF Evaluate2xx, EvaluateError
    <2> QED
      BY <2>1, <2>2 DEF Effects
  <1>12. ASSUME NEW c \in Consumers, Commit(c) \/ CommitAnswerLost(c)
         PROVE  \E n \in Messages : Effects(n)
    <2>1. PICK n \in Messages : n = msg[c] /\ stream[n] # "absent"
      BY <1>1, <1>12 DEF Commit, CommitAnswerLost
    <2>2. /\ committed' = [committed EXCEPT ![n] = @ + 1]
          /\ UNCHANGED <<stream, evaluated, dlq>>
      BY <1>12, <2>1 DEF Commit, CommitAnswerLost
    <2> QED
      BY <1>2, <2>1, <2>2 DEF Effects
  <1>13. ASSUME NEW c \in Consumers, Park(c) \/ ParkError(c) \/ FailureParks(c) \/ FailureParkError(c)
         PROVE  \E n \in Messages : Effects(n)
    <2>1. PICK n \in Messages : n = msg[c] /\ stream[n] # "absent"
      BY <1>1, <1>13 DEF Park, ParkError, FailureParks, FailureParkError
    <2>2. /\ dlq' \in {dlq, dlq \cup {n}}
          /\ UNCHANGED <<stream, evaluated, committed>>
      BY <1>13, <2>1 DEF Park, ParkError, FailureParks, FailureParkError
    <2> QED
      BY <2>1, <2>2 DEF Effects
  <1>14. ASSUME NEW c \in Consumers, Ack(c) PROVE \E n \in Messages : Acks(n)
    <2>1. PICK n \in Messages : n = msg[c] /\ stream[n] # "absent"
      BY <1>1, <1>14 DEF Ack
    <2>2. TookEffect(n)
      BY <1>14, <2>1 DEF Ack, LoopInv, PlaceInv
    <2>3. stream' = [stream EXCEPT ![n] = "acked"] /\ UNCHANGED <<evaluated, committed, dlq>>
      BY <1>14, <2>1 DEF Ack
    <2> QED
      BY <2>1, <2>2, <2>3 DEF Acks
  <1>15. ASSUME NEW c \in Consumers, Nak(c) PROVE Quiet
    <2>1. PICK n \in Messages : n = msg[c] /\ stream[n] # "absent"
      BY <1>1, <1>15 DEF Nak
    <2>2. stream' = [stream EXCEPT ![n] = IF stream[n] = "acked" THEN "acked" ELSE "ready"]
      BY <1>15, <2>1 DEF Nak
    <2>3. UNCHANGED <<evaluated, committed, dlq>>
      BY <1>15 DEF Nak
    <2> QED
      BY <1>2, <2>1, <2>2, <2>3 DEF Quiet, StateOf
  <1> QED
    BY <1>4, <1>5, <1>6, <1>7, <1>8, <1>9, <1>10, <1>11, <1>12, <1>13, <1>14, <1>15
    DEF Next, RequestStep, RequestFault, ConsumerStep, ConsumerFault

\* EventIngest implements IngestContract, for every set of requests, keys,
\* messages and consumers and any number of faults: an event that reached the
\* stream is acked only once it is committed or parked, and never comes back.
THEOREM ContractImplemented == Spec => ImplementsContract
  <1>1. Init => Contract!Init
    <2> SUFFICES ASSUME Init PROVE Contract!Init
      OBVIOUS
    <2>1. \A m \in Messages : StateOf(m) = "absent" /\ ~TookEffect(m)
      BY DEF Init, StateOf, TookEffect
    <2>2. Void \subseteq Messages
      BY DEF Void
    <2> QED
      BY <2>1, <2>2 DEF Contract!Init
  <1>2. TypeOK /\ TypeOK' /\ LoopInv /\ [Next]_vars => [Contract!Next]_Contract!vars
    <2> SUFFICES ASSUME TypeOK, TypeOK', LoopInv, [Next]_vars PROVE Contract!Next \/ UNCHANGED Contract!vars
      OBVIOUS
    <2>1. CASE UNCHANGED vars
      <3>1. Quiet /\ kind' = kind
        BY <2>1 DEF vars, effectVars, Quiet, StateOf
      <3> QED
        BY <3>1, QuietStutters
    <2>2. CASE Next
      <3>1. Grows /\ kind' = kind
        BY <2>2, StepEffect DEF Grows
      <3>2. CASE Quiet
        BY <3>1, <3>2, QuietStutters
      <3>3. ASSUME NEW n \in Messages, Publishes(n) \/ Effects(n) \/ Acks(n)
            PROVE  Contract!Next \/ UNCHANGED Contract!vars
        BY <3>1, <3>3, PublishesAccepts, EffectsTake, AcksSettles DEF Contract!Next
      <3> QED
        BY <2>2, <3>2, <3>3, StepClassified
    <2> QED
      BY <2>1, <2>2
  <1> QED
    BY <1>1, <1>2, LoopAlways, PTL DEF Spec, ImplementsContract, Contract!Spec
==============================================================================
