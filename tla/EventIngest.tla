----------------------------- MODULE EventIngest -----------------------------
(***************************************************************************)
(* event-ingest (event_ingest/main.py): the HTTP and WebSocket endpoints   *)
(* that publish events to NATS JetStream behind an idempotency key, and    *)
(* the consumer loop that has each event evaluated, commits its side       *)
(* effects through the orchestrator (ingest_side_effects.py), and acks,    *)
(* naks or parks it on the dead-letter subject.                            *)
(*                                                                         *)
(* A message is one publication: the server draws a new _ingest_id for     *)
(* every event it publishes, so a repeated request brings new messages.    *)
(* What the Decision API and the orchestrator answer to a message time     *)
(* after time is its kind; any single answer may also fail as a fault.     *)
(***************************************************************************)
EXTENDS Integers, FiniteSets

CONSTANTS
    Requests,           \* calls of the publishing endpoints
    Keys,               \* idempotency keys
    NoKey,              \* a call without one: no header, /v1/ingest/dynamic, WebSocket
    Key,                \* per request: its idempotency key, or NoKey
    Messages,           \* messages the stream may ever hold
    Body,               \* per request: the set of messages it publishes
    KindChoices,        \* what the messages may be: assignments of a kind to each
    Consumers,          \* replicas of the consumer loop, one durable for all
    BatchSize,          \* settings.max_batch_size
    MaxDeliver,         \* settings.ingest_max_deliver
    RedisConfigured,    \* app.state.redis is not None
    OrchestratorSet,    \* settings.orchestrator_url is not empty
    DlqOn4xx,           \* ingest_dlq_publish_on_evaluate_4xx, subject usable
    DlqOnFailure,       \* ingest_dlq_publish_on_side_effect_failure, subject usable
    MaxFaults           \* bound: crashes, lost answers, late redeliveries, impatient clients

\* good: evaluated and committed.  rejected: evaluate answers 4xx.  failing:
\* evaluate answers 5xx.  refused: the side-effect commit is not 2xx.  broken:
\* not JSON, or not an object.  envelope: kind = "evaluate_4xx".
Kinds == {"good", "rejected", "failing", "refused", "broken", "envelope"}

ASSUME MessagesAssumption == KindChoices \subseteq [Messages -> Kinds]
ASSUME RequestsAssumption ==
    /\ NoKey \notin Keys
    /\ Key \in [Requests -> Keys \cup {NoKey}]
    /\ Body \in [Requests -> SUBSET Messages]
    /\ \A r, q \in Requests : r # q => Body[r] \cap Body[q] = {}
ASSUME NoRequestAssumption == "none" \notin Requests
ASSUME NoDeliveryAssumption == "none" \notin Messages
ASSUME BoundsAssumption ==
    /\ BatchSize \in Nat \ {0}
    /\ MaxDeliver \in Nat \ {0}
    /\ MaxFaults \in Nat
ASSUME FlagsAssumption ==
    {RedisConfigured, OrchestratorSet, DlqOn4xx, DlqOnFailure} \subseteq BOOLEAN

VARIABLES
    kind,       \* per message: how its processing goes when nothing breaks
    req,        \* per request: where its handler stands
    cache,      \* per key: the request whose response Redis holds
    stream,     \* per message: its state for the durable "decision-worker"
    delivered,  \* per message: num_delivered, counted up to MaxDeliver
    batch,      \* per consumer: fetched deliveries the loop has not reached
    msg,        \* per consumer: the message in hand
    tries,      \* per consumer: num_delivered of the delivery in hand
    pc,         \* per consumer: where the loop body stands
    handling,   \* per consumer: inside the outer except clause
    evaluated,  \* messages evaluate has answered below 400
    committed,  \* per message: transactions of commit_evaluate_side_effects
    dlq,        \* messages with an envelope on the dead-letter subject
    faults      \* faults the environment may still inject

requestVars == <<req, cache>>
loopVars == <<batch, msg, tries, pc, handling>>
effectVars == <<evaluated, committed, dlq>>
vars == <<kind, requestVars, stream, delivered, loopVars, effectVars, faults>>

ReqState == {"new", "check", "publish", "accepted", "duplicate", "failed"}
StreamState == {"absent", "ready", "inflight", "acked"}
PC == {"idle", "evaluate", "commit", "park", "fail", "ack", "dlq_ack", "nak"}
Delivery == Messages \X (1 .. MaxDeliver)
Used == MaxFaults - faults
Fault == faults > 0 /\ faults' = faults - 1

Init ==
    /\ kind \in KindChoices
    /\ req = [r \in Requests |-> "new"]
    /\ cache = [k \in Keys |-> "none"]
    /\ stream = [m \in Messages |-> "absent"]
    /\ delivered = [m \in Messages |-> 0]
    /\ batch = [c \in Consumers |-> {}]
    /\ msg = [c \in Consumers |-> "none"]
    /\ tries = [c \in Consumers |-> 0]
    /\ pc = [c \in Consumers |-> "idle"]
    /\ handling = [c \in Consumers |-> FALSE]
    /\ evaluated = {}
    /\ committed = [m \in Messages |-> 0]
    /\ dlq = {}
    /\ faults = MaxFaults

(***************************************************************************)
(* The publishing endpoints.                                               *)
(***************************************************************************)
Keyed(r) == RedisConfigured /\ Key[r] # NoKey

\* Another call with the same key is between its arrival and its answer.
Overlaps(r) ==
    Keyed(r) /\ \E q \in Requests : q # r /\ Key[q] = Key[r] /\ req[q] \in {"check", "publish"}

\* A call that passes the contract reaches the handler; one that is rejected
\* (422) changes nothing.  A client that repeats a call before the first was
\* answered is impatient, which counts as a fault.
Arrive(r) ==
    /\ req[r] = "new"
    /\ req' = [req EXCEPT ![r] = "check"]
    /\ IF Overlaps(r) THEN Fault ELSE UNCHANGED faults
    /\ UNCHANGED <<kind, cache, stream, delivered, loopVars, effectVars>>

\* GET of the idempotency key: a cached response is the answer.
CheckKey(r) ==
    /\ req[r] = "check"
    /\ req' = [req EXCEPT ![r] =
                  IF Keyed(r) /\ cache[Key[r]] # "none" THEN "duplicate" ELSE "publish"]
    /\ UNCHANGED <<kind, cache, stream, delivered, loopVars, effectVars, faults>>

\* Redis fails on the GET: the call goes on as if nothing were cached.
CheckKeyError(r) ==
    /\ req[r] = "check"
    /\ Keyed(r)
    /\ Fault
    /\ req' = [req EXCEPT ![r] = "publish"]
    /\ UNCHANGED <<kind, cache, stream, delivered, loopVars, effectVars>>

Unpublished(r) == {m \in Body[r] : stream[m] = "absent"}

\* One event of the body is published and JetStream confirms it.
Publish(r) ==
    /\ req[r] = "publish"
    /\ \E m \in Unpublished(r) : stream' = [stream EXCEPT ![m] = "ready"]
    /\ UNCHANGED <<kind, requestVars, delivered, loopVars, effectVars, faults>>

\* js.publish raises, with the message stored or not: the call answers 500 and
\* the rest of the batch is not published.
PublishError(r) ==
    /\ req[r] = "publish"
    /\ Fault
    /\ \E m \in Unpublished(r) : stream' \in {stream, [stream EXCEPT ![m] = "ready"]}
    /\ req' = [req EXCEPT ![r] = "failed"]
    /\ UNCHANGED <<kind, cache, delivered, loopVars, effectVars>>

\* Mutations of Respond: the response is never cached, or the loop over the
\* events stops short.
RespondUncached(r) ==
    /\ req[r] = "publish"
    /\ Unpublished(r) = {}
    /\ req' = [req EXCEPT ![r] = "accepted"]
    /\ UNCHANGED <<kind, cache, stream, delivered, loopVars, effectVars, faults>>
RespondEarly(r) ==
    /\ req[r] = "publish"
    /\ req' = [req EXCEPT ![r] = "accepted"]
    /\ cache' = IF Keyed(r) THEN [cache EXCEPT ![Key[r]] = r] ELSE cache
    /\ UNCHANGED <<kind, stream, delivered, loopVars, effectVars, faults>>

\* Everything is published: SET the key, if there is one, and answer.
Respond(r) ==
    /\ req[r] = "publish"
    /\ Unpublished(r) = {}
    /\ req' = [req EXCEPT ![r] = "accepted"]
    /\ cache' = IF Keyed(r) THEN [cache EXCEPT ![Key[r]] = r] ELSE cache
    /\ UNCHANGED <<kind, stream, delivered, loopVars, effectVars, faults>>

\* Redis fails on the SET, which may have been executed all the same: logged,
\* and the call is still accepted.
RespondSetError(r) ==
    /\ req[r] = "publish"
    /\ Unpublished(r) = {}
    /\ Keyed(r)
    /\ Fault
    /\ req' = [req EXCEPT ![r] = "accepted"]
    /\ cache' \in {cache, [cache EXCEPT ![Key[r]] = r]}
    /\ UNCHANGED <<kind, stream, delivered, loopVars, effectVars>>

\* The serving process dies, or the client goes away, before the answer.
RequestDies(r) ==
    /\ req[r] \in {"check", "publish"}
    /\ Fault
    /\ req' = [req EXCEPT ![r] = "failed"]
    /\ UNCHANGED <<kind, cache, stream, delivered, loopVars, effectVars>>

\* idempotency_ttl_seconds pass while the client still repeats the call.
KeyExpires(k) ==
    /\ cache[k] # "none"
    /\ Fault
    /\ cache' = [cache EXCEPT ![k] = "none"]
    /\ UNCHANGED <<kind, req, stream, delivered, loopVars, effectVars>>

RequestStep(r) == CheckKey(r) \/ Publish(r) \/ Respond(r)

\* Another producer publishes to fraud.events.> directly.
ForeignPublish(m) ==
    /\ stream[m] = "absent"
    /\ \A r \in Requests : m \notin Body[r]
    /\ stream' = [stream EXCEPT ![m] = "ready"]
    /\ UNCHANGED <<kind, requestVars, delivered, loopVars, effectVars, faults>>

(***************************************************************************)
(* The consumer loop.                                                      *)
(***************************************************************************)
Holds(c, m) == msg[c] = m \/ \E n \in 1 .. MaxDeliver : <<m, n>> \in batch[c]

Goto(c, label) ==
    /\ pc' = [pc EXCEPT ![c] = label]
    /\ UNCHANGED <<batch, msg, tries, handling>>

\* Mutation of Advance: the message stays in hand.
AdvanceHolding(c) ==
    /\ pc' = [pc EXCEPT ![c] = "idle"]
    /\ handling' = [handling EXCEPT ![c] = FALSE]
    /\ UNCHANGED <<batch, msg, tries>>

\* The loop is done with the message in hand.
Advance(c) ==
    /\ pc' = [pc EXCEPT ![c] = "idle"]
    /\ msg' = [msg EXCEPT ![c] = "none"]
    /\ tries' = [tries EXCEPT ![c] = 0]
    /\ handling' = [handling EXCEPT ![c] = FALSE]
    /\ UNCHANGED batch

\* Something raises: the outer except clause calls _handle_message_failure, and
\* what raises inside that clause is swallowed.
Raise(c) ==
    IF handling[c]
    THEN Advance(c)
    ELSE /\ pc' = [pc EXCEPT ![c] = "fail"]
         /\ handling' = [handling EXCEPT ![c] = TRUE]
         /\ UNCHANGED <<batch, msg, tries>>

\* sub.fetch: JetStream hands out what is ready, up to a batch, and
\* counts the deliveries.
Fetch(c) ==
    /\ pc[c] = "idle"
    /\ batch[c] = {}
    /\ \E B \in SUBSET {m \in Messages : stream[m] = "ready"} :
          /\ B # {}
          /\ \/ Cardinality(B) = BatchSize
             \/ Cardinality(B) < BatchSize /\ \A m \in Messages : stream[m] = "ready" => m \in B
          /\ stream' = [m \in Messages |-> IF m \in B THEN "inflight" ELSE stream[m]]
          /\ delivered' = [m \in Messages |->
                              IF m \in B /\ delivered[m] < MaxDeliver
                              THEN delivered[m] + 1 ELSE delivered[m]]
          /\ batch' = [batch EXCEPT ![c] = {<<m, delivered'[m]>> : m \in B}]
    /\ UNCHANGED <<kind, requestVars, msg, tries, pc, handling, effectVars, faults>>

\* The next message of the batch: decode it, recognise a parked envelope.
TakeNext(c) ==
    /\ pc[c] = "idle"
    /\ \E d \in batch[c] :
          /\ batch' = [batch EXCEPT ![c] = @ \ {d}]
          /\ msg' = [msg EXCEPT ![c] = d[1]]
          /\ tries' = [tries EXCEPT ![c] = d[2]]
          /\ pc' = [pc EXCEPT ![c] = CASE kind[d[1]] = "broken" -> "fail"
                                       [] kind[d[1]] = "envelope" -> "ack"
                                       [] OTHER -> "evaluate"]
    /\ UNCHANGED <<kind, requestVars, stream, delivered, handling, effectVars, faults>>

\* POST /v1/decisions/evaluate answers below 400.
Evaluate2xx(c) ==
    /\ pc[c] = "evaluate"
    /\ kind[msg[c]] \in {"good", "refused"}
    /\ evaluated' = evaluated \cup {msg[c]}
    /\ Goto(c, IF OrchestratorSet THEN "commit" ELSE "ack")
    /\ UNCHANGED <<kind, requestVars, stream, delivered, committed, dlq, faults>>

Evaluate4xx(c) ==
    /\ pc[c] = "evaluate"
    /\ kind[msg[c]] = "rejected"
    /\ Goto(c, IF DlqOn4xx THEN "park" ELSE "fail")
    /\ UNCHANGED <<kind, requestVars, stream, delivered, effectVars, faults>>

\* A 5xx is nakked whatever the delivery count.
Evaluate5xx(c) ==
    /\ pc[c] = "evaluate"
    /\ (kind[msg[c]] = "failing" /\ UNCHANGED faults) \/ Fault
    /\ Goto(c, "nak")
    /\ UNCHANGED <<kind, requestVars, stream, delivered, effectVars>>

\* The call raises (refused, timed out), possibly after the evaluation.
EvaluateError(c) ==
    /\ pc[c] = "evaluate"
    /\ Fault
    /\ evaluated' \in {evaluated, evaluated \cup {msg[c]}}
    /\ Raise(c)
    /\ UNCHANGED <<kind, requestVars, stream, delivered, committed, dlq>>

\* Mutation of Commit: a 2xx answer is taken for a failure.
CommitUnrecognised(c) ==
    /\ pc[c] = "commit"
    /\ kind[msg[c]] = "good"
    /\ committed' = [committed EXCEPT ![msg[c]] = @ + 1]
    /\ Goto(c, "fail")
    /\ UNCHANGED <<kind, requestVars, stream, delivered, evaluated, dlq, faults>>

\* _commit_evaluate_side_effects: one transaction of the orchestrator writes the
\* decision, the audit row and both outbox rows, under a new audit_log_id.
Commit(c) ==
    /\ pc[c] = "commit"
    /\ kind[msg[c]] = "good"
    /\ committed' = [committed EXCEPT ![msg[c]] = @ + 1]
    /\ Goto(c, "ack")
    /\ UNCHANGED <<kind, requestVars, stream, delivered, evaluated, dlq, faults>>

\* Mutation of CommitRefused: a refusal counts as ack-safe.
CommitRefusedAcks(c) ==
    /\ pc[c] = "commit"
    /\ (kind[msg[c]] = "refused" /\ UNCHANGED faults) \/ Fault
    /\ Goto(c, "ack")
    /\ UNCHANGED <<kind, requestVars, stream, delivered, effectVars>>

\* The orchestrator is not reached, or answers other than 2xx.
CommitRefused(c) ==
    /\ pc[c] = "commit"
    /\ (kind[msg[c]] = "refused" /\ UNCHANGED faults) \/ Fault
    /\ Goto(c, "fail")
    /\ UNCHANGED <<kind, requestVars, stream, delivered, effectVars>>

\* The transaction commits and its answer is lost.
CommitAnswerLost(c) ==
    /\ pc[c] = "commit"
    /\ kind[msg[c]] = "good"
    /\ Fault
    /\ committed' = [committed EXCEPT ![msg[c]] = @ + 1]
    /\ Goto(c, "fail")
    /\ UNCHANGED <<kind, requestVars, stream, delivered, evaluated, dlq>>

\* _park_evaluate_4xx publishes the envelope.
Park(c) ==
    /\ pc[c] = "park"
    /\ dlq' = dlq \cup {msg[c]}
    /\ Goto(c, "ack")
    /\ UNCHANGED <<kind, requestVars, stream, delivered, evaluated, committed, faults>>

\* The publish raises, with the envelope stored or not.
ParkError(c) ==
    /\ pc[c] = "park"
    /\ Fault
    /\ dlq' \in {dlq, dlq \cup {msg[c]}}
    /\ Goto(c, "fail")
    /\ UNCHANGED <<kind, requestVars, stream, delivered, evaluated, committed>>

\* Mutations of Exhausted: one delivery too early; never.
ExhaustedEarly(c) == tries[c] >= MaxDeliver - 1
ExhaustedNever(c) == FALSE

\* delivered < settings.ingest_max_deliver is false.
Exhausted(c) == tries[c] >= MaxDeliver

\* _handle_message_failure: nak while redeliveries remain, and when there is no
\* usable dead-letter subject.
FailureNaks(c) ==
    /\ pc[c] = "fail"
    /\ ~Exhausted(c) \/ ~DlqOnFailure
    /\ Goto(c, "nak")
    /\ UNCHANGED <<kind, requestVars, stream, delivered, effectVars, faults>>

FailureParks(c) ==
    /\ pc[c] = "fail"
    /\ Exhausted(c)
    /\ DlqOnFailure
    /\ dlq' = dlq \cup {msg[c]}
    /\ Goto(c, "dlq_ack")
    /\ UNCHANGED <<kind, requestVars, stream, delivered, evaluated, committed, faults>>

FailureParkError(c) ==
    /\ pc[c] = "fail"
    /\ Exhausted(c)
    /\ DlqOnFailure
    /\ Fault
    /\ dlq' \in {dlq, dlq \cup {msg[c]}}
    /\ Goto(c, "nak")
    /\ UNCHANGED <<kind, requestVars, stream, delivered, evaluated, committed>>

\* msg.ack of any delivery settles the message.
Ack(c) ==
    /\ pc[c] \in {"ack", "dlq_ack"}
    /\ stream' = [stream EXCEPT ![msg[c]] = "acked"]
    /\ Advance(c)
    /\ UNCHANGED <<kind, requestVars, delivered, effectVars, faults>>

\* The ack, or the nak, does not reach the server.
SettlementLost(c) ==
    /\ pc[c] \in {"ack", "dlq_ack", "nak"}
    /\ Fault
    /\ Advance(c)
    /\ UNCHANGED <<kind, requestVars, stream, delivered, effectVars>>

\* The connection is gone: the ack of a parked failure falls back to the nak.
SettlementError(c) ==
    /\ pc[c] \in {"ack", "dlq_ack", "nak"}
    /\ Fault
    /\ IF pc[c] = "dlq_ack" THEN Goto(c, "nak") ELSE Raise(c)
    /\ UNCHANGED <<kind, requestVars, stream, delivered, effectVars>>

\* msg.nak puts the message up for redelivery unless it is settled by now.
Nak(c) ==
    /\ pc[c] = "nak"
    /\ stream' = [stream EXCEPT ![msg[c]] = IF @ = "acked" THEN "acked" ELSE "ready"]
    /\ Advance(c)
    /\ UNCHANGED <<kind, requestVars, delivered, effectVars, faults>>

\* The process dies with its batch and restarts.
Crash(c) ==
    /\ pc[c] # "idle" \/ batch[c] # {}
    /\ Fault
    /\ batch' = [batch EXCEPT ![c] = {}]
    /\ msg' = [msg EXCEPT ![c] = "none"]
    /\ tries' = [tries EXCEPT ![c] = 0]
    /\ pc' = [pc EXCEPT ![c] = "idle"]
    /\ handling' = [handling EXCEPT ![c] = FALSE]
    /\ UNCHANGED <<kind, requestVars, stream, delivered, effectVars>>

\* ack_wait runs out.  While a consumer still has the message in its batch this
\* counts as a fault: the batch took longer than ack_wait.
AckWait(m) ==
    /\ stream[m] = "inflight"
    /\ stream' = [stream EXCEPT ![m] = "ready"]
    /\ IF \E c \in Consumers : Holds(c, m) THEN Fault ELSE UNCHANGED faults
    /\ UNCHANGED <<kind, requestVars, delivered, loopVars, effectVars>>

ConsumerStep(c) ==
    \/ Fetch(c) \/ TakeNext(c)
    \/ Evaluate2xx(c) \/ Evaluate4xx(c) \/ Evaluate5xx(c)
    \/ Commit(c) \/ CommitRefused(c) \/ Park(c)
    \/ FailureNaks(c) \/ FailureParks(c)
    \/ Ack(c) \/ Nak(c)

ConsumerFault(c) ==
    \/ EvaluateError(c) \/ CommitAnswerLost(c) \/ ParkError(c) \/ FailureParkError(c)
    \/ SettlementLost(c) \/ SettlementError(c) \/ Crash(c)

RequestFault(r) ==
    CheckKeyError(r) \/ PublishError(r) \/ RespondSetError(r) \/ RequestDies(r)

Next ==
    \/ \E r \in Requests : Arrive(r) \/ RequestStep(r) \/ RequestFault(r)
    \/ \E k \in Keys : KeyExpires(k)
    \/ \E c \in Consumers : ConsumerStep(c) \/ ConsumerFault(c)
    \/ \E m \in Messages : ForeignPublish(m) \/ AckWait(m)

Spec == Init /\ [][Next]_vars

\* asyncio runs the handlers and the loop on; JetStream redelivers after
\* ack_wait.  Nothing is assumed of clients, other producers and faults.
Fairness ==
    /\ \A r \in Requests : WF_vars(RequestStep(r))
    /\ \A c \in Consumers : WF_vars(ConsumerStep(c))
    /\ \A m \in Messages : WF_vars(AckWait(m))

FairSpec == Spec /\ Fairness
(***************************************************************************)
(* Properties.                                                             *)
(***************************************************************************)

\* Type invariant.  A delivery count never runs ahead of the stream's, and the
\* loop has a message in hand exactly when it is in its body.
TypeOK ==
    /\ kind \in [Messages -> Kinds]
    /\ req \in [Requests -> ReqState]
    /\ cache \in [Keys -> Requests \cup {"none"}]
    /\ stream \in [Messages -> StreamState]
    /\ delivered \in [Messages -> 0 .. MaxDeliver]
    /\ batch \in [Consumers -> SUBSET Delivery]
    /\ msg \in [Consumers -> Messages \cup {"none"}]
    /\ tries \in [Consumers -> 0 .. MaxDeliver]
    /\ pc \in [Consumers -> PC]
    /\ handling \in [Consumers -> BOOLEAN]
    /\ evaluated \subseteq Messages
    /\ committed \in [Messages -> Nat]
    /\ dlq \subseteq Messages
    /\ faults \in 0 .. MaxFaults
    /\ \A c \in Consumers :
          /\ pc[c] = "idle" <=> msg[c] = "none"
          /\ msg[c] # "none" => tries[c] <= delivered[msg[c]]
          /\ \A d \in batch[c] : d[2] <= delivered[d[1]]

Published(r) == \A m \in Body[r] : stream[m] # "absent"

\* A client that is told "accepted" or "duplicate" has its events on the stream,
\* from this call or from another one with its key, whatever fails between the
\* GET, the publishes of the batch and the SET.
AnswersAreBacked ==
    \A r \in Requests :
        /\ req[r] = "accepted" => Published(r)
        /\ req[r] = "duplicate" =>
              \E q \in Requests : q # r /\ Key[q] = Key[r] /\ Published(q)

\* Dead letters are the 4xx answers and the messages whose redeliveries are
\* used up: no single failure, and no stale delivery in a slow consumer's
\* batch, parks a message that would still be redelivered.
ParkedWhenDue ==
    \A m \in dlq : kind[m] = "rejected" \/ delivered[m] = MaxDeliver

\* Requests with key k that put something on the stream.
Publishers(k) ==
    {r \in Requests : Key[r] = k /\ \E m \in Body[r] : stream[m] # "absent"}

\* An idempotency key is worth one publication: every further call that
\* publishes under it is owed to a fault of its own (a dead handler, Redis
\* failing, the key expiring, a client that did not wait).
PublicationsCaused ==
    RedisConfigured => \A k \in Keys : Cardinality(Publishers(k)) <= 1 + Used

\* The orchestrator commits a message's side effects once: every further
\* commit is owed to a fault of its own (a lost answer or ack, a crash, a batch
\* that outlives ack_wait).  Nothing in ingest_side_effects.py would notice it.
CommitsCaused == \A m \in Messages : committed[m] <= 1 + Used

\* Every message on the stream is in the end acked, once faults stop, unless
\* the Decision API answers it with a 5xx every time.
EventsSettle ==
    \A m \in Messages : stream[m] # "absent" /\ kind[m] # "failing" ~> stream[m] = "acked"

\* "No failure class NAK-loops forever" (_handle_message_failure): every
\* message on the stream is in the end acked, whatever fails.
NoFailureLoops == \A m \in Messages : stream[m] # "absent" ~> stream[m] = "acked"
=============================================================================
