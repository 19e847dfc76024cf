---------------------------- MODULE MCEventIngest ----------------------------
(* Instances of EventIngest for TLC. *)
EXTENDS IngestImplements, TLC

\* Two calls with one key, the second the client's repetition of the first, and
\* a message of another producer, which may be anything.
MCKey == [r \in Requests |-> "k"]
RepeatBody == [r \in Requests |-> CASE r = "r1" -> {"m1"} [] r = "r2" -> {"m2"}]
RepeatKinds ==
    {[m \in Messages |-> IF m = "m3" THEN x ELSE "good"] : x \in Kinds \ {"good"}}

\* One batch of two events, the second of a kind an endpoint can publish, and a
\* message that no endpoint publishes.
BatchBody == [r \in Requests |-> {"m1", "m2"}]
BatchKinds ==
    {[m \in Messages |-> CASE m = "m1" -> "good" [] m = "m2" -> x[1] [] m = "m3" -> x[2]] :
        x \in {<<"refused", "broken">>, <<"failing", "envelope">>}}

ConsumerSymmetry == Permutations(Consumers)
=============================================================================
