---------------------------- MODULE MCProcessor ----------------------------
(* Small instances of Processor for TLC. *)
EXTENDS Processor

\* Every engine serves the one queue.
OneQueue == [e \in Engines |-> <<"default">>]

\* Engine "A" serves "critical" and engine "B" serves "default".
Specialised == [e \in Engines |-> IF e = "A" THEN <<"critical">> ELSE <<"default">>]

\* A count below the range that SetRetry clamps to.
BelowRange == {-1}

\* Scenarios: at most as many disturbances of each kind as the bag says.
OneOf(kinds) == [k \in AllDisturbances |-> IF k \in kinds THEN 1 ELSE 0]
OneStop == {OneOf({"stop"})}
OneCrash == {OneOf({"crash"})}
SlowAndStop == {OneOf({"slow", "stop"})}
SlowOrCrash == {OneOf({"slow"}), OneOf({"crash"})}
Faults == {OneOf({"error", "stop"}), OneOf({"crash"}), OneOf({"slow"}), OneOf({"clear"})}
=============================================================================
