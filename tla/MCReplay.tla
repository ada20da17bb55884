------------------------------ MODULE MCReplay ------------------------------
(***************************************************************************)
(* Instances of Replay for TLC: three records, two patterns.               *)
(***************************************************************************)
EXTENDS Replay, TLC

CONSTANT MaxCalls            \* bound: calls in the trace

MCAgents == {"kernel", "gate", "verifier"}
MCRecords == {"r1", "r2", "r3"}
MCContent == {"a", "b"}
MCInputs == {"t1", "t2", "t3"}
MCContentOf == ("r1" :> "a") @@ ("r2" :> "a") @@ ("r3" :> "b")
MCInputOf == ("r1" :> "t1") @@ ("r2" :> "t2") @@ ("r3" :> "t3")
MCAgentOf == [r \in MCRecords |-> "verifier"]
MCClockOf ==
    [r \in MCRecords |->
        [a \in MCAgents |-> IF a # "verifier" THEN 0
                            ELSE IF r = "r1" THEN 1 ELSE 2]]
MCContradicts == {}
MCSim == [x \in MCContent |-> [y \in MCContent |-> IF x = y THEN 2 ELSE 0]]
OneReading == {1}
TwoReadings == {1, 2}

WithinBound == Len(trace) < MaxCalls

\* ReplayNext within bounds: one untraced call is enough.
MCNext ==
    \/ Replaying
    \/ Record(WithinBound /\ (TracedCall \/ RefusedCall))
    \/ Record(OnlyIngestRetrieved /\ UntracedCall)
MCSpec == ReplayInit /\ [][MCNext]_replayVars /\ ReplayFairness

\* Two runs side by side, with a clock of their own each.
TwinSpec == ReplayInit /\ [][WithinBound /\ SameCall]_replayVars
=============================================================================
