------------------------------ MODULE MCKernel ------------------------------
(***************************************************************************)
(* Instances of Kernel for TLC: the policy the code adapter ships and a    *)
(* policy under which clustering merges entries.  Scores are twentieths.   *)
(***************************************************************************)
EXTENDS Kernel, TLC

CONSTANT MaxEvents           \* bound: events of the kernel and of its gate

MCAgents == {"kernel", "gate", "verifier"}

MCRecords == {"r1", "r2", "r3", "r4"}
MCInputs == {"t1", "t2", "t3"}
MCInputOf == ("r1" :> "t1") @@ ("r2" :> "t2") @@ ("r3" :> "t3") @@ ("r4" :> "t3")

\* Three contents whose pairwise similarities are p (a, b), q (b, c), r (a, c)
MCContent == {"a", "b", "c"}
Symmetric(p, q, r) ==
    [x \in MCContent |-> [y \in MCContent |->
        CASE x = y -> 20
          [] {x, y} = {"a", "b"} -> p
          [] {x, y} = {"b", "c"} -> q
          [] {x, y} = {"a", "c"} -> r]]

\* Under the shipped bars (0.45, 0.70, 0.60): b reinforces a, c is discarded
\* next to b, and a and c are admitted side by side.
SimShipped == Symmetric(15, 13, 4)
MCContentOf == ("r1" :> "a") @@ ("r2" :> "b") @@ ("r3" :> "a") @@ ("r4" :> "c")
\* The approver itself proposed r3.
MCAgentOf == [r \in MCRecords |-> IF r = "r3" THEN "gate" ELSE "verifier"]
VerifierOnly == [r \in MCRecords |-> "verifier"]
MCRecordClock ==
    ("r1" :> 1) @@ ("r2" :> 2) @@ ("r3" :> 2) @@ ("r4" :> 3)
MCClockOf == [r \in MCRecords |->
                [a \in MCAgents |-> IF a = "verifier" THEN MCRecordClock[r] ELSE 0]]
MCEligible == MCRecords \ {"r4"}

\* r1 is a false positive; r2 and r3 are labelled bad and say something else.
FalsePositiveFirst == {"r2", "r3"}
SecondSaysB == [MCContentOf EXCEPT !["r3"] = "b"]

NoContradiction == {}

\* Under loose bars (0.40, 0.60, 0.55): a and c are admitted side by side and
\* cluster, b reinforces a until c is there, which is nearer, and d is apart.
\* The records that say a and c are false positives.
LooseRecords == {"r1", "r2", "r3", "r4", "r5", "r6"}
LooseContent == MCContent \union {"d"}
LooseSim ==
    [x \in LooseContent |-> [y \in LooseContent |->
        CASE x = y -> 20
          [] {x, y} = {"a", "b"} -> 12
          [] {x, y} = {"b", "c"} -> 15
          [] {x, y} = {"a", "c"} -> 11
          [] OTHER -> 0]]
LooseContentOf ==
    ("r1" :> "a") @@ ("r2" :> "b") @@ ("r3" :> "d")
    @@ ("r4" :> "c") @@ ("r5" :> "d") @@ ("r6" :> "b")
LooseInputOf ==
    ("r1" :> "t3") @@ ("r2" :> "t1") @@ ("r3" :> "t2")
    @@ ("r4" :> "t3") @@ ("r5" :> "t1") @@ ("r6" :> "t2")
LooseAgentOf == [r \in LooseRecords |-> "verifier"]
LooseClockOf ==
    [r \in LooseRecords |->
        [a \in MCAgents |-> IF a = "verifier" THEN 1 ELSE 0]]
LooseEligible == LooseRecords \ {"r1", "r4"}
\* d contradicts a memory that says b
LooseContradiction == {<<"d", "b">>}

WithinBound == vclock["kernel"] + vclock["gate"] < MaxEvents

MCNext == WithinBound /\ Next
MCSpec == Init /\ [][MCNext]_vars

MCNextRepeating == WithinBound /\ NextRepeating
MCSpecRepeating == Init /\ [][MCNextRepeating]_vars
=============================================================================
