----------------------------- MODULE MCPipeline -----------------------------
(***************************************************************************)
(* The chain that the instances of Learn and Rolling share: the registered *)
(* consolidation (two records are the same pattern exactly if they name    *)
(* the same place), two places.                                            *)
(***************************************************************************)
EXTENDS Pipeline, TLC

MCAgents == {"kernel", "gate", "verifier"}
MCInputs == 1 .. NTasks

\* The head of the third task's issue has an arrow in it.  That of the fifth has an
\* arrow and colons: "=> a ::", so that both of its flags are read as place a.
IssueHead(t) ==
    [text |-> <<"one", "two", "three", "four", "a">>[t],
     arrow |-> t \in {3, 5}, colons |-> t = 5]
MCContent == {RecordContent(IssueHead(t), place) : t \in MCInputs, place \in {"a", "b"}}

\* Rank 1 of every task names place a, rank 2 place b.
MCRecords == {<<t, rank>> : t \in MCInputs, rank \in {1, 2}}
MCContentOf ==
    [r \in MCRecords |-> RecordContent(IssueHead(r[1]), IF r[2] = 1 THEN "a" ELSE "b")]
MCInputOf == [r \in MCRecords |-> r[1]]
MCAgentOf == [r \in MCRecords |-> "verifier"]
MCClockOf == [r \in MCRecords |-> [x \in MCAgents |-> 0]]
MCSim == [x \in MCContent |-> [y \in MCContent |-> KeyedSim(x, y)]]
MCContradicts == {}

\* The first flag of b is a false positive.
MCEligible == MCRecords \ {<<1, 2>>}

\* The gated arm is shown what names b alone.
MCRelevance(t, c) == IF c.location = "a" THEN 6 ELSE 10
MCTau == [a \in MemoryArms |-> IF a = "gated" THEN 9 ELSE 5]

\* Task 2 may be answered with the flag of a alone.
MCAnswers ==
    [t \in MCInputs |->
        {<< <<t, 1>>, <<t, 2>> >>} \union (IF t = 2 THEN {<< <<t, 1>> >>} ELSE {})]
=============================================================================
