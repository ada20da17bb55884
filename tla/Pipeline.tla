------------------------------ MODULE Pipeline ------------------------------
(***************************************************************************)
(* What the two drivers of the kernel share (RepoPipeline in               *)
(* adapters/code/pipeline.py): tasks are taken in chronological order, the *)
(* flags of a verifier call become records, the records are ingested one   *)
(* by one, the kernel ticks once per task, and a promotion is published by *)
(* a snapshot and a pin.  Modules Learn (Phase 3) and Rolling (Phase 4)    *)
(* add the order in which each driver does so.                             *)
(*                                                                         *)
(* A driver is a sequential program, and pc says where it is.  Between two *)
(* calls of the kernel it does nothing that another component sees.  The   *)
(* verifier (a model behind a cache) may fail on any call, and answers     *)
(* with any of the flag sequences that Answers allows it for the task.     *)
(***************************************************************************)
EXTENDS Kernel, Sequences

CONSTANTS
    NTasks,            \* the chain: tasks 1 .. NTasks, oldest first
    Answers,           \* Answers[t]: what a call for task t may flag
    VerifierAgent,     \* agent_id of the pipeline: verifier:<model>
    Relevance(_, _),   \* task, content: the retrieval similarity of the task's issue
    RetrievalK,        \* retrieval_k
    Arms,              \* names of the evaluation arms
    Control,           \* the arm that sees no memory
    MemoryArms,        \* the arms that see it; any other is a placebo
    Primary,           \* "treatment"
    Tau,               \* arm |-> its retrieval gate
    PoolSize           \* memories in the placebo pool

ASSUME PipelineAssumption ==
    /\ NTasks \in Nat
    /\ Inputs = 1 .. NTasks
    /\ \A t \in 1 .. NTasks : Answers[t] \subseteq Seq({r \in Records : InputOf[r] = t})
    /\ VerifierAgent \in Agents \ {Approver}
    /\ \A r \in Records : AgentOf[r] = VerifierAgent
    /\ {RetrievalK, PoolSize} \subseteq Nat
    /\ Control \in Arms /\ Primary \in MemoryArms
    /\ MemoryArms \subseteq Arms \ {Control}
    /\ Tau \in [MemoryArms -> 0 .. Scale]

\* The id of a record is the digest of its task, its rank among the answer's
\* flags and its location (_records): an answer never names one twice.
ASSUME RankedAssumption ==
    \A t \in 1 .. NTasks : \A flags \in Answers[t] :
        \A i, j \in DOMAIN flags : flags[i] = flags[j] => i = j

VARIABLES
    pc,                \* where the driver is
    task,              \* the task it is at
    pending,           \* records still to ingest
    agentClock,        \* agent_clock
    learnErrors,       \* learn_errors: tasks that taught nothing
    answered           \* history: every record that was to be learned from

driverVars == <<pc, task, pending, agentClock, learnErrors, answered>>

DriverInit ==
    /\ Init
    /\ pc = "next"
    /\ task = 1
    /\ pending = << >>
    /\ agentClock = Zero
    /\ learnErrors = {}
    /\ answered = {}
-----------------------------------------------------------------------------
(***************************************************************************)
(* What a record says: "symptom => location :: reason", the symptom being  *)
(* the head of the issue                                                   *)
(***************************************************************************)
RecordContent(head, location) == [symptom |-> head, location |-> location]

\* location_of: what is between the first "=>" and the "::" after it.  An issue
\* whose head has an arrow of its own brings the rest of the head along, up to a
\* "::" of its own; then the place is not read at all.
LocationOf(c) ==
    (IF c.symptom.arrow THEN <<c.symptom.text>> ELSE << >>)
    \o (IF c.symptom.arrow /\ c.symptom.colons THEN << >> ELSE <<c.location>>)

\* FileKeyedSimilarity and FunctionKeyedSimilarity
KeyedSim(c, d) == IF LocationOf(c) = LocationOf(d) THEN Scale ELSE 0
-----------------------------------------------------------------------------
(***************************************************************************)
(* What an arm's prompt shows                                              *)
(***************************************************************************)
Placebos == Arms \ (MemoryArms \union {Control})

AtMost(k, n) == IF n < k THEN n ELSE k

\* _retrieve: the memories among the k best that are relevant at all and pass
\* the gate of the arm; how many there are
Retrieved(version, t, tau) ==
    LET relevant(m) == Relevance(t, m.content) > 0 /\ Relevance(t, m.content) >= tau
    IN  AtMost(RetrievalK, Cardinality({m \in Store!At(version) : relevant(m)}))

\* _placebo: as many lines, from the pool
Placebo(n) == AtMost(PoolSize, n)
-----------------------------------------------------------------------------
Elements(s) == {s[k] : k \in DOMAIN s}

\* _records: the verifier has seen the kernel's memory, whose clock is c, and
\* takes one step; its flags become records with that clock.
Propose(flags, c) ==
    /\ agentClock' = Tick(Merge(agentClock, c), VerifierAgent)
    /\ pending' = flags

\* The kernel never meets a record twice (RankedAssumption).
IngestNext ==
    /\ pc = "ingest"
    /\ pending # << >>
    /\ LET r == Head(pending)
       IN  \/ IngestAdmit(r, agentClock)
           \/ IngestReinforce(r, agentClock)
           \/ IngestDiscard(r, agentClock)
    /\ pending' = Tail(pending)
    /\ UNCHANGED <<pc, task, agentClock, learnErrors, answered>>

\* Variant: what was promoted is not published.
TickTaskUnpublished(done) ==
    /\ pc = "ingest"
    /\ pending = << >>
    /\ AnyTick
    /\ pc' = done
    /\ UNCHANGED <<task, pending, agentClock, learnErrors, answered>>

\* One tick per task; what it promotes is published next.
TickTask(done) ==
    /\ pc = "ingest"
    /\ pending = << >>
    /\ AnyTick
    /\ pc' = IF objects' # objects THEN "publish" ELSE done
    /\ UNCHANGED <<task, pending, agentClock, learnErrors, answered>>

Publish ==
    /\ pc = "publish"
    /\ Snapshot
    /\ pc' = "show"
    /\ UNCHANGED <<task, pending, agentClock, learnErrors, answered>>

\* The pin of the version that the snapshot returned
Show(done) ==
    /\ pc = "show"
    /\ Pin({Live})
    /\ pc' = done
    /\ UNCHANGED <<task, pending, agentClock, learnErrors, answered>>
-----------------------------------------------------------------------------
(***************************************************************************)
(* Properties of either driver                                             *)
(***************************************************************************)
\* (pipeline.py: "newly promoted memory becomes visible to the next task")
\* When a task begins, readers see exactly the memory that is live.
MemoryCurrent == pc = "next" => Visible = Live

\* No two live memories are the same pattern: the surprise gate is asked about
\* every record with the memory of all earlier tasks in sight, so a pattern
\* that memory holds is not buffered, and promoted, again.
DistinctPatterns ==
    \A m, n \in Live : m # n => Scale - Sim[m.content][n.content] > Theta

\* Where records are the same pattern exactly if they name the same location,
\* every tick promotes and no entry expires within the chain, a location is in
\* memory between tasks exactly if the records that were to be learned from
\* suffice for it, and then once.  So what is learned depends on those records
\* alone: not on arms, on their order, or on the calls of other arms that failed.
\* (A promotion that readers do not see, as pipeline.py:194 would leave one if it
\* could happen, is learned a second time by the tasks that follow.)
Keyed ==
    /\ \A c, d \in Content : Sim[c][d] = KeyedSim(c, d)
    /\ Schedule = 1 /\ TTL > NTasks /\ Contradicts = {}

Suffices(place) ==
    LET evidence == {r \in answered \intersect Eligible : LocationOf(ContentOf[r]) = place}
    IN  /\ Cardinality(evidence) >= MinOccurrences
        /\ Cardinality({InputOf[r] : r \in evidence}) >= MinInputs

LearnsExactly ==
    Keyed /\ pc = "next" =>
        /\ {LocationOf(m.content) : m \in Live} =
               {place \in {LocationOf(c) : c \in Content} : Suffices(place)}
        /\ \A m, n \in Live : LocationOf(m.content) = LocationOf(n.content) => m = n
=============================================================================
