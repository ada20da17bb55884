--------------------------- MODULE Evaluate_proofs ---------------------------
(***************************************************************************)
(* Theorems about module Evaluate: every task is scored by every arm or by *)
(* none, the arms are evaluated with the memory that learning froze, and   *)
(* that memory is what the answers of Phase 3 suffice for.                 *)
(***************************************************************************)
EXTENDS Evaluate, Pipeline_proofs

\* The tasks that are over, the present one left out
Over == (EvalTasks \ left) \ (IF pc = "arms" THEN current ELSE {})

PairInv ==
    /\ left \subseteq EvalTasks
    /\ pc = "arms" => /\ DOMAIN got \union toCome = Arms
                      /\ current \subseteq EvalTasks \ left
                      /\ \A t, u \in current : t = u
    /\ \A a \in Arms :
          /\ scored[a] = scored[Control] /\ errors[a] = errors[Control]
          /\ scored[a] \intersect errors[a] = {}
          /\ scored[a] \union errors[a] = Over

\* The steps outside of evaluate_arms
Phase3 == LearnPhase \/ Save \/ Killed
Loads == LoadKernel \/ LoadRaises \/ EmptyKernel

LearnPcs == {"next", "ingest", "publish", "show", "end", "skip", "done"}

LEMMA LearnPhaseSteps ==
    ASSUME LearnPhase
    PROVE  /\ UNCHANGED <<fileVars, frozenVersion, taskVars, resultVars>>
           /\ pc \in LearnPcs \ {"done"} /\ pc' \in LearnPcs
           /\ pc' = "done" => Freeze /\ learned' = {Live}
           /\ pc' # "done" => learned' = learned
<1>1. LearnNext /\ UNCHANGED <<fileVars, frozenVersion, taskVars, resultVars>>
      /\ learned' = (IF pc' = "done" THEN {Live} ELSE learned)
  BY DEF LearnPhase
<1>2. pc \in LearnPcs \ {"done"} /\ pc' \in LearnPcs
  BY <1>1 DEF LearnNext, LocalizeAnswers, LocalizeFails, SkipTask, IngestNext, TickTask, Publish,
              Show, EndTask, FreezeAtEnd, LearnPcs
<1>3. pc' = "done" => Freeze
  BY <1>1 DEF LearnNext, LocalizeAnswers, LocalizeFails, SkipTask, IngestNext, TickTask, Publish,
              Show, EndTask, FreezeAtEnd
<1>. QED  BY <1>1, <1>2, <1>3

LEMMA PairStep ==
    ASSUME PairInv, [EvaluateNext \/ Killed]_evaluateVars
    PROVE  PairInv'
<1>. USE PipelineAssumption DEF PairInv, Over
<1>1. ASSUME UNCHANGED <<taskVars, resultVars>>, pc # "arms", pc' # "arms"
      PROVE  PairInv'
  BY <1>1 DEF taskVars, resultVars
<1>2. CASE Phase3
  BY <1>1, <1>2, LearnPhaseSteps DEF Phase3, Save, Killed, LearnPcs
<1>3. CASE Loads
  BY <1>1, <1>3 DEF Loads, LoadKernel, LoadRaises, EmptyKernel, FreshDriver, Phase3Over
<1>4. ASSUME NEW t \in EvalTasks, BeginTask(t)
      PROVE  PairInv'
  BY <1>4 DEF BeginTask, resultVars, NoAnswer
<1>5. ASSUME NEW a \in Arms, ArmAnswers(a)
      PROVE  PairInv'
  <2>1. /\ pc = "arms" /\ pc' = "arms" /\ toCome' = toCome \ {a}
        /\ DOMAIN got' = DOMAIN got \union {a}
        /\ UNCHANGED <<left, current, scored, errors>>
    BY <1>5 DEF ArmAnswers, resultVars
  <2>. QED  BY <1>5, <2>1
<1>6. ASSUME NEW a \in Arms, ArmFails(a)
      PROVE  PairInv'
  <2>1. /\ pc = "arms" /\ pc' = "evaluate"
        /\ errors' = [b \in Arms |-> errors[b] \union current]
        /\ UNCHANGED <<left, current, scored>>
    BY <1>6 DEF ArmFails, taskVars
  <2>. QED  BY <2>1
<1>7. CASE ScoreTask
  <2>1. /\ pc = "arms" /\ pc' = "evaluate" /\ DOMAIN got = Arms
        /\ UNCHANGED <<left, current, errors>>
    BY <1>7 DEF ScoreTask, taskVars
  <2>2. scored' = [a \in Arms |-> scored[a] \union current]
    BY <1>7, <2>1 DEF ScoreTask
  <2>. QED  BY <2>1, <2>2
<1>8. CASE Report
  BY <1>1, <1>8 DEF Report
<1>9. CASE UNCHANGED evaluateVars
  BY <1>9 DEF evaluateVars, learnVars, driverVars, taskVars, resultVars
<1>. QED
  BY <1>2, <1>3, <1>4, <1>5, <1>6, <1>7, <1>8, <1>9 DEF EvaluateNext, Phase3, Loads

\* EvaluationPairs, whichever arms fail, in whatever order the tasks and the
\* arms are taken (RepoPipeline.evaluate_arms).
THEOREM EvaluationIsPaired == EvaluateSpec => []EvaluationPairs
<1>1. EvaluateInit => PairInv
  BY PipelineAssumption DEF EvaluateInit, DriverInit, PairInv, Over, NoAnswer
<1>2. PairInv => EvaluationPairs
  BY DEF PairInv, Over, EvaluationPairs
<1>. QED  BY <1>1, <1>2, PairStep, PTL DEF EvaluateSpec
-----------------------------------------------------------------------------
\* What an arm is to be shown at a task
Right(a, s) ==
    /\ a = Control => s.shown = {}
    /\ a \in MemoryArms => /\ s.shown = frozenVersion
                           /\ s.lines = Retrieved(frozenVersion, s.task, Tau[a])
    /\ a \in Placebos => s.lines = Placebo(Retrieved(frozenVersion, s.task, Tau[Primary]))

Evaluating == {"evaluate", "arms", "reported"}

\* The frozen version on its way through the file
SavedInv ==
    /\ pc \in LearnPcs => file = {} /\ learned \subseteq {Store!At(pinned)}
    /\ pc \in LearnPcs \ {"done"} => learned = {}
    /\ pc = "done" => learned = {Store!At(pinned)}
    /\ \A k \in file : Store!At(k.pinned) = UNION learned
    /\ pc \in Evaluating =>
          Store!At(frozenVersion) = IF file = {} THEN {} ELSE UNION learned

EvaluatedInv ==
    /\ pc \notin Evaluating => \A a \in Arms : seen[a] = {}
    /\ pc = "arms" =>
          /\ DOMAIN got \subseteq Arms
          /\ \A a \in DOMAIN got : Right(a, got[a])
          /\ \A t \in current : nPrimary \subseteq {Retrieved(frozenVersion, t, Tau[Primary])}
    /\ \A a \in Arms : \A s \in seen[a] : Right(a, s)

LEMMA SavedStep ==
    ASSUME SavedInv, [EvaluateNext \/ Killed]_evaluateVars
    PROVE  SavedInv'
<1>. USE DEF SavedInv, Store!At, Evaluating, LearnPcs
<1>1. CASE LearnPhase
  <2>1. file = {} /\ file' = {} /\ pc \in LearnPcs \ {"done"} /\ pc' \in LearnPcs
    BY <1>1, LearnPhaseSteps DEF fileVars
  <2>2. CASE pc' = "done"
    <3>1. learned' = {Live} /\ pinned' = {Live}
      BY <1>1, <2>2, LearnPhaseSteps DEF Freeze
    <3>2. UNION pinned' = Live
      BY <3>1
    <3>. QED  BY <2>1, <2>2, <3>1, <3>2
  <2>3. CASE pc' # "done"
    BY <1>1, <2>1, <2>3, LearnPhaseSteps
  <2>. QED  BY <2>2, <2>3
<1>2. CASE Save
  <2>1. file' = {Saved} /\ Saved.pinned = pinned /\ learned = {UNION pinned}
        /\ learned' = learned /\ pc' = "saved"
    BY <1>2 DEF Save, Saved
  <2>. QED  BY <2>1
<1>3. CASE Killed
  BY <1>3 DEF Killed
<1>4. CASE LoadKernel
  <2>1. PICK k \in file : frozenVersion' = k.pinned
    BY <1>4 DEF LoadKernel
  <2>. QED  BY <1>4, <2>1 DEF LoadKernel, FreshDriver, fileVars
<1>5. CASE LoadRaises
  BY <1>5 DEF LoadRaises, fileVars
<1>6. CASE EmptyKernel
  BY <1>6 DEF EmptyKernel, FreshDriver, fileVars
<1>7. CASE (\E t \in EvalTasks : BeginTask(t)) \/ ScoreTask \/ Report
  BY <1>7 DEF BeginTask, ScoreTask, Report, UnchangedEvaluating, fileVars
<1>8. CASE \E a \in Arms : ArmAnswers(a) \/ ArmFails(a)
  BY <1>8 DEF ArmAnswers, ArmFails, UnchangedEvaluating, fileVars
<1>9. CASE UNCHANGED evaluateVars
  BY <1>9 DEF evaluateVars, learnVars, vars, driverVars, fileVars
<1>. QED
  BY <1>1, <1>2, <1>3, <1>4, <1>5, <1>6, <1>7, <1>8, <1>9 DEF EvaluateNext

LEMMA AnswerRight ==
    ASSUME PairInv, EvaluatedInv, NEW a \in Arms, ArmAnswers(a)
    PROVE  EvaluatedInv'
<1>. USE PipelineAssumption
<1>1. /\ pc = "arms" /\ pc' = "arms"
      /\ UNCHANGED <<current, frozenVersion, seen>>
  BY DEF ArmAnswers, UnchangedEvaluating, resultVars
<1>2. PICK t \in current :
         /\ PinFor(a) /\ CountPrimary(a, t)
         /\ got' = [b \in DOMAIN got \union {a} |->
                       IF b = a THEN [task |-> t, shown |-> pinned', lines |-> Lines(a, t)]
                       ELSE got[b]]
  BY DEF ArmAnswers
<1>. DEFINE n == Retrieved(frozenVersion, t, Tau[Primary])
<1>3. current = {t} /\ nPrimary \subseteq {n}
  BY <1>1 DEF PairInv, EvaluatedInv
<1>4. a \notin Placebos => pinned' = (IF a = Control THEN {} ELSE frozenVersion)
  BY <1>2 DEF PinFor, Pin
<1>5. nPrimary' \subseteq {n} /\ (a \in Placebos => nPrimary' = {n})
  BY <1>2, <1>3 DEF PinFor, Pin, CountPrimary, Placebos
<1>6. got'[a].task = t /\ got'[a].shown = pinned' /\ got'[a].lines = Lines(a, t)
  BY <1>2
<1>7. a = Control => Right(a, got[a])'
  BY <1>4, <1>6 DEF Right, Placebos
<1>8. a \in MemoryArms => Right(a, got[a])'
  <2>. SUFFICES ASSUME a \in MemoryArms PROVE Right(a, got[a])'
    OBVIOUS
  <2>1. a # Control /\ a \notin Placebos /\ pinned' = frozenVersion
    BY <1>4 DEF Placebos
  <2>2. Lines(a, t) = Retrieved(frozenVersion, t, Tau[a])
    BY <2>1 DEF Lines
  <2>. QED  BY <1>1, <1>6, <2>1, <2>2 DEF Right
<1>9. a \in Placebos => Right(a, got[a])'
  <2>. SUFFICES ASSUME a \in Placebos PROVE Right(a, got[a])'
    OBVIOUS
  <2>1. a # Control /\ a \notin MemoryArms
    BY DEF Placebos
  <2>2. (CHOOSE k \in nPrimary' : TRUE) = n
    BY <1>5
  <2>3. Lines(a, t) = Placebo(n)
    BY <2>1, <2>2 DEF Lines
  <2>. QED  BY <1>1, <1>6, <2>1, <2>3 DEF Right
<1>10. ASSUME NEW b \in DOMAIN got \ {a}
       PROVE  Right(b, got[b])'
  <2>1. got'[b] = got[b] /\ Right(b, got[b])
    BY <1>1, <1>2 DEF EvaluatedInv
  <2>. QED  BY <1>1, <2>1 DEF Right
<1>11. DOMAIN got' = DOMAIN got \union {a} /\ DOMAIN got \subseteq Arms
  BY <1>1, <1>2 DEF EvaluatedInv
<1>12. \A b \in DOMAIN got' : Right(b, got[b])'
  BY <1>7, <1>8, <1>9, <1>10, <1>11 DEF Placebos
<1>13. \A b \in Arms : \A s \in seen'[b] : Right(b, s)'
  BY <1>1 DEF EvaluatedInv, Right
<1>. QED  BY <1>1, <1>3, <1>5, <1>11, <1>12, <1>13 DEF EvaluatedInv, Evaluating

LEMMA EvaluatedStep ==
    ASSUME PairInv, EvaluatedInv, [EvaluateNext \/ Killed]_evaluateVars
    PROVE  EvaluatedInv'
<1>1. ASSUME \A a \in Arms : seen[a] = {}, seen' = seen, pc' # "arms"
      PROVE  EvaluatedInv'
  BY <1>1 DEF EvaluatedInv
<1>2. CASE Phase3 \/ Loads
  <2>1. pc \notin Evaluating /\ pc' # "arms" /\ seen' = seen
    BY <1>2, LearnPhaseSteps
       DEF Phase3, Save, Killed, Loads, LoadKernel, LoadRaises, EmptyKernel, FreshDriver,
           Phase3Over, resultVars, Evaluating, LearnPcs
  <2>. QED  BY <1>1, <2>1 DEF EvaluatedInv
<1>3. CASE \/ (\E t \in EvalTasks : BeginTask(t)) \/ Report
           \/ \E a \in Arms : ArmFails(a)
  <2>1. /\ UNCHANGED <<seen, frozenVersion>> /\ pc \in Evaluating
        /\ pc' = "arms" => DOMAIN got' = {} /\ nPrimary' = {}
    BY <1>3 DEF BeginTask, ArmFails, Report, UnchangedEvaluating, resultVars, NoAnswer, Evaluating
  <2>. QED  BY <1>3, <2>1 DEF BeginTask, ArmFails, Report, EvaluatedInv, Right, Evaluating
<1>4. CASE \E a \in Arms : ArmAnswers(a)
  BY <1>4, AnswerRight
<1>5. CASE ScoreTask
  <2>1. /\ pc = "arms" /\ pc' = "evaluate" /\ UNCHANGED frozenVersion
        /\ seen' = [a \in Arms |-> IF a \in DOMAIN got THEN seen[a] \union {got[a]} ELSE seen[a]]
    BY <1>5 DEF ScoreTask, UnchangedEvaluating
  <2>2. \A a \in Arms : \A s \in seen'[a] : Right(a, s)
    BY <2>1 DEF EvaluatedInv
  <2>. QED  BY <2>1, <2>2 DEF EvaluatedInv, Right, Evaluating
<1>6. CASE UNCHANGED evaluateVars
  BY <1>6 DEF evaluateVars, learnVars, driverVars, taskVars, resultVars, EvaluatedInv, Right
<1>. QED
  BY <1>2, <1>3, <1>4, <1>5, <1>6 DEF EvaluateNext, Phase3, Loads

\* EvaluatesFrozen: through a save or a kill, a load or an empty kernel, and
\* whatever the arms pin (phase3/learn.py, memkernel/persist.py,
\* phase4/evaluate.py, RepoPipeline.evaluate_arms).
THEOREM FrozenIsEvaluated == EvaluateSpec => []EvaluatesFrozen
<1>. DEFINE Inv == PairInv /\ SavedInv /\ EvaluatedInv
<1>1. EvaluateInit => Inv
  <2>1. EvaluateInit => PairInv
    BY PipelineAssumption DEF EvaluateInit, DriverInit, PairInv, Over, NoAnswer
  <2>2. EvaluateInit => SavedInv /\ EvaluatedInv
    BY DEF EvaluateInit, DriverInit, SavedInv, EvaluatedInv, LearnPcs, Evaluating
  <2>. QED  BY <2>1, <2>2
<1>2. Inv /\ [EvaluateNext \/ Killed]_evaluateVars => Inv'
  BY PairStep, SavedStep, EvaluatedStep
<1>3. Inv => EvaluatesFrozen
  <2>. SUFFICES ASSUME Inv PROVE EvaluatesFrozen
    OBVIOUS
  <2>1. ASSUME NEW a \in Arms \ Placebos, NEW s \in seen[a]
        PROVE  Store!At(s.shown) = IF a = Control \/ file = {} THEN {} ELSE UNION learned
    <3>1. pc \in Evaluating /\ Right(a, s) /\ (a = Control \/ a \in MemoryArms)
      BY DEF EvaluatedInv, Placebos
    <3>2. CASE a = Control
      BY <3>1, <3>2 DEF Right, Store!At
    <3>3. CASE a \in MemoryArms
      BY <3>1, <3>3, PipelineAssumption DEF Right, SavedInv
    <3>. QED  BY <3>1, <3>2, <3>3
  <2>2. ASSUME NEW a \in Placebos, NEW s \in seen[a], NEW x \in seen[Primary], x.task = s.task
        PROVE  s.lines = AtMost(PoolSize, x.lines)
    <3>1. Right(a, s) /\ Right(Primary, x)
      BY PipelineAssumption DEF EvaluatedInv, Placebos
    <3>. QED  BY <2>2, <3>1, PipelineAssumption DEF Right, Placebo
  <2>. QED  BY <2>1, <2>2 DEF EvaluatesFrozen
<1>. QED  BY <1>1, <1>2, <1>3, PTL DEF EvaluateSpec
-----------------------------------------------------------------------------
(***************************************************************************)
(* Phase 3 calls the kernel as any driver does, the file brings its memory *)
(* to the evaluating process, and there nothing changes it.                *)
(***************************************************************************)

\* The learning driver at its task: what was answered is fed or still to come,
\* and there has been at most one tick per task.
PhaseInv ==
    /\ task \in Nat \ {0} /\ agentClock \in Clock
    /\ FreshInv
    /\ answered = fed \union Elements(pending)
    /\ pc # "ingest" => pending = << >>
    /\ pc \in {"ingest", "skip"} => task <= NTasks
    /\ tick <= task
    /\ pc \in {"next", "ingest", "skip"} => tick < task

\* What is pinned is None or one version, and what is saved is the kernel.
FileInv ==
    /\ \A u, v \in pinned : u = v
    /\ \A u, v \in frozenVersion : u = v
    /\ pc \in LearnPcs \union {"killed"} => file = {}
    /\ pc = "saved" => file = {Saved}

MemoryInv ==
    KernelInv /\ EvidenceFed /\ EvidenceUsedOnce /\ EvidenceSuffices /\ IsFiniteSet(fed)

LearnCase == (pc \in LearnPcs => PhaseInv) /\ FileInv /\ MemoryInv

\* The steps of learning are calls of the kernel, and no record comes twice.
LEMMA PhaseCalls ==
    ASSUME PhaseInv, LearnNext
    PROVE  [FreshCalls]_vars
<1>1. ASSUME Operation \/ UNCHANGED vars
      PROVE  [FreshCalls]_vars
  BY <1>1 DEF FreshCalls
<1>2. CASE LocalizeAnswers \/ LocalizeFails \/ EndTask
  BY <1>1, <1>2 DEF LocalizeAnswers, LocalizeFails, EndTask
<1>3. CASE IngestNext
  BY <1>3, IngestIsFresh DEF FreshCalls, PhaseInv
<1>4. CASE SkipTask \/ TickTask("end") \/ Publish \/ FreezeAtEnd
  BY <1>1, <1>4 DEF SkipTask, TickTask, Publish, FreezeAtEnd, Operation
<1>5. CASE Show("end")
  <2>1. Pin({Live})
    BY <1>5 DEF Show
  <2>. QED  BY <1>1, <2>1, PinSingle
<1>. QED  BY <1>2, <1>3, <1>4, <1>5 DEF LearnNext

LEMMA PhaseStep ==
    ASSUME PhaseInv, TypeOK, LearnNext
    PROVE  PhaseInv'
<1>. USE PipelineAssumption, ConstantsAssumption
<1>0. task \in Nat \ {0} /\ tick \in Nat
  BY DEF PhaseInv, TypeOK
<1>1. CASE LocalizeAnswers
  <2>1. PICK flags \in Answers[task] :
           Propose(flags, vclock) /\ answered' = answered \union Elements(flags)
    BY <1>1 DEF LocalizeAnswers
  <2>2. /\ pc = "next" /\ pc' = "ingest" /\ task \in 1 .. NTasks
        /\ UNCHANGED <<task, fed, tick>> /\ pending' = flags /\ pending = << >>
    BY <1>0, <1>1, <2>1 DEF LocalizeAnswers, Propose, vars, PhaseInv
  <2>3. agentClock' \in Clock
    <3>1. agentClock \in Clock /\ vclock \in Clock /\ VerifierAgent \in Agents
      BY DEF PhaseInv, TypeOK
    <3>2. Merge(agentClock, vclock) \in Clock
      BY ONLY <3>1, MergeBounds
    <3>3. Tick(Merge(agentClock, vclock), VerifierAgent) \in Clock
      BY ONLY <3>1, <3>2, TickAdvances
    <3>. QED  BY <2>1, <3>3 DEF Propose
  <2>4. FreshInv'
    BY <2>2, FreshAnswer DEF PhaseInv, Unlearned
  <2>5. answered' = fed' \union Elements(pending')
    BY <2>1, <2>2 DEF PhaseInv, Elements
  <2>. QED  BY <1>0, <2>2, <2>3, <2>4, <2>5 DEF PhaseInv
<1>2. CASE LocalizeFails
  <2>1. /\ pc = "next" /\ pc' = "skip" /\ task <= NTasks
        /\ UNCHANGED <<task, fed, tick, pending, answered, agentClock>>
    BY <1>2 DEF LocalizeFails, vars
  <2>. QED  BY <2>1 DEF PhaseInv, FreshInv, Unlearned
<1>3. CASE SkipTask \/ EndTask
  <2>1. /\ pc' = "next" /\ task' = task + 1 /\ pc \in {"skip", "end"}
        /\ UNCHANGED <<fed, pending, answered, agentClock>>
    BY <1>3 DEF SkipTask, EndTask, AnyTick, TickOnly, TickAndPromote, vars
  <2>2. tick' = tick \/ (tick' = tick + 1 /\ pc = "skip")
    BY <1>3 DEF SkipTask, EndTask, AnyTick, TickOnly, TickAndPromote, vars
  <2>3. FreshInv'
    BY <1>0, <2>1 DEF PhaseInv, FreshInv
  <2>. QED  BY <1>0, <2>1, <2>2, <2>3 DEF PhaseInv
<1>4. CASE IngestNext
  <2>1. /\ pc = "ingest" /\ pc' = "ingest" /\ UNCHANGED <<task, tick, agentClock, answered>>
        /\ fed' = fed \union {Head(pending)} /\ pending' = Tail(pending) /\ pending # << >>
    BY <1>4 DEF IngestNext, IngestAdmit, IngestReinforce, IngestDiscard, Observe
  <2>2. pending \in Seq(Records)
    <3>1. pending \in Seq({r \in Records : InputOf[r] = task})
      BY <2>1 DEF PhaseInv, FreshInv
    <3>. QED  BY <3>1
  <2>3. Elements(pending) = {Head(pending)} \union Elements(pending')
    BY <2>1, <2>2, HeadFirst
  <2>4. FreshInv'
    BY <1>4, FreshIngest DEF PhaseInv
  <2>. QED  BY <2>1, <2>3, <2>4 DEF PhaseInv
<1>5. CASE TickTask("end") \/ Publish \/ Show("end") \/ FreezeAtEnd
  <2>1. /\ pc' \in {"publish", "show", "end", "done"}
        /\ UNCHANGED <<task, fed, pending, answered, agentClock>>
        /\ tick' = tick \/ (tick' = tick + 1 /\ pc = "ingest")
        /\ pending = << >>
    BY <1>5 DEF TickTask, AnyTick, TickOnly, TickAndPromote, Publish, Snapshot, Show, Pin,
                FreezeAtEnd, Freeze, PhaseInv
  <2>2. FreshInv'
    BY <2>1 DEF PhaseInv, FreshInv, Unlearned
  <2>. QED  BY <1>0, <2>1, <2>2 DEF PhaseInv
<1>. QED  BY <1>1, <1>2, <1>3, <1>4, <1>5 DEF LearnNext

\* A call of the kernel keeps what it promises.
LEMMA MemoryCalls ==
    ASSUME MemoryInv, [FreshCalls]_vars
    PROVE  MemoryInv'
<1>1. [Calls]_vars
  BY DEF Calls, FreshCalls
<1>. QED  BY <1>1, KernelStep, EvidenceStep, SufficesStep DEF MemoryInv, KernelInv

\* A kernel that is loaded has the memory and an empty buffer.
LEMMA MemoryLoaded ==
    ASSUME MemoryInv, DOMAIN buffer' = {}, buffer' = [e \in {} |-> buffer'[e]],
           UNCHANGED <<tick, vclock, objects, supersededBy, versions, pinned, frozen, fed>>
    PROVE  MemoryInv'
<1>1. Live' = Live
  BY DEF Live, Store!Live
<1>2. TypeOK'
  BY DEF MemoryInv, KernelInv, TypeOK
<1>3. CausalOrder' /\ SupersessionChains' /\ NoUnresolvedContradiction'
  BY <1>1 DEF MemoryInv, KernelInv, CausalOrder, SupersessionChains, NoUnresolvedContradiction
<1>4. EntriesArePast' /\ NoStaleEvidence' /\ RedundancyFree'
  BY DEF EntriesArePast, NoStaleEvidence, RedundancyFree
<1>5. EvidenceFed' /\ EvidenceUsedOnce' /\ EvidenceSuffices' /\ IsFiniteSet(fed)'
  BY <1>1 DEF MemoryInv, EvidenceFed, EvidenceUsedOnce, EvidenceSuffices
<1>. QED  BY <1>2, <1>3, <1>4, <1>5 DEF MemoryInv, KernelInv

LEMMA MemoryEmpty ==
    ASSUME MemoryInv, EmptyKernel
    PROVE  MemoryInv'
<1>1. /\ DOMAIN buffer' = {} /\ buffer' = [e \in {} |-> buffer'[e]]
      /\ objects' = {} /\ DOMAIN supersededBy' = {} /\ tick' = 0 /\ fed' = fed
      /\ vclock' = Tick(Zero, KernelAgent) /\ versions' = {{}} /\ pinned' = {{}} /\ frozen' = TRUE
  BY DEF EmptyKernel, FreshDriver
<1>2. vclock' \in Clock
  <2>1. Zero \in Clock /\ KernelAgent \in Agents
    BY ConstantsAssumption DEF Zero, Clock
  <2>. QED  BY <1>1, <2>1, TickAdvances
<1>3. Live' = {}
  BY <1>1 DEF Live, Store!Live
<1>4. TypeOK'
  BY <1>1, <1>2 DEF MemoryInv, KernelInv, TypeOK
<1>. QED
  BY <1>1, <1>3, <1>4
     DEF MemoryInv, KernelInv, CausalOrder, SupersessionChains, NoUnresolvedContradiction,
         EntriesArePast, NoStaleEvidence, RedundancyFree, EvidenceFed, EvidenceUsedOnce,
         EvidenceSuffices

\* What an evaluating process does to its kernel is to pin, if anything.
Evaluates ==
    \/ \E t \in EvalTasks : BeginTask(t)
    \/ \E a \in Arms : ArmAnswers(a) \/ ArmFails(a)
    \/ ScoreTask \/ Report

LEMMA EvaluatesPins ==
    ASSUME FileInv, Evaluates
    PROVE  /\ UNCHANGED vars \/ (Operation /\ \E V : Pin(V))
           /\ FileInv'
           /\ pc' \notin LearnPcs
<1>1. /\ pc \in {"evaluate", "arms"} /\ pc' \in {"evaluate", "arms", "reported"}
      /\ frozenVersion' = frozenVersion
  BY DEF Evaluates, BeginTask, ArmAnswers, ArmFails, ScoreTask, Report, UnchangedEvaluating
<1>2. ASSUME UNCHANGED vars
      PROVE  FileInv'
  BY <1>1, <1>2 DEF FileInv, vars, LearnPcs
<1>3. ASSUME NEW a \in Arms, PinFor(a), ~ UNCHANGED vars
      PROVE  Operation /\ (\E V : Pin(V)) /\ FileInv'
  <2>. DEFINE V == IF a = Control THEN {} ELSE frozenVersion
  <2>1. Pin(V) /\ \A u, v \in V : u = v
    BY <1>3 DEF PinFor, FileInv
  <2>2. pinned' = V
    BY <2>1 DEF Pin
  <2>3. FileInv'
    BY <1>1, <2>1, <2>2 DEF FileInv, LearnPcs
  <2>. HIDE DEF V
  <2>. QED  BY <2>1, <2>3, PinSingle
<1>4. UNCHANGED vars \/ \E a \in Arms : PinFor(a)
  BY DEF Evaluates, BeginTask, ArmAnswers, ArmFails, ScoreTask, Report
<1>5. pc' \notin LearnPcs
  BY <1>1 DEF LearnPcs
<1>. QED  BY <1>2, <1>3, <1>4, <1>5

LEMMA FileLearn ==
    ASSUME FileInv, LearnPhase
    PROVE  FileInv'
<1>1. /\ pc \in LearnPcs /\ pc' \in LearnPcs /\ UNCHANGED <<file, frozenVersion>>
  BY LearnPhaseSteps DEF fileVars
<1>2. \A u, v \in pinned' : u = v
  <2>1. LearnNext
    BY DEF LearnPhase
  <2>2. pinned' = pinned \/ pinned' = {Live}
    BY <2>1 DEF LearnNext, LocalizeAnswers, LocalizeFails, SkipTask, EndTask, FreezeAtEnd, Freeze,
                IngestNext, IngestAdmit, IngestReinforce, IngestDiscard, Observe, TickTask,
                AnyTick, TickOnly, TickAndPromote, Publish, Snapshot, Show, Pin, vars
  <2>. QED  BY <2>2 DEF FileInv
<1>. QED  BY <1>1, <1>2 DEF FileInv, LearnPcs

\* A load brings the kernel that was saved, or none.
LEMMA LoadKernelLoads ==
    ASSUME FileInv, LoadKernel
    PROVE  /\ DOMAIN buffer' = {} /\ buffer' = [e \in {} |-> buffer'[e]]
           /\ UNCHANGED <<tick, vclock, objects, supersededBy, versions, pinned, frozen, fed>>
           /\ frozenVersion' = pinned /\ pc' = "evaluate"
<1>1. PICK k \in file :
          /\ tick' = k.tick /\ vclock' = k.vclock
          /\ objects' = k.objects /\ supersededBy' = k.supersededBy
          /\ versions' = k.versions /\ pinned' = k.pinned /\ frozen' = k.frozen
          /\ frozenVersion' = k.pinned
  BY DEF LoadKernel
<1>2. pc = "saved"
  BY <1>1 DEF LoadKernel, Phase3Over, FileInv, LearnPcs
<1>3. k = Saved
  BY <1>1, <1>2 DEF FileInv
<1>4. /\ k.tick = tick /\ k.vclock = vclock /\ k.objects = objects
      /\ k.supersededBy = supersededBy /\ k.versions = versions /\ k.pinned = pinned
      /\ k.frozen = frozen
  BY <1>3 DEF Saved
<1>. QED  BY <1>1, <1>4 DEF LoadKernel, FreshDriver

LEMMA LearnCaseStep ==
    ASSUME LearnCase, [EvaluateNext \/ Killed]_evaluateVars
    PROVE  LearnCase'
<1>. USE DEF LearnCase
<1>0. ASSUME UNCHANGED vars
      PROVE  MemoryInv'
  <2>1. [FreshCalls]_vars
    BY <1>0
  <2>. QED  BY <2>1, MemoryCalls
<1>1. CASE LearnPhase
  <2>1. LearnNext /\ PhaseInv
    BY <1>1, LearnPhaseSteps DEF LearnPhase
  <2>. QED  BY <1>1, <2>1, PhaseStep, PhaseCalls, MemoryCalls, FileLearn DEF MemoryInv, KernelInv
<1>2. CASE Save
  <2>1. UNCHANGED vars /\ pc' = "saved" /\ file' = {Saved} /\ frozenVersion' = frozenVersion
    BY <1>2 DEF Save
  <2>2. Saved' = Saved
    BY <2>1 DEF Saved, vars
  <2>. QED  BY <1>0, <2>1, <2>2 DEF FileInv, LearnPcs, vars
<1>3. CASE Killed
  <2>1. UNCHANGED <<vars, file, frozenVersion>> /\ pc' = "killed" /\ pc \in LearnPcs
    BY <1>3 DEF Killed, LearnPcs
  <2>. QED  BY <1>0, <2>1 DEF FileInv, LearnPcs, vars
<1>4. CASE LoadRaises
  <2>1. UNCHANGED <<vars, file, frozenVersion>> /\ pc' = "broken"
    BY <1>4 DEF LoadRaises, fileVars
  <2>. QED  BY <1>0, <2>1 DEF FileInv, LearnPcs, vars
<1>5. CASE LoadKernel
  <2>1. MemoryInv'
    BY <1>5, LoadKernelLoads, MemoryLoaded
  <2>. QED  BY <1>5, <2>1, LoadKernelLoads DEF FileInv, LearnPcs
<1>6. CASE EmptyKernel
  <2>1. pc' = "evaluate" /\ pinned' = {{}} /\ frozenVersion' = {{}}
    BY <1>6 DEF EmptyKernel
  <2>. QED  BY <1>6, <2>1, MemoryEmpty DEF FileInv, LearnPcs
<1>7. CASE Evaluates
  <2>1. [FreshCalls]_vars
    BY <1>7, EvaluatesPins DEF FreshCalls
  <2>. QED  BY <1>7, <2>1, EvaluatesPins, MemoryCalls
<1>8. CASE UNCHANGED evaluateVars
  <2>1. UNCHANGED vars /\ UNCHANGED <<driverVars, file, frozenVersion>>
    BY <1>8 DEF evaluateVars, learnVars, fileVars
  <2>2. PhaseInv' <=> PhaseInv
    BY <2>1 DEF vars, driverVars, PhaseInv, FreshInv
  <2>. QED  BY <1>0, <2>1, <2>2 DEF FileInv, LearnPcs, vars, driverVars, Saved
<1>. QED
  BY <1>1, <1>2, <1>3, <1>4, <1>5, <1>6, <1>7, <1>8 DEF EvaluateNext, Evaluates

LEMMA LearnCaseStarts ==
    ASSUME EvaluateInit
    PROVE  LearnCase
<1>1. /\ Init /\ pc = "next" /\ task = 1 /\ pending = << >> /\ agentClock = Zero
      /\ answered = {} /\ file = {} /\ frozenVersion = {}
  BY DEF EvaluateInit, DriverInit
<1>2. fed = {} /\ tick = 0 /\ objects = {} /\ pinned = {}
  BY <1>1 DEF Init, Store!StoreInit
<1>3. Zero \in Clock
  BY ConstantsAssumption DEF Zero, Clock
<1>4. PhaseInv
  BY <1>1, <1>2, <1>3 DEF PhaseInv, FreshInv, Elements
<1>5. MemoryInv
  BY <1>1, <1>2, KernelStarts, FS_EmptySet DEF MemoryInv, EvidenceSuffices
<1>6. FileInv
  BY <1>1, <1>2 DEF FileInv
<1>. QED  BY <1>4, <1>5, <1>6 DEF LearnCase

\* In both processes, through the save, the kill and the load: what the arms are
\* shown is causally ordered, and every memory rests on as much evidence of its
\* own as the policy asks for (phase3/learn.py, memkernel/persist.py).
THEOREM EvaluatedMemoryIsSound ==
    EvaluateSpec =>
        [](/\ TypeOK /\ CausalOrder /\ SupersessionChains /\ NoUnresolvedContradiction
           /\ EvidenceUsedOnce /\ EvidenceSuffices)
<1>1. EvaluateInit => LearnCase
  BY LearnCaseStarts
<1>2. LearnCase /\ [EvaluateNext \/ Killed]_evaluateVars => LearnCase'
  BY LearnCaseStep
<1>3. LearnCase => /\ TypeOK /\ CausalOrder /\ SupersessionChains /\ NoUnresolvedContradiction
                   /\ EvidenceUsedOnce /\ EvidenceSuffices
  BY DEF LearnCase, MemoryInv, KernelInv
<1>. QED  BY <1>1, <1>2, <1>3, PTL DEF EvaluateSpec
-----------------------------------------------------------------------------
(***************************************************************************)
(* What Phase 3 learns.  A task whose call failed ticks the kernel too,    *)
(* and its result is not looked at: that nothing is promoted then rests on *)
(* the gate having run at every tick before.                               *)
(***************************************************************************)
VisibleInv == pc \in {"next", "ingest", "skip", "end", "done"} => Visible = Live

SettledCase == PatternInv /\ (pc \in LearnPcs => VisibleInv /\ SettledInv)

\* The policies that ship, with the gate run at every tick
Settling == Symmetric /\ NeverMerges /\ AsksEvidence /\ Schedule = 1

\* The tick of a task that is skipped adds no memory.
LEMMA SkipAddsNothing ==
    ASSUME Settling, KernelInv, KernelInv', PatternInv, PatternInv', SettledInv, SkipTask
    PROVE  objects' = objects /\ SettledInv'
<1>1. pc = "skip" /\ AnyTick /\ ~ frozen /\ \A e \in DOMAIN buffer : ~ Promotable(buffer, e)
  BY DEF SkipTask, SettledInv
<1>2. /\ frozen' = frozen
      /\ \A e \in DOMAIN buffer' : ~ Promotable(buffer, e)'
      /\ \A m \in objects' \ objects : \E e \in DOMAIN buffer : Promotable(buffer, e)
  BY <1>1, GateSettles DEF Settling
<1>3. objects \subseteq objects'
  BY <1>1 DEF AnyTick, TickOnly, TickAndPromote, RunPromotion, Store!PutAll
<1>. QED  BY <1>1, <1>2, <1>3 DEF SettledInv

LEMMA PhasePattern ==
    ASSUME Settling, PhaseInv, PatternInv, VisibleInv, LearnNext
    PROVE  PatternInv'
<1>1. CASE UNCHANGED <<buffer, objects, supersededBy>>
  BY <1>1 DEF PatternInv
<1>2. CASE LocalizeAnswers \/ LocalizeFails \/ EndTask \/ Publish \/ Show("end") \/ FreezeAtEnd
  BY <1>1, <1>2 DEF LocalizeAnswers, LocalizeFails, EndTask, Publish, Snapshot, Show, Pin,
                    FreezeAtEnd, Freeze, Store!RecordVersion, vars
<1>3. CASE SkipTask \/ TickTask("end")
  BY <1>3, TickApart DEF SkipTask, TickTask, Settling
<1>4. CASE IngestNext
  <2>1. Visible = Live /\ pending # << >> /\ pending \in Seq({r \in Records : InputOf[r] = task})
    BY <1>4 DEF IngestNext, VisibleInv, PhaseInv, FreshInv
  <2>2. Head(pending) \in Records
    BY <2>1
  <2>. QED  BY <1>4, <2>1, <2>2, IngestApart DEF Settling
<1>. QED  BY <1>2, <1>3, <1>4 DEF LearnNext

LEMMA PhaseSettles ==
    ASSUME Settling, PhaseInv, KernelInv, KernelInv', PatternInv, PatternInv', VisibleInv,
           SettledInv, LearnNext
    PROVE  VisibleInv' /\ SettledInv'
<1>1. CASE LocalizeAnswers \/ LocalizeFails \/ EndTask
  <2>1. UNCHANGED vars /\ pc \in {"next", "end"} /\ pc' \in {"ingest", "skip", "next"}
    BY <1>1 DEF LocalizeAnswers, LocalizeFails, EndTask
  <2>2. UNCHANGED <<Live, Visible, buffer, frozen>>
    BY <2>1 DEF vars, Live, Store!Live, Visible
  <2>. QED  BY <2>1, <2>2, SettledStays DEF VisibleInv, SettledInv
<1>2. CASE SkipTask
  <2>1. objects' = objects /\ SettledInv'
    BY <1>2, SkipAddsNothing
  <2>2. UNCHANGED <<Live, Visible>> /\ pc = "skip"
    BY <1>2, <2>1, TickLive DEF SkipTask
  <2>. QED  BY <2>1, <2>2 DEF VisibleInv
<1>3. CASE IngestNext
  <2>1. SettledInv'
    BY <1>3, SettledIngest DEF Settling, PhaseInv
  <2>2. UNCHANGED <<objects, supersededBy, pinned>> /\ pc = "ingest"
    BY <1>3 DEF IngestNext, IngestAdmit, IngestReinforce, IngestDiscard, Observe
  <2>3. UNCHANGED <<Live, Visible>>
    BY <2>2 DEF Live, Store!Live, Visible
  <2>. QED  BY <2>1, <2>2, <2>3 DEF VisibleInv
<1>4. CASE TickTask("end")
  <2>1. SettledInv'
    BY <1>4, SettledTick DEF Settling
  <2>2. pc = "ingest" /\ pc' = (IF objects' # objects THEN "publish" ELSE "end")
    BY <1>4 DEF TickTask
  <2>. QED  BY <1>4, <2>1, <2>2, TickLive DEF TickTask, VisibleInv
<1>5. CASE Publish
  <2>1. UNCHANGED <<buffer, Live, frozen>> /\ pc = "publish" /\ pc' = "show"
    BY <1>5, OtherLive DEF Publish, Snapshot
  <2>. QED  BY <2>1, SettledStays DEF VisibleInv, SettledInv
<1>6. CASE Show("end")
  <2>1. UNCHANGED <<buffer, Live, frozen>> /\ pc = "show" /\ pc' = "end" /\ pinned' = {Live}
    BY <1>6, OtherLive DEF Show, Pin
  <2>2. Visible' = Live'
    BY <2>1 DEF Visible, Store!At
  <2>. QED  BY <2>1, <2>2, SettledStays DEF VisibleInv, SettledInv
<1>7. CASE FreezeAtEnd
  <2>1. UNCHANGED <<buffer, Live>> /\ Visible' = Live' /\ pc = "next" /\ pc' = "done"
    BY <1>7, FrozenLive DEF FreezeAtEnd, Freeze
  <2>. QED  BY <2>1, SettledStays DEF VisibleInv
<1>. QED  BY <1>1, <1>2, <1>3, <1>4, <1>5, <1>6, <1>7 DEF LearnNext

LEMMA SettledCaseStep ==
    ASSUME Settling, LearnCase, LearnCase', SettledCase, [EvaluateNext \/ Killed]_evaluateVars
    PROVE  SettledCase'
<1>. USE DEF SettledCase
<1>1. CASE LearnPhase
  <2>1. LearnNext /\ pc \in LearnPcs /\ pc' \in LearnPcs /\ PhaseInv
    BY <1>1, LearnPhaseSteps DEF LearnPhase, LearnCase
  <2>. QED  BY <2>1, PhasePattern, PhaseSettles DEF LearnCase, MemoryInv
<1>2. ASSUME pc' \notin LearnPcs, UNCHANGED <<objects, supersededBy>>,
             DOMAIN buffer' \subseteq DOMAIN buffer
      PROVE  SettledCase'
  BY <1>2 DEF PatternInv
<1>3. CASE Save \/ Killed \/ LoadRaises
  BY <1>2, <1>3 DEF Save, Killed, LoadRaises, LearnPcs, vars
<1>4. CASE LoadKernel
  BY <1>2, <1>4, LoadKernelLoads DEF LearnCase, LearnPcs
<1>5. CASE EmptyKernel
  <2>1. DOMAIN buffer' = {} /\ objects' = {} /\ DOMAIN supersededBy' = {} /\ pc' = "evaluate"
    BY <1>5 DEF EmptyKernel, FreshDriver
  <2>. QED  BY <2>1 DEF PatternInv, LearnPcs
<1>6. CASE Evaluates
  BY <1>2, <1>6, EvaluatesPins DEF LearnCase, Pin, vars
<1>7. CASE UNCHANGED evaluateVars
  <2>1. UNCHANGED <<vars, pc, task>>
    BY <1>7 DEF evaluateVars, learnVars, driverVars
  <2>2. UNCHANGED <<Live, Visible>>
    BY <2>1 DEF vars, Live, Store!Live, Visible
  <2>3. \A e \in DOMAIN buffer : Promotable(buffer, e)' <=> Promotable(buffer, e)
    BY <2>1, <2>2 DEF vars, Promotable
  <2>4. SettledInv => SettledInv'
    BY <2>1, <2>3 DEF vars, SettledInv
  <2>. QED  BY <2>1, <2>2, <2>4 DEF vars, PatternInv, VisibleInv
<1>. QED
  BY <1>1, <1>3, <1>4, <1>5, <1>6, <1>7 DEF EvaluateNext, Evaluates

LEMMA SettledCaseStarts ==
    ASSUME EvaluateInit
    PROVE  SettledCase
<1>1. /\ DOMAIN buffer = {} /\ objects = {} /\ DOMAIN supersededBy = {} /\ pinned = {}
      /\ frozen = FALSE /\ pc = "next"
  BY DEF EvaluateInit, DriverInit, Init, Store!StoreInit
<1>. QED
  BY <1>1 DEF SettledCase, PatternInv, VisibleInv, SettledInv, Visible, Store!At, Live, Store!Live

\* DistinctPatterns of the split evaluation, from the first task to the report:
\* a task that is skipped promotes nothing that would not be published, and
\* what is loaded is what was saved (RepoPipeline.learn, load_kernel).
THEOREM FrozenPatternsAreDistinct ==
    ASSUME Settling
    PROVE  EvaluateSpec => []DistinctPatterns
<1>1. EvaluateInit => LearnCase /\ SettledCase
  BY LearnCaseStarts, SettledCaseStarts
<1>2. LearnCase /\ SettledCase /\ [EvaluateNext \/ Killed]_evaluateVars
          => (LearnCase /\ SettledCase)'
  BY LearnCaseStep, SettledCaseStep
<1>3. SettledCase => DistinctPatterns
  BY AllLive DEF SettledCase, PatternInv, Apart, DistinctPatterns
<1>. QED  BY <1>1, <1>2, <1>3, PTL DEF EvaluateSpec

LEMMA PhasePlaces ==
    ASSUME Settling, Keyed, Theta < Scale, LearnCase, LearnCase', SettledCase, PlaceInv,
           LearnPhase
    PROVE  PlaceInv'
<1>1. LearnNext /\ pc \in LearnPcs /\ PhaseInv /\ KernelInv /\ PatternInv /\ VisibleInv
      /\ EvidenceFed /\ EvidenceUsedOnce /\ IsFiniteSet(fed) /\ IsFiniteSet(fed')
  BY LearnPhaseSteps DEF LearnPhase, LearnCase, MemoryInv, SettledCase
<1>2. ASSUME UNCHANGED <<buffer, objects, fed>>
      PROVE  PlaceInv'
  BY <1>2 DEF PlaceInv, Taught, EvidenceAt
<1>3. CASE LocalizeAnswers \/ LocalizeFails \/ EndTask \/ Publish \/ Show("end") \/ FreezeAtEnd
  BY <1>2, <1>3 DEF LocalizeAnswers, LocalizeFails, EndTask, Publish, Snapshot, Show, Pin,
                    FreezeAtEnd, Freeze, Store!RecordVersion, vars
<1>4. CASE SkipTask \/ TickTask("end")
  <2>1. AnyTick /\ pc \in {"skip", "ingest"}
    BY <1>4 DEF SkipTask, TickTask
  <2>2. tick < NTasks
    <3>1. tick < task /\ task <= NTasks /\ task \in Nat /\ tick \in Nat
      BY <1>1, <2>1 DEF PhaseInv, KernelInv, TypeOK
    <3>. QED  BY <3>1, PipelineAssumption
  <2>. QED  BY <1>1, <2>1, <2>2, PlaceTick DEF Settling
<1>5. CASE IngestNext
  <2>1. Visible = Live /\ FreshInv
    BY <1>1, <1>5 DEF IngestNext, VisibleInv, PhaseInv
  <2>. QED  BY <1>1, <1>5, <2>1, PlaceIngest
<1>. QED  BY <1>1, <1>3, <1>4, <1>5 DEF LearnNext

\* LearnsExactly of Phase 3: whatever calls failed, what is in memory between
\* tasks is what the answers suffice for, place by place; a process that is
\* killed or that loads is not between two tasks (RepoPipeline.learn).
THEOREM PhaseThreeIsExact ==
    ASSUME NeverMerges, Theta < Scale, AsksEvidence
    PROVE  EvaluateSpec => []LearnsExactly
<1>. DEFINE When == Keyed => SettledCase /\ (pc \in LearnPcs => PlaceInv)
<1>0. Keyed => Settling
  BY KeyedPlaces DEF Keyed, Settling
<1>1. EvaluateInit => LearnCase /\ When
  <2>. SUFFICES ASSUME EvaluateInit PROVE LearnCase /\ When
    OBVIOUS
  <2>1. PlaceInv
    BY DEF EvaluateInit, DriverInit, Init, Store!StoreInit, PlaceInv
  <2>. QED  BY <2>1, LearnCaseStarts, SettledCaseStarts
<1>2. LearnCase /\ When /\ [EvaluateNext \/ Killed]_evaluateVars => (LearnCase /\ When)'
  <2>. SUFFICES ASSUME LearnCase, When, [EvaluateNext \/ Killed]_evaluateVars
                PROVE  (LearnCase /\ When)'
    OBVIOUS
  <2>1. LearnCase'
    BY LearnCaseStep
  <2>2. ASSUME Keyed
        PROVE  SettledCase'
    BY <1>0, <2>1, <2>2, SettledCaseStep
  <2>3. ASSUME Keyed, pc' \in LearnPcs
        PROVE  PlaceInv'
    <3>1. LearnPhase \/ UNCHANGED evaluateVars
      <4>1. Evaluates => pc' \notin LearnPcs
        BY EvaluatesPins DEF LearnCase
      <4>. QED
        BY <2>3, <4>1 DEF EvaluateNext, Evaluates, Save, Killed, LoadKernel, LoadRaises,
                          EmptyKernel, LearnPcs
    <3>2. CASE LearnPhase
      <4>1. pc \in LearnPcs
        BY <3>2, LearnPhaseSteps
      <4>. QED  BY <1>0, <2>1, <2>3, <3>2, <4>1, PhasePlaces
    <3>3. CASE UNCHANGED evaluateVars
      <4>1. UNCHANGED <<buffer, objects, fed, pc>>
        BY <3>3 DEF evaluateVars, learnVars, vars, driverVars
      <4>. QED  BY <2>3, <4>1 DEF PlaceInv, Taught, EvidenceAt
    <3>. QED  BY <3>1, <3>2, <3>3
  <2>. QED  BY <2>1, <2>2, <2>3
<1>3. LearnCase /\ When => LearnsExactly
  <2>. SUFFICES ASSUME LearnCase, When, Keyed, pc = "next"
                PROVE  /\ {LocationOf(m.content) : m \in Live} =
                              {place \in {LocationOf(c) : c \in Content} : Suffices(place)}
                       /\ \A m, n \in Live :
                             LocationOf(m.content) = LocationOf(n.content) => m = n
    BY DEF LearnsExactly
  <2>1. /\ PhaseInv /\ MemoryInv /\ PatternInv /\ SettledInv /\ PlaceInv
    BY DEF LearnCase, SettledCase, LearnPcs
  <2>2. fed = answered
    BY <2>1 DEF PhaseInv, Elements
  <2>3. ASSUME NEW place
        PROVE  Suffices(place) <=> Taught(place)
    <3>1. EvidenceAt(place) = {r \in answered \intersect Eligible : LocationOf(ContentOf[r]) = place}
      BY <2>2 DEF EvidenceAt, Place
    <3>. QED  BY <3>1 DEF Suffices, Taught
  <2>4. Live = objects /\ \A m \in objects : m.content \in Content
    BY <2>1, AllLive DEF PatternInv
  <2>5. \A m \in objects : Taught(LocationOf(m.content))
    BY <2>1 DEF PlaceInv
  <2>6. \A place : Taught(place) => \E m \in objects : LocationOf(m.content) = place
    BY <2>1, TaughtIsLive DEF MemoryInv
  <2>7. ASSUME NEW m \in objects, NEW n \in objects, m # n
        PROVE  LocationOf(m.content) # LocationOf(n.content)
    BY <2>1, <2>4, <2>7, KeyedPlaces DEF PatternInv
  <2>. QED  BY <2>3, <2>4, <2>5, <2>6, <2>7
<1>. HIDE DEF When
<1>. QED  BY <1>1, <1>2, <1>3, PTL DEF EvaluateSpec
=============================================================================
