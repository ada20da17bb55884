------------------------------ MODULE Evaluate ------------------------------
(***************************************************************************)
(* From Phase 3 to Phase 4: a process learns (module Learn) and saves the  *)
(* kernel, a later one loads it and evaluates every arm on every task      *)
(* (memkernel/persist.py, phase3/learn.py, phase4/evaluate.py and          *)
(* RepoPipeline.evaluate_arms).  The learning process may be killed at any *)
(* moment, in the middle of the save too, and is not run again.            *)
(*                                                                         *)
(* The kernel's variables are those of the process that runs.              *)
(***************************************************************************)
EXTENDS Learn

CONSTANT
    EvalTasks          \* the evaluation split of the chain

VARIABLES
    negative,          \* the repository is the one evaluated without memory
    file,              \* kernel.json: {} or the set of what it holds
    torn,              \* kernel.json is there, in part
    frozenVersion,     \* frozen_version of the evaluating pipeline
    left,              \* tasks to come, in any order
    current,           \* the task being evaluated: {} or the set of one
    toCome,            \* its arms that have not been called
    nPrimary,          \* n_primary: {} or the set of one
    got,               \* its arms that answered |-> the version and lines they were shown
    scored,            \* arm |-> tasks in flags_by_task
    errors,            \* arm |-> tasks in errors
    seen,              \* arm |-> [task, lines, shown]: retrieved_by_task, and (history)
                       \* the version that was pinned at the call
    learned            \* history: {} or the set of what learning froze

fileVars == <<negative, file, torn>>
taskVars == <<left, current, toCome, nPrimary, got>>
resultVars == <<scored, errors, seen>>
evaluateVars ==
    <<learnVars, fileVars, frozenVersion, taskVars, resultVars, learned>>

NoAnswer == [a \in {} |-> {}]

EvaluateInit ==
    /\ DriverInit
    /\ negative \in BOOLEAN
    /\ file = {} /\ torn = FALSE
    /\ frozenVersion = {}
    /\ left = EvalTasks /\ current = {} /\ toCome = {} /\ nPrimary = {} /\ got = NoAnswer
    /\ scored = [a \in Arms |-> {}]
    /\ errors = [a \in Arms |-> {}]
    /\ seen = [a \in Arms |-> {}]
    /\ learned = {}
-----------------------------------------------------------------------------
\* Phase 3.  The negative control's repository is skipped.
LearnPhase ==
    /\ ~ negative
    /\ LearnNext
    /\ learned' = IF pc' = "done" THEN {Live} ELSE learned
    /\ UNCHANGED <<fileVars, frozenVersion, taskVars, resultVars>>

\* Variant: what is pinned is not saved.
SavedUnpinned == [tick |-> tick, vclock |-> vclock, objects |-> objects,
                  supersededBy |-> supersededBy, versions |-> versions,
                  pinned |-> {}, frozen |-> frozen]

\* dump_kernel: everything but the buffer and the trace
Saved == [tick |-> tick, vclock |-> vclock, objects |-> objects,
          supersededBy |-> supersededBy, versions |-> versions,
          pinned |-> pinned, frozen |-> frozen]

Save ==
    /\ pc = "done"
    /\ pc' = "saved"
    /\ file' = {Saved}
    /\ UNCHANGED <<vars, task, pending, agentClock, learnErrors, answered, negative,
                   torn, frozenVersion, taskVars, resultVars, learned>>

\* The learning process ends before its file is complete.
Killed ==
    /\ ~ negative
    /\ pc \in {"next", "ingest", "publish", "show", "end", "skip", "done"}
    /\ pc' = "killed"
    /\ torn' \in IF pc = "done" THEN BOOLEAN ELSE {FALSE}
    /\ UNCHANGED <<vars, task, pending, agentClock, learnErrors, answered, negative,
                   file, frozenVersion, taskVars, resultVars, learned>>
-----------------------------------------------------------------------------
\* The evaluating process starts, with a kernel of its own.
Phase3Over == pc \in (IF negative THEN {"next"} ELSE {"saved", "killed"})

FreshDriver ==
    /\ buffer' = [e \in {} |-> [pos |-> 0, at |-> 0, support |-> {}]]
    /\ agentClock' = Zero
    /\ pending' = << >>
    /\ UNCHANGED <<task, learnErrors, answered, fed, fileVars, taskVars,
                   resultVars, learned>>

\* load_kernel into a fresh kernel
LoadKernel ==
    /\ Phase3Over
    /\ FreshDriver
    /\ \E k \in file :
          /\ tick' = k.tick /\ vclock' = k.vclock
          /\ objects' = k.objects /\ supersededBy' = k.supersededBy
          /\ versions' = k.versions /\ pinned' = k.pinned /\ frozen' = k.frozen
          /\ frozenVersion' = k.pinned
    /\ pc' = "evaluate"

\* A file that is not JSON raises.
LoadRaises ==
    /\ Phase3Over
    /\ torn
    /\ pc' = "broken"
    /\ UNCHANGED <<vars, task, pending, agentClock, learnErrors, answered,
                   fileVars, frozenVersion, taskVars, resultVars, learned>>

\* Variant: the file of any other repository is taken to be there.
EmptyKernelNegative ==
    /\ Phase3Over
    /\ negative
    /\ FreshDriver
    /\ tick' = 0 /\ vclock' = Tick(Zero, KernelAgent)
    /\ objects' = {} /\ supersededBy' = [o \in {} |-> o]
    /\ versions' = {{}} /\ pinned' = {{}} /\ frozen' = TRUE
    /\ frozenVersion' = {{}}
    /\ pc' = "evaluate"

\* No file: a fresh kernel is frozen as it is, "empty memory, still two arms".
EmptyKernel ==
    /\ Phase3Over
    /\ file = {} /\ ~ torn
    /\ FreshDriver
    /\ tick' = 0 /\ vclock' = Tick(Zero, KernelAgent)
    /\ objects' = {} /\ supersededBy' = [o \in {} |-> o]
    /\ versions' = {{}} /\ pinned' = {{}} /\ frozen' = TRUE
    /\ frozenVersion' = {{}}
    /\ pc' = "evaluate"
-----------------------------------------------------------------------------
(***************************************************************************)
(* evaluate_arms                                                           *)
(***************************************************************************)
UnchangedEvaluating ==
    UNCHANGED <<task, pending, agentClock, learnErrors, answered, fileVars,
                frozenVersion, learned>>

BeginTask(t) ==
    /\ pc = "evaluate" /\ t \in left
    /\ pc' = "arms"
    /\ left' = left \ {t}
    /\ current' = {t}
    /\ toCome' = Arms /\ nPrimary' = {} /\ got' = NoAnswer
    /\ UnchangedEvaluating
    /\ UNCHANGED <<vars, resultVars>>

\* The first placebo pins the version, to count what the treatment injects.
PinFor(a) ==
    IF a \in Placebos /\ nPrimary # {}
    THEN UNCHANGED vars
    ELSE Pin(IF a = Control THEN {} ELSE frozenVersion)

CountPrimary(a, t) ==
    nPrimary' = IF a \in Placebos /\ nPrimary = {}
                THEN {Retrieved(pinned', t, Tau[Primary])} ELSE nPrimary

Lines(a, t) ==
    IF a = Control THEN 0
    ELSE IF a \in MemoryArms THEN Retrieved(pinned', t, Tau[a])
    ELSE Placebo(CHOOSE n \in nPrimary' : TRUE)

ArmAnswers(a) ==
    /\ pc = "arms" /\ a \in toCome
    /\ PinFor(a)
    /\ \E t \in current :
          /\ CountPrimary(a, t)
          /\ got' = [b \in DOMAIN got \union {a} |->
                         IF b = a THEN [task |-> t, shown |-> pinned', lines |-> Lines(a, t)]
                         ELSE got[b]]
    /\ toCome' = toCome \ {a}
    /\ UnchangedEvaluating
    /\ UNCHANGED <<pc, left, current, resultVars>>

\* Variant: excluded from the arm that failed alone.
ArmFailsAlone(a) ==
    /\ pc = "arms" /\ a \in toCome
    /\ PinFor(a)
    /\ errors' = [errors EXCEPT ![a] = @ \union current]
    /\ pc' = "evaluate"
    /\ UnchangedEvaluating
    /\ UNCHANGED <<taskVars, scored, seen>>

\* Excluded from every arm: what the arms before it answered is dropped.
ArmFails(a) ==
    /\ pc = "arms" /\ a \in toCome
    /\ PinFor(a)
    /\ errors' = [b \in Arms |-> errors[b] \union current]
    /\ pc' = "evaluate"
    /\ UnchangedEvaluating
    /\ UNCHANGED <<taskVars, scored, seen>>

ScoreTask ==
    /\ pc = "arms" /\ toCome = {}
    /\ scored' = [a \in Arms |-> IF a \in DOMAIN got THEN scored[a] \union current
                                                     ELSE scored[a]]
    /\ seen' = [a \in Arms |-> IF a \in DOMAIN got THEN seen[a] \union {got[a]}
                                                   ELSE seen[a]]
    /\ pc' = "evaluate"
    /\ UnchangedEvaluating
    /\ UNCHANGED <<vars, taskVars, errors>>

Report ==
    /\ pc = "evaluate" /\ left = {}
    /\ pc' = "reported"
    /\ UnchangedEvaluating
    /\ UNCHANGED <<vars, taskVars, resultVars>>

EvaluateNext ==
    \/ LearnPhase \/ Save
    \/ LoadKernel \/ LoadRaises \/ EmptyKernel
    \/ \E t \in EvalTasks : BeginTask(t)
    \/ \E a \in Arms : ArmAnswers(a) \/ ArmFails(a)
    \/ ScoreTask \/ Report

\* Sequential programs whose calls return, unless the learning one is killed.
EvaluateSpec ==
    /\ EvaluateInit
    /\ [][EvaluateNext \/ Killed]_evaluateVars
    /\ WF_evaluateVars(EvaluateNext)
-----------------------------------------------------------------------------
\* The memory arms are evaluated with exactly the memory that learning froze,
\* through a save, a load and whatever the arms before them pinned, and the
\* control with none; without a complete file every arm is.  A placebo is shown
\* as many lines as the treatment, or the whole pool.
EvaluatesFrozen ==
    /\ \A a \in Arms \ Placebos : \A s \in seen[a] :
          Store!At(s.shown) = IF a = Control \/ file = {} THEN {} ELSE UNION learned
    /\ \A a \in Placebos : \A s \in seen[a], x \in seen[Primary] :
          x.task = s.task => s.lines = AtMost(PoolSize, x.lines)

\* Every task is scored by every arm or by none.
EvaluationPairs ==
    pc \in {"evaluate", "reported"} =>
        \A a \in Arms :
            /\ scored[a] = scored[Control] /\ errors[a] = errors[Control]
            /\ scored[a] \intersect errors[a] = {}
            /\ scored[a] \union errors[a] = EvalTasks \ left

\* The two phases end in a report, unless the file was torn.
EvaluationEnds == <>(pc = (IF torn THEN "broken" ELSE "reported"))
=============================================================================
