------------------------------- MODULE Rolling -------------------------------
(***************************************************************************)
(* Design A, RepoPipeline.rolling: every task after the warm-up is first   *)
(* localized by every arm, each with the memory it is to see, and then     *)
(* learned from through the control arm's flags only.                      *)
(*                                                                         *)
(* The shuffled order of the arms is the order in which LocalizeArm takes  *)
(* them out of the set of arms to come.                                    *)
(***************************************************************************)
EXTENDS Pipeline

CONSTANTS
    Warmup,            \* tasks learned from and not scored
    Learning,          \* learn: FALSE is the negative control
    MaxFailures        \* max_consecutive_failures

ASSUME RollingAssumption ==
    /\ Warmup \in Nat
    /\ Learning \in BOOLEAN
    /\ MaxFailures \in Nat \ {0}

VARIABLES
    version,           \* pinned_version as of the task's start
    toCome,            \* the arms of this task that have not been called
    nPrimary,          \* n_primary: {} or the set of one
    got,               \* arm that answered |-> the version and the lines it was shown
    controlFlags,      \* the control arm's answer: {} or the set of one
    failed,            \* failure is not None
    consecutive,       \* consecutive
    scored,            \* arm |-> tasks in flags_by_task
    errors,            \* arm |-> tasks in errors
    seen               \* arm |-> [task, lines, recorded, shown]: retrieved_by_task,
                       \* version_by_task, and (history) the version that was
                       \* pinned at the call

armVars == <<version, toCome, nPrimary, got, controlFlags, failed>>
resultVars == <<scored, errors, seen>>
rollingVars == <<vars, driverVars, armVars, resultVars, consecutive>>

NoAnswer == [a \in {} |-> {}]

RollingInit ==
    /\ DriverInit
    /\ version = {} /\ toCome = {} /\ nPrimary = {} /\ got = NoAnswer /\ controlFlags = {}
    /\ failed = FALSE
    /\ consecutive = 0
    /\ scored = [a \in Arms |-> {}]
    /\ errors = [a \in Arms |-> {}]
    /\ seen = [a \in Arms |-> {}]
-----------------------------------------------------------------------------
IsEval == task > Warmup

\* Variant: the circuit breaker trips one failure late.
BeginTaskOnceMore ==
    /\ pc = "next" /\ task <= NTasks
    /\ consecutive <= MaxFailures
    /\ pc' = "arms"
    /\ version' = pinned
    /\ toCome' = IF IsEval THEN Arms ELSE {Control}
    /\ nPrimary' = {} /\ got' = NoAnswer /\ controlFlags' = {} /\ failed' = FALSE
    /\ UNCHANGED <<vars, task, pending, agentClock, learnErrors, answered,
                   resultVars, consecutive>>

BeginTask ==
    /\ pc = "next" /\ task <= NTasks
    /\ consecutive < MaxFailures
    /\ pc' = "arms"
    /\ version' = pinned
    /\ toCome' = IF IsEval THEN Arms ELSE {Control}
    /\ nPrimary' = {} /\ got' = NoAnswer /\ controlFlags' = {} /\ failed' = FALSE
    /\ UNCHANGED <<vars, task, pending, agentClock, learnErrors, answered,
                   resultVars, consecutive>>

\* The circuit breaker raises.
Stop ==
    /\ pc = "next" /\ task <= NTasks
    /\ consecutive >= MaxFailures
    /\ pc' = "stopped"
    /\ UNCHANGED <<vars, task, pending, agentClock, learnErrors, answered,
                   armVars, resultVars, consecutive>>

\* Variant: a memory arm is shown whatever is pinned.
PinForControl(a) ==
    IF a = Control THEN Pin({}) ELSE UNCHANGED vars

\* The control arm pins no memory, a memory arm the version of the task's
\* start.  The first placebo pins that too, to count the lines the treatment
\* would inject; a later one reuses the count.
PinFor(a) ==
    IF a \in Placebos /\ nPrimary # {}
    THEN UNCHANGED vars
    ELSE Pin(IF a = Control THEN {} ELSE version)

CountPrimary(a) ==
    nPrimary' = IF a \in Placebos /\ nPrimary = {}
                THEN {Retrieved(pinned', task, Tau[Primary])} ELSE nPrimary

Lines(a) ==
    IF a = Control THEN 0
    ELSE IF a \in MemoryArms THEN Retrieved(pinned', task, Tau[a])
    ELSE Placebo(CHOOSE n \in nPrimary' : TRUE)

Answer(a) ==
    /\ got' = [b \in DOMAIN got \union {a} |->
                   IF b = a THEN [version |-> pinned', lines |-> Lines(a)] ELSE got[b]]
    /\ IF a = Control
       THEN \E flags \in Answers[task] :
               /\ controlFlags' = {flags}
               /\ answered' = IF Learning THEN answered \union Elements(flags)
                                          ELSE answered
       ELSE UNCHANGED <<controlFlags, answered>>

NoAnswerNow == UNCHANGED <<got, controlFlags, answered>>

LocalizeArm(a) ==
    /\ pc = "arms" /\ a \in toCome
    /\ PinFor(a) /\ CountPrimary(a)
    /\ \/ Answer(a) /\ toCome' = toCome \ {a} /\ UNCHANGED failed
       \/ NoAnswerNow /\ toCome' = {} /\ failed' = TRUE
    /\ UNCHANGED <<pc, task, pending, agentClock, learnErrors, version,
                   resultVars, consecutive>>

\* The control arm is called once more if a failure left it without an answer.
RetryControl ==
    /\ pc = "arms" /\ toCome = {} /\ Control \notin DOMAIN got
    /\ Pin({})
    /\ Answer(Control) \/ NoAnswerNow
    /\ pc' = "restore"
    /\ UNCHANGED <<task, pending, agentClock, learnErrors, version, toCome,
                   nPrimary, failed, resultVars, consecutive>>

ArmsDone ==
    /\ pc = "arms" /\ toCome = {} /\ Control \in DOMAIN got
    /\ pc' = "restore"
    /\ UNCHANGED <<vars, task, pending, agentClock, learnErrors, answered,
                   armVars, resultVars, consecutive>>

\* Variant: learning starts with whatever the arms left pinned.
RestoreUnpinned ==
    /\ pc = "restore"
    /\ UNCHANGED vars
    /\ consecutive' = IF failed THEN consecutive + 1 ELSE 0
    /\ pc' = IF Learning THEN "ingest" ELSE "score"
    /\ IF Learning /\ controlFlags # {}
       THEN /\ \E flags \in controlFlags : Propose(flags, vclock)
            /\ UNCHANGED learnErrors
       ELSE /\ learnErrors' = learnErrors \union (IF Learning THEN {task} ELSE {})
            /\ UNCHANGED <<pending, agentClock>>
    /\ UNCHANGED <<task, answered, armVars, resultVars>>

\* Variant: a task that failed in any arm is not learned from.
RestorePaired ==
    /\ pc = "restore"
    /\ Pin(version)
    /\ consecutive' = IF failed THEN consecutive + 1 ELSE 0
    /\ pc' = IF Learning THEN "ingest" ELSE "score"
    /\ IF Learning /\ ~ failed
       THEN /\ \E flags \in controlFlags : Propose(flags, vclock')
            /\ UNCHANGED learnErrors
       ELSE /\ learnErrors' = learnErrors \union (IF Learning THEN {task} ELSE {})
            /\ UNCHANGED <<pending, agentClock>>
    /\ UNCHANGED <<task, answered, armVars, resultVars>>

\* The memory of the task's start is pinned again before anything is learned.
Restore ==
    /\ pc = "restore"
    /\ Pin(version)
    /\ consecutive' = IF failed THEN consecutive + 1 ELSE 0
    /\ pc' = IF Learning THEN "ingest" ELSE "score"
    /\ IF Learning /\ controlFlags # {}
       THEN /\ \E flags \in controlFlags : Propose(flags, vclock')
            /\ UNCHANGED learnErrors
       ELSE /\ learnErrors' = learnErrors \union (IF Learning THEN {task} ELSE {})
            /\ UNCHANGED <<pending, agentClock>>
    /\ UNCHANGED <<task, answered, armVars, resultVars>>

\* Variant: the arms that answered before the failure keep their score.
ScoreTaskUnpaired ==
    /\ pc = "score"
    /\ pc' = "next"
    /\ task' = task + 1
    /\ scored' = [a \in Arms |-> scored[a] \union
                     (IF IsEval /\ a \in DOMAIN got THEN {task} ELSE {})]
    /\ errors' = [a \in Arms |-> errors[a] \union
                     (IF IsEval /\ a \notin DOMAIN got THEN {task} ELSE {})]
    /\ UNCHANGED <<vars, pending, agentClock, learnErrors, answered, armVars,
                   consecutive, seen>>

\* A task that failed in any arm is an error of every arm.
ScoreTask ==
    /\ pc = "score"
    /\ pc' = "next"
    /\ task' = task + 1
    /\ IF IsEval /\ failed
       THEN /\ errors' = [a \in Arms |-> errors[a] \union {task}]
            /\ UNCHANGED <<scored, seen>>
       ELSE LET scoredNow == IF IsEval THEN DOMAIN got ELSE {}
                result(a) == [task |-> task, shown |-> got[a].version, lines |-> got[a].lines,
                              recorded |-> IF a \in MemoryArms THEN version ELSE {}]
            IN  /\ scored' = [a \in Arms |-> scored[a] \union
                                 (IF a \in scoredNow THEN {task} ELSE {})]
                /\ seen' = [a \in Arms |-> seen[a] \union
                               (IF a \in scoredNow THEN {result(a)} ELSE {})]
                /\ UNCHANGED errors
    /\ UNCHANGED <<vars, pending, agentClock, learnErrors, answered, armVars,
                   consecutive>>

FreezeAtEnd ==
    /\ pc = "next" /\ task > NTasks
    /\ Freeze
    /\ pc' = "done"
    /\ UNCHANGED <<task, pending, agentClock, learnErrors, answered, armVars,
                   resultVars, consecutive>>

LearnStep ==
    /\ IngestNext \/ TickTask("score") \/ Publish \/ Show("score")
    /\ UNCHANGED <<armVars, resultVars, consecutive>>

RollingNext ==
    \/ BeginTask \/ Stop
    \/ \E a \in Arms : LocalizeArm(a)
    \/ RetryControl \/ ArmsDone \/ Restore
    \/ LearnStep
    \/ ScoreTask \/ FreezeAtEnd

\* The driver is a sequential program whose calls return.
RollingSpec ==
    RollingInit /\ [][RollingNext]_rollingVars /\ WF_rollingVars(RollingNext)
-----------------------------------------------------------------------------
\* Pairing: between tasks every arm has scored the same tasks, and each task
\* after the warm-up is either scored by every arm or an error of every arm.
Pairing ==
    pc = "next" =>
        \A a \in Arms :
            /\ scored[a] = scored[Control] /\ errors[a] = errors[Control]
            /\ scored[a] \intersect errors[a] = {}
            /\ scored[a] \union errors[a] = Warmup + 1 .. task - 1

\* What a result says of the memory that its arm was shown
ShownAsRecorded ==
    \A a \in Arms \ Placebos : \A s \in seen[a] : s.shown = s.recorded

\* The version that a memory arm was shown: what was promoted before its task
PromotedEarlier ==
    \A a \in MemoryArms : \A s \in seen[a] :
        Schedule = 1 =>
            Store!At(s.shown) = {m \in objects : \A t \in m.input_hashes : t < s.task}

PlacebosMatch ==
    \A a \in Placebos : \A s \in seen[a], x \in seen[Primary] :
        x.task = s.task => s.lines = AtMost(PoolSize, x.lines)

\* No lookahead, no lag and no leak between arms: whatever was pinned for the
\* arms called before, the memory an arm was shown at a task is the one that
\* its result names, for the control none, and for a memory arm exactly what
\* was promoted from earlier tasks; and (pipeline.py: "as many lines as the
\* primary treatment arm would at this task") a placebo was shown as many lines
\* as the treatment, or the whole pool.
AsOfPreviousTask == ShownAsRecorded /\ PromotedEarlier /\ PlacebosMatch

\* (pipeline.py: "if its control call succeeded, still feeds learning") A task
\* is left out of learning only if no control call for it succeeded, whatever
\* the other arms did.
ControlFeedsLearning ==
    Learning /\ pc = "next" =>
        /\ fed = answered
        /\ \A t \in learnErrors : \A r \in answered : InputOf[r] # t
        /\ learnErrors \subseteq errors[Control] \union 1 .. Warmup

\* The run ends, frozen with its live memory pinned or stopped by the breaker
\* after as many failures in a row as it allows.
RollingEnds ==
    <> \/ pc = "done" /\ frozen /\ Visible = Live
       \/ pc = "stopped" /\ consecutive = MaxFailures
=============================================================================
