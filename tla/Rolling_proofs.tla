---------------------------- MODULE Rolling_proofs ----------------------------
(***************************************************************************)
(* Theorems about module Rolling: the arms are paired, the memory they are *)
(* shown is the one recorded, and learning depends on the control alone.   *)
(***************************************************************************)
EXTENDS Rolling, Pipeline_proofs

\* The arms that are called at the present task
Called == IF IsEval THEN Arms ELSE {Control}

\* After the arms, until the task is scored
AfterArms == {"restore", "ingest", "publish", "show", "score"}

\* Before the first failure at a task every arm called so far has answered.
ArmsInv ==
    /\ DOMAIN got \subseteq Arms
    /\ pc = "arms" /\ ~ failed => DOMAIN got \union toCome = Called
    /\ pc \in AfterArms /\ ~ failed => DOMAIN got = Called

\* The tasks up to the present one that are to be scored
Due == Warmup + 1 .. task - 1

PairedInv ==
    /\ task \in Nat \ {0}
    /\ \A a \in Arms :
          /\ scored[a] = scored[Control] /\ errors[a] = errors[Control]
          /\ scored[a] \intersect errors[a] = {}
          /\ scored[a] \union errors[a] = Due

\* Steps that neither call an arm nor score a task
LEMMA OtherSteps ==
    ASSUME BeginTask \/ Stop \/ ArmsDone \/ Restore \/ LearnStep \/ FreezeAtEnd
           \/ UNCHANGED rollingVars
    PROVE  UNCHANGED <<task, scored, errors, seen>>
  BY DEF BeginTask, Stop, ArmsDone, Restore, LearnStep, IngestNext, TickTask, Publish,
         Show, FreezeAtEnd, resultVars, rollingVars, driverVars

\* Where the driver may go, and what it leaves alone on the way
LEMMA LearnControl ==
    ASSUME LearnStep
    PROVE  /\ UNCHANGED <<task, armVars, resultVars, consecutive>>
           /\ pc \in {"ingest", "publish", "show"}
           /\ pc' \in {"ingest", "publish", "show", "score"}
  BY DEF LearnStep, IngestNext, TickTask, Publish, Show

LEMMA ArmsStep ==
    ASSUME ArmsInv, [RollingNext]_rollingVars
    PROVE  ArmsInv'
<1>. USE RollingAssumption, PipelineAssumption DEF ArmsInv, AfterArms, Called, IsEval
<1>1. CASE BeginTask
  BY <1>1 DEF BeginTask, NoAnswer
<1>2. CASE Stop
  BY <1>2 DEF Stop, armVars
<1>3. ASSUME NEW a \in Arms, LocalizeArm(a)
      PROVE  ArmsInv'
  <2>1. CASE Answer(a) /\ toCome' = toCome \ {a} /\ UNCHANGED failed
    <3>1. DOMAIN got' = DOMAIN got \union {a}
      BY <2>1 DEF Answer
    <3>. QED  BY <1>3, <2>1, <3>1 DEF LocalizeArm
  <2>2. CASE NoAnswerNow /\ toCome' = {} /\ failed' = TRUE
    BY <1>3, <2>2 DEF LocalizeArm, NoAnswerNow
  <2>. QED  BY <1>3, <2>1, <2>2 DEF LocalizeArm
<1>4. CASE RetryControl
  <2>1. failed /\ failed' = failed /\ pc' = "restore" /\ task' = task
    BY <1>4 DEF RetryControl
  <2>2. DOMAIN got' \subseteq Arms
    BY <1>4 DEF RetryControl, Answer, NoAnswerNow
  <2>. QED  BY <2>1, <2>2
<1>5. CASE ArmsDone
  BY <1>5 DEF ArmsDone, armVars
<1>6. CASE Restore
  BY <1>6 DEF Restore, armVars
<1>7. CASE LearnStep
  BY <1>7, LearnControl DEF armVars
<1>8. CASE ScoreTask
  BY <1>8 DEF ScoreTask, armVars
<1>9. CASE FreezeAtEnd
  BY <1>9 DEF FreezeAtEnd, armVars
<1>10. CASE UNCHANGED rollingVars
  BY <1>10 DEF rollingVars, driverVars, armVars
<1>. QED  BY <1>1, <1>2, <1>3, <1>4, <1>5, <1>6, <1>7, <1>8, <1>9, <1>10 DEF RollingNext

LEMMA PairedStep ==
    ASSUME ArmsInv, PairedInv, [RollingNext]_rollingVars
    PROVE  PairedInv'
<1>. USE RollingAssumption, PipelineAssumption DEF PairedInv
<1>1. CASE UNCHANGED <<task, scored, errors>>
  BY <1>1 DEF Due
<1>2. CASE ScoreTask
  <2>. DEFINE new == IF IsEval THEN {task} ELSE {}
  <2>1. task' = task + 1 /\ task' \in Nat \ {0}
    BY <1>2 DEF ScoreTask
  <2>2. Due' = Due \union new /\ Due \intersect new = {}
    BY <2>1 DEF Due, IsEval
  <2>3. CASE IsEval /\ failed
    <3>1. scored' = scored /\ errors' = [a \in Arms |-> errors[a] \union new]
      BY <1>2, <2>3 DEF ScoreTask
    <3>. QED  BY <2>1, <2>2, <3>1
  <2>4. CASE ~ (IsEval /\ failed)
    <3>1. /\ errors' = errors
          /\ scored' = [a \in Arms |-> scored[a] \union
                           (IF a \in (IF IsEval THEN DOMAIN got ELSE {}) THEN {task} ELSE {})]
      BY <1>2, <2>4 DEF ScoreTask
    <3>2. IsEval => DOMAIN got = Arms
      BY <1>2, <2>4 DEF ScoreTask, ArmsInv, AfterArms, Called
    <3>3. scored' = [a \in Arms |-> scored[a] \union new]
      BY <3>1, <3>2
    <3>. QED  BY <2>1, <2>2, <3>1, <3>3
  <2>. QED  BY <2>3, <2>4
<1>3. ASSUME NEW a \in Arms, LocalizeArm(a)
      PROVE  UNCHANGED <<task, scored, errors>>
  BY <1>3 DEF LocalizeArm, resultVars
<1>4. CASE RetryControl
  BY <1>1, <1>4 DEF RetryControl, resultVars
<1>. QED  BY <1>1, <1>2, <1>3, <1>4, OtherSteps DEF RollingNext

LEMMA StartsPaired ==
    ASSUME RollingInit
    PROVE  ArmsInv /\ PairedInv
  BY PipelineAssumption, RollingAssumption
     DEF RollingInit, DriverInit, ArmsInv, PairedInv, AfterArms, NoAnswer, Due

\* Pairing, whatever fails, in whichever order the arms are called
\* (RepoPipeline.rolling).
THEOREM ArmsArePaired == RollingSpec => []Pairing
<1>1. ArmsInv /\ PairedInv /\ [RollingNext]_rollingVars => (ArmsInv /\ PairedInv)'
  BY ArmsStep, PairedStep
<1>2. PairedInv => Pairing
  BY DEF PairedInv, Pairing, Due
<1>. QED  BY <1>1, <1>2, StartsPaired, PTL DEF RollingSpec
-----------------------------------------------------------------------------
\* The version of the task's start is the live memory, and so is what is pinned
\* whenever the driver is neither calling arms nor publishing.
VersionInv ==
    /\ pc \in {"next", "ingest", "score", "done"} => Visible = Live
    /\ pc \in {"arms", "restore"} => Store!At(version) = Live

\* What the arms of the present task were shown
ShownNow(a) ==
    /\ a \notin Placebos => got[a].version = (IF a \in MemoryArms THEN version ELSE {})
    /\ a \in MemoryArms => got[a].lines = Retrieved(version, task, Tau[a])
    /\ a \in Placebos => got[a].lines = Placebo(Retrieved(version, task, Tau[Primary]))

ShownInv ==
    /\ pc \in {"arms"} \union AfterArms =>
          /\ \A a \in DOMAIN got : ShownNow(a)
          /\ nPrimary \subseteq {Retrieved(version, task, Tau[Primary])}
    /\ \A a \in Arms : \A s \in seen[a] : s.task \in 1 .. task - 1
    /\ ShownAsRecorded
    /\ PlacebosMatch

LEMMA VersionStep ==
    ASSUME VersionInv, [RollingNext]_rollingVars
    PROVE  VersionInv'
<1>. USE DEF VersionInv, Visible, Store!At
<1>1. CASE BeginTask
  <2>1. UNCHANGED vars /\ pc = "next" /\ pc' = "arms" /\ version' = pinned
    BY <1>1 DEF BeginTask
  <2>. QED  BY <2>1, OtherLive
<1>2. CASE Stop
  BY <1>2 DEF Stop
<1>3. ASSUME NEW a \in Arms, LocalizeArm(a)
      PROVE  VersionInv'
  <2>1. Live' = Live
    BY <1>3, OtherLive DEF LocalizeArm, PinFor
  <2>. QED  BY <1>3, <2>1 DEF LocalizeArm
<1>4. CASE RetryControl
  BY <1>4, OtherLive DEF RetryControl
<1>5. CASE ArmsDone
  BY <1>5, OtherLive DEF ArmsDone, armVars
<1>6. CASE Restore
  <2>1. Live' = Live /\ pinned' = version
    BY <1>6, OtherLive DEF Restore, Pin
  <2>. QED  BY <1>6, <2>1 DEF Restore
<1>7. CASE IngestNext
  <2>1. pc = "ingest" /\ pc' = "ingest" /\ pinned' = pinned
    BY <1>7 DEF IngestNext, IngestAdmit, IngestReinforce, IngestDiscard, Observe
  <2>2. Live' = Live
    BY <1>7 DEF IngestNext, IngestAdmit, IngestReinforce, IngestDiscard, Observe, Live, Store!Live
  <2>. QED  BY <2>1, <2>2
<1>8. CASE TickTask("score")
  BY <1>8, TickLive DEF TickTask
<1>9. CASE Publish
  BY <1>9 DEF Publish
<1>10. CASE Show("score")
  <2>1. Live' = Live /\ pinned' = {Live}
    BY <1>10, OtherLive DEF Show, Pin
  <2>. QED  BY <1>10, <2>1 DEF Show
<1>11. CASE ScoreTask
  BY <1>11, OtherLive DEF ScoreTask, vars
<1>12. CASE FreezeAtEnd
  BY <1>12, FrozenLive DEF FreezeAtEnd
<1>13. CASE UNCHANGED rollingVars
  BY <1>13, OtherLive DEF rollingVars, driverVars, armVars, vars
<1>. QED
  BY <1>1, <1>2, <1>3, <1>4, <1>5, <1>6, <1>7, <1>8, <1>9, <1>10, <1>11, <1>12, <1>13
     DEF RollingNext, LearnStep

\* An answer is recorded with what its arm was shown, and no other changes.
LEMMA AnswerShown ==
    ASSUME ArmsInv, ShownInv, pc = "arms", NEW a \in toCome, a \in Arms,
           PinFor(a), CountPrimary(a), Answer(a), UNCHANGED <<version, task>>
    PROVE  \A b \in DOMAIN got' : ShownNow(b)'
<1>. DEFINE n == Retrieved(version, task, Tau[Primary])
<1>. USE PipelineAssumption
<1>1. /\ DOMAIN got' = DOMAIN got \union {a}
      /\ got'[a] = [version |-> pinned', lines |-> Lines(a)]
      /\ \A b \in DOMAIN got \ {a} : got'[b] = got[b]
  BY DEF Answer
<1>2. ASSUME NEW b \in DOMAIN got \ {a}
      PROVE  ShownNow(b)'
  <2>1. ShownNow(b)
    BY <1>2 DEF ShownInv
  <2>. QED  BY <1>1, <2>1 DEF ShownNow
<1>3. a \notin Placebos => pinned' = (IF a = Control THEN {} ELSE version)
  BY DEF PinFor, Pin
<1>4. a \in Placebos => nPrimary' = {n}
  BY DEF PinFor, Pin, CountPrimary, ShownInv, Placebos
<1>5. a = Control \/ a \in MemoryArms \/ a \in Placebos
  BY DEF Placebos
<1>6. a = Control => ShownNow(a)'
  BY <1>1, <1>3 DEF ShownNow, Placebos
<1>7. a \in MemoryArms => ShownNow(a)'
  <2>. SUFFICES ASSUME a \in MemoryArms PROVE ShownNow(a)'
    OBVIOUS
  <2>1. a # Control /\ a \notin Placebos /\ pinned' = version
    BY <1>3 DEF Placebos
  <2>2. Lines(a) = Retrieved(version, task, Tau[a])
    BY <2>1 DEF Lines
  <2>. QED  BY <1>1, <2>1, <2>2 DEF ShownNow
<1>8. a \in Placebos => ShownNow(a)'
  <2>. SUFFICES ASSUME a \in Placebos PROVE ShownNow(a)'
    OBVIOUS
  <2>1. a # Control /\ a \notin MemoryArms
    BY DEF Placebos
  <2>2. (CHOOSE k \in nPrimary' : TRUE) = n
    BY <1>4
  <2>3. Lines(a) = Placebo(n)
    BY <2>1, <2>2 DEF Lines
  <2>. QED  BY <1>1, <2>1, <2>3 DEF ShownNow
<1>. QED  BY <1>1, <1>2, <1>5, <1>6, <1>7, <1>8

\* What is scored is what was shown.
LEMMA ScoreShown ==
    ASSUME PairedInv, ShownInv, ScoreTask
    PROVE  ShownInv'
<1>. USE PipelineAssumption, RollingAssumption
<1>. DEFINE result(a) == [task |-> task, shown |-> got[a].version, lines |-> got[a].lines,
                          recorded |-> IF a \in MemoryArms THEN version ELSE {}]
<1>1. /\ pc = "score" /\ pc' = "next" /\ task' = task + 1 /\ task \in Nat \ {0}
      /\ UNCHANGED <<version, got, nPrimary>>
  BY DEF ScoreTask, armVars, PairedInv
<1>2. \A a \in Arms : \A s \in seen'[a] :
          s \in seen[a] \/ (a \in DOMAIN got /\ s = result(a))
  <2>1. CASE IsEval /\ failed
    BY <2>1 DEF ScoreTask
  <2>2. CASE ~ (IsEval /\ failed)
    <3>1. seen' = [a \in Arms |-> seen[a] \union
                      (IF a \in (IF IsEval THEN DOMAIN got ELSE {}) THEN {result(a)} ELSE {})]
      BY <2>2, Zenon DEF ScoreTask
    <3>. QED  BY <3>1
  <2>. QED  BY <2>1, <2>2
<1>3. \A a \in DOMAIN got : ShownNow(a)
  BY <1>1 DEF ShownInv, AfterArms
<1>4. \A a \in Arms : \A s \in seen'[a] : s.task \in 1 .. task' - 1
  BY <1>1, <1>2 DEF ShownInv
<1>5. ShownAsRecorded'
  <2>. SUFFICES ASSUME NEW a \in Arms \ Placebos, NEW s \in seen'[a]
                PROVE  s.shown = s.recorded
    BY DEF ShownAsRecorded
  <2>1. CASE s \in seen[a]
    BY <2>1 DEF ShownInv, ShownAsRecorded
  <2>2. CASE a \in DOMAIN got /\ s = result(a)
    <3>1. s.shown = got[a].version /\ s.recorded = (IF a \in MemoryArms THEN version ELSE {})
      BY <2>2
    <3>. QED  BY <1>3, <2>2, <3>1 DEF ShownNow
  <2>. QED  BY <1>2, <2>1, <2>2
<1>6. PlacebosMatch'
  <2>. SUFFICES ASSUME NEW a \in Placebos, NEW s \in seen'[a], NEW x \in seen'[Primary],
                       x.task = s.task
                PROVE  s.lines = AtMost(PoolSize, x.lines)
    BY DEF PlacebosMatch
  <2>1. a \in Arms /\ Primary \in Arms
    BY DEF Placebos
  <2>2. \/ s \in seen[a] /\ s.task \in 1 .. task - 1
        \/ a \in DOMAIN got /\ s = result(a)
    BY <1>2, <2>1 DEF ShownInv
  <2>3. \/ x \in seen[Primary] /\ x.task \in 1 .. task - 1
        \/ Primary \in DOMAIN got /\ x = result(Primary)
    BY <1>2, <2>1 DEF ShownInv
  <2>4. CASE s \in seen[a] /\ x \in seen[Primary]
    BY <2>4 DEF ShownInv, PlacebosMatch
  <2>5. CASE /\ a \in DOMAIN got /\ s = result(a)
             /\ Primary \in DOMAIN got /\ x = result(Primary)
    BY <1>3, <2>5 DEF ShownNow, Placebo
  <2>6. result(a).task = task /\ result(Primary).task = task /\ task \notin 1 .. task - 1
    BY <1>1
  <2>. QED  BY <2>2, <2>3, <2>4, <2>5, <2>6
<1>. QED  BY <1>1, <1>4, <1>5, <1>6 DEF ShownInv, AfterArms

LEMMA ShownStep ==
    ASSUME ArmsInv, PairedInv, ShownInv, [RollingNext]_rollingVars
    PROVE  ShownInv'
<1>. USE PipelineAssumption
<1>. DEFINE Now == /\ \A a \in DOMAIN got : ShownNow(a)
                   /\ nPrimary \subseteq {Retrieved(version, task, Tau[Primary])}
<1>1. ASSUME UNCHANGED <<task, seen>>,
             pc' \in {"arms"} \union AfterArms => Now'
      PROVE  ShownInv'
  BY <1>1 DEF ShownInv, ShownAsRecorded, PlacebosMatch
<1>2. ASSUME UNCHANGED <<task, seen, armVars>>,
             pc' \in {"arms"} \union AfterArms => pc \in {"arms"} \union AfterArms
      PROVE  ShownInv'
  BY <1>1, <1>2 DEF ShownInv, armVars, ShownNow
<1>3. CASE BeginTask
  BY <1>1, <1>3 DEF BeginTask, NoAnswer, resultVars
<1>4. ASSUME NEW a \in Arms, LocalizeArm(a)
      PROVE  ShownInv'
  <2>1. UNCHANGED <<task, seen, version>> /\ pc = "arms" /\ Now
    BY <1>4 DEF LocalizeArm, resultVars, ShownInv
  <2>2. nPrimary' \subseteq {Retrieved(version, task, Tau[Primary])}
    BY <1>4, <2>1 DEF LocalizeArm, CountPrimary, PinFor, Pin, Placebos
  <2>3. CASE Answer(a)
    BY <1>1, <1>4, <2>1, <2>2, <2>3, AnswerShown DEF LocalizeArm
  <2>4. CASE NoAnswerNow
    BY <1>1, <2>1, <2>2, <2>4 DEF NoAnswerNow, ShownNow
  <2>. QED  BY <1>4, <2>3, <2>4 DEF LocalizeArm
<1>5. CASE RetryControl
  <2>1. UNCHANGED <<task, seen, version, nPrimary>> /\ pc = "arms" /\ Now
    BY <1>5 DEF RetryControl, resultVars, ShownInv
  <2>2. CASE Answer(Control)
    <3>1. /\ DOMAIN got' = DOMAIN got \union {Control} /\ got'[Control].version = {}
          /\ \A b \in DOMAIN got \ {Control} : got'[b] = got[b]
      BY <1>5, <2>2 DEF RetryControl, Answer, Pin
    <3>2. \A b \in DOMAIN got' : ShownNow(b)'
      BY <2>1, <3>1 DEF ShownNow, Placebos
    <3>. QED  BY <1>1, <2>1, <3>2
  <2>3. CASE NoAnswerNow
    BY <1>1, <2>1, <2>3 DEF NoAnswerNow, ShownNow
  <2>. QED  BY <1>5, <2>2, <2>3 DEF RetryControl
<1>6. CASE ScoreTask
  BY <1>6, ScoreShown
<1>7. CASE Stop \/ ArmsDone \/ Restore \/ FreezeAtEnd \/ UNCHANGED rollingVars
  BY <1>2, <1>7
     DEF Stop, ArmsDone, Restore, FreezeAtEnd, rollingVars, driverVars, resultVars, AfterArms
<1>8. CASE LearnStep
  BY <1>2, <1>8, LearnControl DEF resultVars, AfterArms
<1>. QED  BY <1>3, <1>4, <1>5, <1>6, <1>7, <1>8 DEF RollingNext

\* MemoryCurrent for the rolling driver: when a task begins, readers see the
\* live memory (RepoPipeline.rolling; the snapshot and pin of a promotion).
THEOREM MemoryIsCurrent == RollingSpec => []MemoryCurrent
<1>1. RollingInit => VersionInv
  BY DEF RollingInit, DriverInit, Init, Store!StoreInit, VersionInv, Visible, Store!At, Live, Store!Live
<1>2. VersionInv => MemoryCurrent
  BY DEF VersionInv, MemoryCurrent
<1>. QED  BY <1>1, <1>2, VersionStep, PTL DEF RollingSpec

\* The memory an arm was shown is the one that its result names, none for the
\* control, and a placebo was shown as many lines as the treatment, or the
\* whole pool: two of the three parts of AsOfPreviousTask, whatever arms were
\* called before and whatever they pinned (RepoPipeline.rolling, _placebo).
THEOREM ArmsDoNotLeak == RollingSpec => [](ShownAsRecorded /\ PlacebosMatch)
<1>1. RollingInit => ShownInv
  BY PipelineAssumption
     DEF RollingInit, DriverInit, ShownInv, AfterArms, ShownAsRecorded, PlacebosMatch, Placebos
<1>2. ArmsInv /\ PairedInv /\ ShownInv /\ [RollingNext]_rollingVars
         => (ArmsInv /\ PairedInv /\ ShownInv)'
  BY ArmsStep, PairedStep, ShownStep
<1>3. ShownInv => ShownAsRecorded /\ PlacebosMatch
  BY DEF ShownInv
<1>. QED  BY <1>1, <1>2, <1>3, StartsPaired, PTL DEF RollingSpec
-----------------------------------------------------------------------------
\* What the control arm answered at the present task
ControlSaid == UNION {Elements(flags) : flags \in controlFlags}

\* The control arm answers once, if at all.
ControlInv ==
    pc \in {"arms", "restore"} =>
        /\ task \in 1 .. NTasks
        /\ controlFlags \subseteq Answers[task]
        /\ \A f, g \in controlFlags : f = g
        /\ Control \in DOMAIN got <=> controlFlags # {}
        /\ Control \in toCome => controlFlags = {}

\* What is still to be fed of what was answered
FedInv ==
    /\ answered \subseteq Records
    /\ pc \in {"arms", "restore"} => answered = fed \union ControlSaid
    /\ pc = "ingest" => pending \in Seq(Records) /\ answered = fed \union Elements(pending)
    /\ pc \in {"publish", "show", "score", "next"} => answered = fed
    /\ pc # "ingest" => pending = << >>

\* Nothing has been answered for the present task.
Unanswered == pc = "next" \/ (pc \in {"arms", "restore"} /\ controlFlags = {})

\* The tasks that taught nothing are behind, or the present one after its arms.
ErrorsInv ==
    /\ \A r \in answered : InputOf[r] \in 1 .. task /\ (Unanswered => InputOf[r] # task)
    /\ \A t \in learnErrors : \A r \in answered : InputOf[r] # t
    /\ learnErrors \subseteq 1 .. task
    /\ pc \in {"next", "arms", "restore"} => task \notin learnErrors
    /\ learnErrors \ {task} \subseteq errors[Control] \union 1 .. Warmup
    /\ pc \in AfterArms /\ task \in learnErrors => failed

FeedInv == ControlInv /\ FedInv /\ ErrorsInv

\* A call of the control arm that returns
LEMMA ControlAnswers ==
    ASSUME Learning, FeedInv, PairedInv, pc = "arms", controlFlags = {},
           Answer(Control), pc' \in {"arms", "restore"}, Control \notin toCome',
           UNCHANGED <<task, learnErrors, errors, fed, pending>>,
           failed => failed'
    PROVE  FeedInv'
<1>. USE PipelineAssumption, ConstantsAssumption DEF FeedInv
<1>1. PICK flags \in Answers[task] :
         controlFlags' = {flags} /\ answered' = answered \union Elements(flags)
  BY DEF Answer
<1>2. task \in 1 .. NTasks /\ flags \in Seq({r \in Records : InputOf[r] = task})
  BY DEF ControlInv
<1>3. \A r \in Elements(flags) : r \in Records /\ InputOf[r] = task
  BY <1>2 DEF Elements
<1>4. Control \in DOMAIN got'
  BY DEF Answer
<1>5. ControlSaid = {} /\ ControlSaid' = Elements(flags)
  BY <1>1 DEF ControlSaid
<1>6. ControlInv'
  BY <1>1, <1>2, <1>4 DEF ControlInv
<1>7. FedInv'
  BY <1>1, <1>3, <1>5 DEF FedInv
<1>8. ErrorsInv'
  BY <1>1, <1>2, <1>3 DEF ErrorsInv, Unanswered, AfterArms
<1>. QED  BY <1>6, <1>7, <1>8

\* Steps at a task that leave the control's answer alone
LEMMA ArmsGoOn ==
    ASSUME FeedInv, pc = "arms", pc' \in {"arms", "restore"}, failed => failed',
           UNCHANGED <<task, learnErrors, errors, fed, pending, answered, controlFlags>>,
           Control \in DOMAIN got' <=> Control \in DOMAIN got, toCome' \subseteq toCome
    PROVE  FeedInv'
<1>1. ControlInv'
  BY DEF FeedInv, ControlInv
<1>2. FedInv'
  BY DEF FeedInv, FedInv, ControlSaid
<1>3. ErrorsInv'
  BY DEF FeedInv, ErrorsInv, Unanswered, AfterArms
<1>. QED  BY <1>1, <1>2, <1>3 DEF FeedInv

LEMMA RestoreFeeds ==
    ASSUME Learning, ArmsInv, PairedInv, FeedInv, Restore
    PROVE  FeedInv'
<1>. USE PipelineAssumption, RollingAssumption
<1>1. /\ pc = "restore" /\ pc' = "ingest"
      /\ UNCHANGED <<task, answered, failed, errors, fed>>
  BY DEF Restore, armVars, resultVars, Pin
<1>2. task \in 1 .. NTasks /\ controlFlags \subseteq Answers[task]
  BY <1>1 DEF FeedInv, ControlInv
<1>3. ControlInv'
  BY <1>1 DEF ControlInv
<1>4. CASE controlFlags # {}
  <2>1. PICK flags \in controlFlags : pending' = flags /\ learnErrors' = learnErrors
    BY <1>4 DEF Restore, Propose
  <2>2. ControlSaid = Elements(flags)
    BY <1>1, <2>1 DEF ControlSaid, FeedInv, ControlInv
  <2>3. flags \in Seq(Records)
    <3>1. flags \in Seq({r \in Records : InputOf[r] = task})
      BY <1>2, <2>1
    <3>. QED  BY <3>1
  <2>4. FedInv'
    BY <1>1, <2>1, <2>2, <2>3 DEF FeedInv, FedInv
  <2>5. ErrorsInv'
    BY <1>1, <2>1 DEF FeedInv, ErrorsInv, Unanswered, AfterArms
  <2>. QED  BY <1>3, <2>4, <2>5 DEF FeedInv
<1>5. CASE controlFlags = {}
  <2>1. learnErrors' = learnErrors \union {task} /\ UNCHANGED pending
    BY <1>5 DEF Restore
  <2>2. failed
    <3>1. Control \notin DOMAIN got /\ Control \in Called
      BY <1>1, <1>5 DEF FeedInv, ControlInv, Called
    <3>. QED  BY <1>1, <3>1 DEF ArmsInv, AfterArms
  <2>3. Elements(<< >>) = {} /\ << >> \in Seq(Records)
    BY DEF Elements
  <2>4. FedInv'
    BY <1>1, <1>5, <2>1, <2>3 DEF FeedInv, FedInv, ControlSaid
  <2>5. ErrorsInv'
    BY <1>1, <1>2, <1>5, <2>1, <2>2 DEF FeedInv, ErrorsInv, Unanswered, AfterArms
  <2>. QED  BY <1>3, <2>4, <2>5 DEF FeedInv
<1>. QED  BY <1>4, <1>5

LEMMA LearnFeeds ==
    ASSUME FeedInv, LearnStep
    PROVE  FeedInv'
<1>1. ControlInv'
  BY LearnControl DEF ControlInv
<1>2. UNCHANGED <<task, learnErrors, answered, errors, failed>>
  BY LearnControl DEF LearnStep, IngestNext, TickTask, Publish, Show, armVars, resultVars
<1>3. ErrorsInv'
  BY <1>2, LearnControl DEF FeedInv, ErrorsInv, Unanswered, AfterArms
<1>4. CASE IngestNext
  <2>1. /\ pc = "ingest" /\ pc' = "ingest" /\ pending # << >>
        /\ fed' = fed \union {Head(pending)} /\ pending' = Tail(pending)
    BY <1>4 DEF IngestNext, IngestAdmit, IngestReinforce, IngestDiscard, Observe
  <2>2. FedInv'
    BY <1>2, <2>1, HeadFirst DEF FeedInv, FedInv
  <2>. QED  BY <1>1, <1>3, <2>2 DEF FeedInv
<1>5. CASE TickTask("score")
  <2>1. /\ pc = "ingest" /\ pc' \in {"publish", "score"} /\ pending = << >>
        /\ UNCHANGED <<fed, pending>>
    BY <1>5 DEF TickTask, AnyTick, TickOnly, TickAndPromote
  <2>2. Elements(<< >>) = {}
    BY DEF Elements
  <2>3. FedInv'
    BY <1>2, <2>1, <2>2 DEF FeedInv, FedInv
  <2>. QED  BY <1>1, <1>3, <2>3 DEF FeedInv
<1>6. CASE Publish \/ Show("score")
  <2>1. /\ pc \in {"publish", "show"} /\ pc' \in {"show", "score"}
        /\ UNCHANGED <<fed, pending>>
    BY <1>6 DEF Publish, Show, Snapshot, Pin
  <2>2. FedInv'
    BY <1>2, <2>1 DEF FeedInv, FedInv
  <2>. QED  BY <1>1, <1>3, <2>2 DEF FeedInv
<1>. QED  BY <1>4, <1>5, <1>6 DEF LearnStep

LEMMA ScoreFeeds ==
    ASSUME PairedInv, FeedInv, ScoreTask
    PROVE  FeedInv'
<1>. USE PipelineAssumption, RollingAssumption
<1>1. /\ pc = "score" /\ pc' = "next" /\ task' = task + 1 /\ task \in Nat \ {0}
      /\ UNCHANGED <<fed, pending, answered, learnErrors, failed>>
  BY DEF ScoreTask, vars, armVars, PairedInv
<1>2. errors[Control] \subseteq errors'[Control]
      /\ (IsEval /\ failed => task \in errors'[Control])
  BY DEF ScoreTask
<1>3. task \in learnErrors => task \in errors'[Control] \union 1 .. Warmup
  BY <1>1, <1>2 DEF FeedInv, ErrorsInv, AfterArms, IsEval
<1>4. ErrorsInv'
  BY <1>1, <1>2, <1>3 DEF FeedInv, ErrorsInv, Unanswered, AfterArms
<1>. QED  BY <1>1, <1>4 DEF FeedInv, ControlInv, FedInv

LEMMA BeginFeeds ==
    ASSUME PairedInv, FeedInv, BeginTask
    PROVE  FeedInv'
<1>. USE PipelineAssumption
<1>1. /\ pc = "next" /\ pc' = "arms" /\ task \in 1 .. NTasks
      /\ UNCHANGED <<task, fed, pending, answered, learnErrors, errors>>
      /\ controlFlags' = {} /\ DOMAIN got' = {}
  BY DEF BeginTask, vars, resultVars, PairedInv, NoAnswer
<1>2. ControlInv'
  BY <1>1 DEF ControlInv
<1>3. FedInv'
  BY <1>1 DEF FeedInv, FedInv, ControlSaid
<1>4. ErrorsInv'
  BY <1>1 DEF FeedInv, ErrorsInv, Unanswered, AfterArms
<1>. QED  BY <1>2, <1>3, <1>4 DEF FeedInv

LEMMA FeedStep ==
    ASSUME Learning, ArmsInv, PairedInv, FeedInv, [RollingNext]_rollingVars
    PROVE  FeedInv'
<1>1. ASSUME NEW a \in Arms, LocalizeArm(a)
      PROVE  FeedInv'
  <2>1. /\ pc = "arms" /\ pc' = "arms" /\ a \in toCome
        /\ UNCHANGED <<task, learnErrors, errors, fed, pending>>
        /\ toCome' \subseteq toCome /\ (failed => failed')
    BY <1>1 DEF LocalizeArm, PinFor, Pin, vars, resultVars
  <2>2. CASE Answer(a) /\ toCome' = toCome \ {a} /\ a = Control
    BY <2>1, <2>2, ControlAnswers DEF FeedInv, ControlInv
  <2>3. CASE Answer(a) /\ a # Control
    <3>1. UNCHANGED <<answered, controlFlags>> /\ DOMAIN got' = DOMAIN got \union {a}
      BY <2>3 DEF Answer
    <3>. QED  BY <2>1, <2>3, <3>1, ArmsGoOn
  <2>4. CASE NoAnswerNow
    BY <2>1, <2>4, ArmsGoOn DEF NoAnswerNow
  <2>. QED  BY <1>1, <2>2, <2>3, <2>4 DEF LocalizeArm
<1>2. CASE RetryControl
  <2>1. /\ pc = "arms" /\ pc' = "restore" /\ controlFlags = {} /\ toCome' = {}
        /\ UNCHANGED <<task, learnErrors, errors, fed, pending, toCome, failed>>
    BY <1>2 DEF RetryControl, Pin, resultVars, FeedInv, ControlInv
  <2>2. CASE Answer(Control)
    BY <2>1, <2>2, ControlAnswers
  <2>3. CASE NoAnswerNow
    BY <2>1, <2>3, ArmsGoOn DEF NoAnswerNow
  <2>. QED  BY <1>2, <2>2, <2>3 DEF RetryControl
<1>3. CASE ArmsDone
  BY <1>3, ArmsGoOn DEF ArmsDone, vars, armVars, resultVars
<1>4. CASE Stop \/ FreezeAtEnd
  <2>1. /\ pc = "next" /\ pc' \in {"stopped", "done"}
        /\ UNCHANGED <<task, learnErrors, errors, fed, pending, answered, failed>>
    BY <1>4 DEF Stop, FreezeAtEnd, Freeze, vars, armVars, resultVars
  <2>. QED  BY <2>1 DEF FeedInv, ControlInv, FedInv, ErrorsInv, Unanswered, AfterArms
<1>5. CASE UNCHANGED rollingVars
  BY <1>5 DEF rollingVars, vars, driverVars, armVars, resultVars, FeedInv, ControlInv, FedInv,
              ControlSaid, ErrorsInv, Unanswered
<1>. QED
  BY <1>1, <1>2, <1>3, <1>4, <1>5, BeginFeeds, RestoreFeeds, LearnFeeds, ScoreFeeds
     DEF RollingNext

\* ControlFeedsLearning: what is learned from is what the control arm answered,
\* and no task with such an answer is left out (RepoPipeline.rolling).
THEOREM ControlFeeds == RollingSpec => []ControlFeedsLearning
<1>. DEFINE Inv == Learning => FeedInv
<1>1. RollingInit => Inv
  BY PipelineAssumption
     DEF RollingInit, DriverInit, Init, FeedInv, ControlInv, FedInv, ErrorsInv, AfterArms
<1>2. ArmsInv /\ PairedInv /\ Inv /\ [RollingNext]_rollingVars
         => (ArmsInv /\ PairedInv /\ Inv)'
  BY ArmsStep, PairedStep, FeedStep
<1>3. Inv => ControlFeedsLearning
  BY RollingAssumption DEF FeedInv, FedInv, ErrorsInv, ControlFeedsLearning
<1>. QED  BY <1>1, <1>2, <1>3, StartsPaired, PTL DEF RollingSpec
-----------------------------------------------------------------------------

LEMMA LearnApart ==
    ASSUME Symmetric, VersionInv, FeedInv, PatternInv, LearnStep
    PROVE  PatternInv'
<1>1. CASE IngestNext
  <2>1. Visible = Live /\ Head(pending) \in Records
    BY <1>1, HeadFirst DEF IngestNext, VersionInv, FeedInv, FedInv
  <2>. QED  BY <1>1, <2>1, IngestApart
<1>2. CASE TickTask("score")
  BY <1>2, TickApart DEF TickTask
<1>3. CASE Publish \/ Show("score")
  BY <1>3 DEF Publish, Show, Snapshot, Store!RecordVersion, Pin, PatternInv
<1>. QED  BY <1>1, <1>2, <1>3 DEF LearnStep

\* Without learning nothing reaches the kernel's buffer.
LearnsOnly == pc \in {"ingest", "publish", "show"} => Learning

LEMMA LearnsStep ==
    ASSUME LearnsOnly, [RollingNext]_rollingVars
    PROVE  LearnsOnly'
<1>1. CASE LearnStep
  BY <1>1, LearnControl DEF LearnsOnly
<1>2. CASE ~ LearnStep
  BY <1>2 DEF RollingNext, rollingVars, driverVars, BeginTask, Stop, LocalizeArm, RetryControl,
              ArmsDone, Restore, ScoreTask, FreezeAtEnd, LearnsOnly
<1>. QED  BY <1>1, <1>2

LEMMA PatternStep ==
    ASSUME Symmetric, VersionInv, LearnsOnly, Learning => FeedInv, PatternInv,
           [RollingNext]_rollingVars
    PROVE  PatternInv'
<1>1. CASE LearnStep
  BY <1>1, LearnApart, LearnControl DEF LearnsOnly
<1>2. CASE UNCHANGED <<buffer, objects, supersededBy>>
  BY <1>2 DEF PatternInv
<1>3. CASE \/ BeginTask \/ Stop \/ RetryControl \/ ArmsDone \/ Restore \/ ScoreTask
           \/ FreezeAtEnd \/ UNCHANGED rollingVars
  BY <1>2, <1>3
     DEF BeginTask, Stop, RetryControl, ArmsDone, Restore, ScoreTask, FreezeAtEnd, rollingVars,
         vars, Pin, Freeze, Store!RecordVersion
<1>4. ASSUME NEW a \in Arms, LocalizeArm(a)
      PROVE  PatternInv'
  BY <1>2, <1>4 DEF LocalizeArm, PinFor, Pin, vars
<1>. QED  BY <1>1, <1>3, <1>4 DEF RollingNext

\* DistinctPatterns of the rolling driver, for any policy and any symmetric
\* similarity, as each of the shipped ones is (SurpriseGate.evaluate with the
\* memory that RepoPipeline.rolling restores and publishes).
THEOREM PatternsAreDistinct ==
    ASSUME Symmetric
    PROVE  RollingSpec => []DistinctPatterns
<1>. DEFINE Feed == Learning => FeedInv
            Inv == ArmsInv /\ PairedInv /\ VersionInv /\ LearnsOnly /\ Feed /\ PatternInv
<1>1. RollingInit => Inv
  <2>. SUFFICES ASSUME RollingInit PROVE Inv
    OBVIOUS
  <2>1. Feed
    BY PipelineAssumption
       DEF RollingInit, DriverInit, Init, FeedInv, ControlInv, FedInv, ErrorsInv, AfterArms
  <2>2. VersionInv /\ LearnsOnly /\ PatternInv
    BY DEF RollingInit, DriverInit, Init, Store!StoreInit, VersionInv, Visible, Store!At, Live,
           Store!Live, LearnsOnly, PatternInv
  <2>. QED  BY <2>1, <2>2, StartsPaired
<1>2. Inv /\ [RollingNext]_rollingVars => Inv'
  BY ArmsStep, PairedStep, VersionStep, LearnsStep, FeedStep, PatternStep
<1>3. Inv => DistinctPatterns
  BY AllLive DEF PatternInv, Apart, DistinctPatterns
<1>. HIDE DEF Inv
<1>. QED  BY <1>1, <1>2, <1>3, PTL DEF RollingSpec
-----------------------------------------------------------------------------
(***************************************************************************)
(* The driver is a caller of the kernel that passes each record once, with *)
(* a clock that the agent has: what module Kernel promises such a caller   *)
(* holds of the rolling run.                                               *)
(***************************************************************************)

\* What is pinned is None or one version.
PinInv ==
    /\ agentClock \in Clock
    /\ \A u, v \in pinned : u = v
    /\ \A u, v \in version : u = v

\* A call for arm a is one of the kernel, if of the kernel at all.
LEMMA PinForCalls ==
    ASSUME PinInv, NEW a, PinFor(a)
    PROVE  /\ Operation \/ UNCHANGED vars
           /\ \A u, v \in pinned' : u = v
           /\ fed' = fed
<1>1. CASE UNCHANGED vars
  BY <1>1 DEF vars, PinInv
<1>2. CASE Pin(IF a = Control THEN {} ELSE version)
  <2>. DEFINE V == IF a = Control THEN {} ELSE version
  <2>1. \A u, v \in V : u = v
    BY DEF PinInv
  <2>2. Pin(V) /\ pinned' = V /\ fed' = fed
    BY <1>2 DEF Pin
  <2>. HIDE DEF V
  <2>. QED  BY <2>1, <2>2, PinSingle
<1>. QED  BY <1>1, <1>2 DEF PinFor

\* What Rolling's other invariants say where this section needs it
DriverInv == ArmsInv /\ PairedInv /\ LearnsOnly /\ (Learning => FeedInv /\ FreshInv) /\ PinInv

LEMMA RollingCalls ==
    ASSUME DriverInv, [RollingNext]_rollingVars
    PROVE  [FreshCalls]_vars
<1>. USE DEF DriverInv
<1>1. ASSUME Operation \/ UNCHANGED vars
      PROVE  [FreshCalls]_vars
  BY <1>1 DEF FreshCalls
<1>2. ASSUME NEW a \in Arms, LocalizeArm(a)
      PROVE  Operation \/ UNCHANGED vars
  BY <1>2, PinForCalls DEF LocalizeArm
<1>3. CASE RetryControl
  <2>1. Pin({})
    BY <1>3 DEF RetryControl
  <2>. QED  BY <1>1, <2>1 DEF Operation
<1>4. CASE Restore
  <2>1. Pin(version)
    BY <1>4 DEF Restore
  <2>. QED  BY <1>1, <2>1, PinSingle DEF PinInv
<1>5. CASE BeginTask \/ Stop \/ ArmsDone \/ ScoreTask \/ UNCHANGED rollingVars
  BY <1>1, <1>5 DEF BeginTask, Stop, ArmsDone, ScoreTask, rollingVars
<1>6. CASE FreezeAtEnd
  BY <1>1, <1>6 DEF FreezeAtEnd, Operation
<1>7. CASE LearnStep
  <2>1. Learning
    BY <1>7, LearnControl DEF LearnsOnly
  <2>2. CASE IngestNext
    BY <2>1, <2>2, IngestIsFresh DEF FreshCalls, PinInv
  <2>3. CASE TickTask("score") \/ Publish
    BY <1>1, <2>3 DEF TickTask, Publish, Operation
  <2>4. CASE Show("score")
    <3>1. Pin({Live})
      BY <2>4 DEF Show
    <3>. QED  BY <1>1, <3>1, PinSingle
  <2>. QED  BY <1>7, <2>2, <2>3, <2>4 DEF LearnStep
<1>. QED  BY <1>1, <1>2, <1>3, <1>4, <1>5, <1>6, <1>7 DEF RollingNext

LEMMA FreshStep ==
    ASSUME Learning, PairedInv, FeedInv, FreshInv, [RollingNext]_rollingVars
    PROVE  FreshInv'
<1>. USE PipelineAssumption, RollingAssumption
<1>1. CASE BeginTask \/ Stop \/ ArmsDone \/ FreezeAtEnd \/ UNCHANGED rollingVars
  <2>1. UNCHANGED <<task, fed, pending>> /\ (pc' = pc \/ pc' # "ingest")
        /\ (pc' \in Unlearned => pc \in Unlearned)
    BY <1>1 DEF BeginTask, Stop, ArmsDone, FreezeAtEnd, Freeze, rollingVars, vars, driverVars,
                Unlearned
  <2>. QED  BY <2>1 DEF FreshInv
<1>2. CASE RetryControl \/ \E a \in Arms : LocalizeArm(a)
  <2>1. UNCHANGED <<task, fed, pending>> /\ pc = "arms" /\ pc' \in {"arms", "restore"}
    BY <1>2 DEF RetryControl, LocalizeArm, PinFor, Pin, vars
  <2>. QED  BY <2>1 DEF FreshInv, Unlearned
<1>3. CASE Restore
  <2>1. UNCHANGED <<task, fed>> /\ pc = "restore" /\ pc' = "ingest" /\ task \in 1 .. NTasks
    BY <1>3 DEF Restore, Pin, FeedInv, ControlInv
  <2>2. CASE controlFlags # {}
    <3>1. PICK flags \in controlFlags : pending' = flags
      BY <1>3, <2>2 DEF Restore, Propose
    <3>2. flags \in Answers[task]
      BY <2>1, <3>1 DEF FeedInv, ControlInv
    <3>. QED  BY <2>1, <3>1, <3>2, FreshAnswer DEF Unlearned
  <2>3. CASE controlFlags = {}
    <3>1. pending' = << >>
      BY <1>3, <2>1, <2>3 DEF Restore, FeedInv, FedInv
    <3>. QED  BY <2>1, <3>1 DEF FreshInv, Unlearned
  <2>. QED  BY <2>2, <2>3
<1>4. CASE IngestNext /\ UNCHANGED <<armVars, resultVars, consecutive>>
  BY <1>4, FreshIngest DEF PairedInv
<1>5. CASE /\ TickTask("score") \/ Publish \/ Show("score")
           /\ UNCHANGED <<armVars, resultVars, consecutive>>
  <2>1. UNCHANGED <<task, fed>> /\ pc' \in {"publish", "show", "score"}
    BY <1>5 DEF TickTask, AnyTick, TickOnly, TickAndPromote, Publish, Snapshot, Show, Pin
  <2>. QED  BY <2>1 DEF FreshInv, Unlearned
<1>6. CASE ScoreTask
  <2>1. task' = task + 1 /\ fed' = fed /\ pc' = "next" /\ task \in Nat \ {0}
    BY <1>6 DEF ScoreTask, vars, PairedInv
  <2>. QED  BY <2>1 DEF FreshInv
<1>. QED  BY <1>1, <1>2, <1>3, <1>4, <1>5, <1>6 DEF RollingNext, LearnStep

LEMMA PinStep ==
    ASSUME TypeOK, TypeOK', PinInv, [RollingNext]_rollingVars
    PROVE  PinInv'
<1>. USE PipelineAssumption, ConstantsAssumption DEF PinInv
<1>1. ASSUME NEW a \in Arms, LocalizeArm(a)
      PROVE  PinInv'
  BY <1>1, PinForCalls DEF LocalizeArm
<1>2. CASE Restore
  <2>1. pinned' = version /\ version' = version
    BY <1>2 DEF Restore, Pin, armVars
  <2>2. agentClock' = agentClock \/ agentClock' = Tick(Merge(agentClock, vclock'), VerifierAgent)
    BY <1>2 DEF Restore, Propose
  <2>3. agentClock' \in Clock
    <3>1. agentClock \in Clock /\ vclock' \in Clock /\ VerifierAgent \in Agents
      BY DEF TypeOK
    <3>2. Merge(agentClock, vclock') \in Clock
      BY ONLY <3>1, MergeBounds
    <3>3. Tick(Merge(agentClock, vclock'), VerifierAgent) \in Clock
      BY ONLY <3>1, <3>2, TickAdvances
    <3>. QED  BY ONLY <2>2, <3>1, <3>3
  <2>. QED  BY <2>1, <2>3
<1>3. CASE BeginTask
  BY <1>3 DEF BeginTask, vars
<1>4. CASE RetryControl \/ Stop \/ ArmsDone \/ ScoreTask \/ FreezeAtEnd \/ UNCHANGED rollingVars
  BY <1>4 DEF RetryControl, Stop, ArmsDone, ScoreTask, FreezeAtEnd, Freeze, Pin, rollingVars,
              vars, driverVars, armVars
<1>5. CASE LearnStep
  BY <1>5 DEF LearnStep, IngestNext, IngestAdmit, IngestReinforce, IngestDiscard, Observe,
              TickTask, AnyTick, TickOnly, TickAndPromote, Publish, Snapshot, Show, Pin, armVars
<1>. QED  BY <1>1, <1>2, <1>3, <1>4, <1>5 DEF RollingNext

\* The driver and the kernel that it calls
RunInv == DriverInv /\ KernelInv

LEMMA RunStarts ==
    ASSUME RollingInit
    PROVE  RunInv
<1>1. Learning => FeedInv /\ FreshInv
  BY PipelineAssumption
     DEF RollingInit, DriverInit, Init, FeedInv, ControlInv, FedInv, ErrorsInv, AfterArms, FreshInv
<1>2. LearnsOnly
  BY DEF RollingInit, DriverInit, LearnsOnly
<1>3. PinInv
  BY ConstantsAssumption DEF RollingInit, DriverInit, Init, PinInv, Zero, Clock
<1>4. KernelInv
  BY KernelStarts DEF RollingInit, DriverInit
<1>. QED  BY <1>1, <1>2, <1>3, <1>4, StartsPaired DEF RunInv, DriverInv

LEMMA RunStep ==
    ASSUME RunInv, [RollingNext]_rollingVars
    PROVE  RunInv' /\ [FreshCalls]_vars
<1>1. [FreshCalls]_vars
  BY RollingCalls DEF RunInv
<1>2. KernelInv'
  <2>1. [Calls]_vars
    BY <1>1 DEF Calls, FreshCalls
  <2>. QED  BY <2>1, KernelStep DEF RunInv
<1>3. ArmsInv' /\ PairedInv' /\ LearnsOnly'
  BY ArmsStep, PairedStep, LearnsStep DEF RunInv, DriverInv
<1>4. Learning => FeedInv' /\ FreshInv'
  BY FeedStep, FreshStep DEF RunInv, DriverInv
<1>5. PinInv'
  BY <1>2, PinStep DEF RunInv, DriverInv, KernelInv
<1>. QED  BY <1>1, <1>2, <1>3, <1>4, <1>5 DEF RunInv, DriverInv

\* A rolling run is a run of the kernel whose caller ingests no record twice:
\* the answers of the control alone, each once, in a task of its own
\* (RepoPipeline.rolling, _records and MemoryKernel.ingest).
THEOREM RollingDrivesKernel == RollingSpec => Init /\ [][FreshCalls]_vars
<1>1. RollingInit => RunInv
  BY RunStarts
<1>2. RunInv /\ [RollingNext]_rollingVars => RunInv'
  BY RunStep
<1>3. RunInv /\ [RollingNext]_rollingVars => [FreshCalls]_vars
  BY RunStep
<1>4. RollingInit => Init
  BY DEF RollingInit, DriverInit
<1>. QED  BY <1>1, <1>2, <1>3, <1>4, PTL DEF RollingSpec

\* So the types, the causal order and the age of what is buffered are as the
\* kernel promises, no record is evidence for two beliefs, and every memory
\* that the arms are shown rests on as much evidence as the policy asks for.
THEOREM LearnedMemoryIsSound ==
    RollingSpec =>
        [](/\ TypeOK /\ CausalOrder /\ NoStaleEvidence /\ RedundancyFree
           /\ EvidenceUsedOnce /\ EvidenceSuffices)
<1>. DEFINE Inv == EvidenceFed /\ EvidenceUsedOnce /\ EvidenceSuffices /\ IsFiniteSet(fed)
<1>1. RollingInit => RunInv /\ Inv
  <2>. SUFFICES ASSUME RollingInit PROVE RunInv /\ Inv
    OBVIOUS
  <2>1. Init
    BY DEF RollingInit, DriverInit
  <2>2. EvidenceSuffices /\ IsFiniteSet(fed)
    BY <2>1, FS_EmptySet DEF Init, Store!StoreInit, EvidenceSuffices
  <2>. QED  BY <2>1, <2>2, RunStarts, KernelStarts
<1>2. RunInv /\ Inv /\ [RollingNext]_rollingVars => (RunInv /\ Inv)'
  <2>. SUFFICES ASSUME RunInv, Inv, [RollingNext]_rollingVars PROVE (RunInv /\ Inv)'
    OBVIOUS
  <2>1. [FreshCalls]_vars /\ RunInv'
    BY RunStep
  <2>. QED  BY <2>1, EvidenceStep, SufficesStep DEF RunInv, KernelInv
<1>3. RunInv => TypeOK /\ CausalOrder /\ NoStaleEvidence /\ RedundancyFree
  BY DEF RunInv, KernelInv
<1>. QED  BY <1>1, <1>2, <1>3, PTL DEF RollingSpec
-----------------------------------------------------------------------------
\* When a memory is promoted, in the rolling driver
LEMMA SettledStep ==
    ASSUME NeverMerges, AsksEvidence, Schedule = 1, RunInv, RunInv', PatternInv, PatternInv',
           SettledInv, [RollingNext]_rollingVars
    PROVE  SettledInv'
<1>1. CASE \/ BeginTask \/ Stop \/ RetryControl \/ ArmsDone \/ Restore \/ ScoreTask
           \/ \E a \in Arms : LocalizeArm(a)
  <2>1. UNCHANGED <<buffer, objects, supersededBy, frozen>> /\ pc # "ingest"
        /\ (frozen => pc' = pc)
    BY <1>1 DEF BeginTask, Stop, RetryControl, ArmsDone, Restore, ScoreTask, LocalizeArm, PinFor,
                Pin, vars, SettledInv
  <2>2. Live' = Live
    BY <2>1 DEF Live, Store!Live
  <2>. QED  BY <2>1, <2>2, SettledStays DEF SettledInv
<1>2. CASE FreezeAtEnd
  <2>1. UNCHANGED <<buffer, Live>> /\ pc = "next" /\ pc' = "done"
    BY <1>2, FrozenLive DEF FreezeAtEnd, Freeze
  <2>. QED  BY <2>1, SettledStays
<1>3. CASE IngestNext /\ UNCHANGED <<armVars, resultVars, consecutive>>
  <2>1. Learning /\ FreshInv
    BY <1>3 DEF IngestNext, RunInv, DriverInv, LearnsOnly
  <2>. QED  BY <1>3, <2>1, SettledIngest DEF RunInv
<1>4. CASE TickTask("score")
  BY <1>4, SettledTick DEF RunInv
<1>5. CASE Publish \/ Show("score")
  <2>1. UNCHANGED <<buffer, Live, frozen>> /\ pc \in {"publish", "show"}
    BY <1>5, OtherLive DEF Publish, Snapshot, Show, Pin
  <2>. QED  BY <2>1, SettledStays DEF SettledInv
<1>6. CASE UNCHANGED rollingVars
  <2>1. UNCHANGED <<buffer, Live, frozen, pc, task>>
    BY <1>6, OtherLive DEF rollingVars, vars, driverVars
  <2>. QED  BY <2>1 DEF SettledInv, Promotable
<1>. QED  BY <1>1, <1>2, <1>3, <1>4, <1>5, <1>6 DEF RollingNext, LearnStep
-----------------------------------------------------------------------------
\* A memory bears the number of the task at which it was promoted among its
\* inputs, so that its inputs tell when it came to be; and the version of the
\* task's start is what earlier tasks taught.
HashInv ==
    /\ \A m \in objects : m.input_hashes \subseteq 1 .. task
    /\ pc \in {"next", "arms", "restore", "ingest"} =>
          \A m \in objects : task \notin m.input_hashes
    /\ pc \in {"arms"} \union AfterArms =>
          Store!At(version) = {m \in objects : \A t \in m.input_hashes : t < task}
    /\ PromotedEarlier

\* A step of the same task that adds no memory
LEMMA HashStays ==
    ASSUME HashInv, UNCHANGED <<task, objects, seen, version>>,
           pc' \in {"next", "arms", "restore", "ingest"} =>
               pc \in {"next", "arms", "restore", "ingest"},
           pc' \in {"arms"} \union AfterArms => pc \in {"arms"} \union AfterArms
    PROVE  HashInv'
  BY DEF HashInv, PromotedEarlier, Store!At

LEMMA HashTick ==
    ASSUME PairedInv, ShownInv, HashInv, EvidenceFed, PatternInv, FreshInv,
           TickTask("score"), UNCHANGED <<armVars, resultVars, consecutive>>,
           \A m \in objects' \ objects : task \in m.input_hashes
    PROVE  HashInv'
<1>. USE PipelineAssumption
<1>1. /\ pc = "ingest" /\ pc' \in {"publish", "score"}
      /\ UNCHANGED <<task, seen, version>> /\ task \in Nat \ {0}
  BY DEF TickTask, armVars, resultVars, PairedInv
<1>2. objects \subseteq objects'
  BY DEF TickTask, AnyTick, TickOnly, TickAndPromote, RunPromotion, Store!PutAll
<1>3. \A m \in objects' \ objects : m.input_hashes \subseteq 1 .. task
  <2>1. CASE TickOnly
    BY <2>1 DEF TickOnly
  <2>2. CASE TickAndPromote
    <3>. DEFINE b == Without(buffer, Expired)
                stamp == Tick(Tick(vclock, KernelAgent), Approver)
    <3>1. DOMAIN b \subseteq DOMAIN buffer /\ \A e \in DOMAIN b : b[e] = buffer[e]
      BY DEF Without
    <3>2. objects' = objects \union {MemoryFrom(b, s, stamp) : s \in PromotableSeeds(b)}
      BY <2>2 DEF TickAndPromote, RunPromotion, Store!PutAll
    <3>3. \A s \in PromotableSeeds(b) : EvidenceFor(b, s) \subseteq fed
      BY <3>1 DEF PromotableSeeds, EvidenceFor, Cluster, EvidenceFed
    <3>4. \A s \in PromotableSeeds(b) : MemoryFrom(b, s, stamp).input_hashes \subseteq 1 .. task
      BY <3>3 DEF MemoryFrom, FreshInv
    <3>. QED  BY <3>2, <3>4
  <2>. QED  BY <2>1, <2>2 DEF TickTask, AnyTick
<1>4. {m \in objects' : \A t \in m.input_hashes : t < task} =
          {m \in objects : \A t \in m.input_hashes : t < task}
  BY <1>1, <1>2
<1>5. PromotedEarlier'
  <2>. SUFFICES ASSUME NEW a \in MemoryArms, NEW s \in seen[a], Schedule = 1
                PROVE  Store!At(s.shown) = {m \in objects' : \A t \in m.input_hashes : t < s.task}
    BY <1>1 DEF PromotedEarlier, Store!At
  <2>1. s.task \in 1 .. task - 1
    BY DEF ShownInv
  <2>2. \A m \in objects' \ objects : ~ task < s.task
    BY <1>1, <2>1
  <2>3. Store!At(s.shown) = {m \in objects : \A t \in m.input_hashes : t < s.task}
    BY DEF HashInv, PromotedEarlier
  <2>. QED  BY <1>2, <2>2, <2>3
<1>. QED  BY <1>1, <1>2, <1>3, <1>4, <1>5 DEF HashInv, AfterArms, Store!At

LEMMA HashScore ==
    ASSUME PairedInv, ShownInv, HashInv, ScoreTask
    PROVE  HashInv'
<1>. USE PipelineAssumption
<1>1. /\ pc = "score" /\ pc' = "next" /\ task' = task + 1 /\ task \in Nat \ {0}
      /\ UNCHANGED objects
  BY DEF ScoreTask, vars, PairedInv
<1>2. ASSUME NEW a \in MemoryArms, NEW s \in seen'[a], Schedule = 1
      PROVE  Store!At(s.shown) = {m \in objects : \A t \in m.input_hashes : t < s.task}
  <2>. DEFINE result == [task |-> task, shown |-> got[a].version, lines |-> got[a].lines,
                         recorded |-> version]
  <2>1. s \in seen[a] \/ (a \in DOMAIN got /\ s = result)
    <3>1. CASE IsEval /\ failed
      BY <3>1 DEF ScoreTask
    <3>2. CASE ~ (IsEval /\ failed)
      <4>1. seen' = [b \in Arms |-> seen[b] \union
                        (IF b \in (IF IsEval THEN DOMAIN got ELSE {})
                         THEN {[task |-> task, shown |-> got[b].version, lines |-> got[b].lines,
                                recorded |-> IF b \in MemoryArms THEN version ELSE {}]}
                         ELSE {})]
        BY <3>2, Zenon DEF ScoreTask
      <4>2. a \in Arms
        OBVIOUS
      <4>. QED  BY <4>1, <4>2
    <3>. QED  BY <3>1, <3>2
  <2>2. CASE s \in seen[a]
    BY <1>2, <2>2 DEF HashInv, PromotedEarlier
  <2>3. CASE a \in DOMAIN got /\ s = result
    <3>1. got[a].version = version
      BY <1>1, <2>3 DEF ShownInv, AfterArms, ShownNow, Placebos
    <3>. QED  BY <1>1, <2>3, <3>1 DEF HashInv, AfterArms
  <2>. QED  BY <2>1, <2>2, <2>3
<1>3. PromotedEarlier'
  BY <1>1, <1>2 DEF PromotedEarlier, Store!At
<1>4. \A m \in objects : m.input_hashes \subseteq 1 .. task' /\ task' \notin m.input_hashes
  BY <1>1 DEF HashInv
<1>. QED  BY <1>1, <1>3, <1>4 DEF HashInv, AfterArms

LEMMA HashStep ==
    ASSUME PairedInv, VersionInv, ShownInv, PatternInv, EvidenceFed, HashInv,
           LearnsOnly, Learning => FreshInv, Schedule = 1,
           TickTask("score") => \A m \in objects' \ objects : task \in m.input_hashes,
           [RollingNext]_rollingVars
    PROVE  HashInv'
<1>1. CASE BeginTask
  <2>1. pc = "next" /\ pc' = "arms" /\ version' = pinned /\ UNCHANGED <<task, objects, seen>>
    BY <1>1 DEF BeginTask, vars, resultVars
  <2>2. Store!At(version') = objects
    BY <2>1, AllLive DEF VersionInv, Visible, Store!At
  <2>3. \A m \in objects : \A t \in m.input_hashes : t < task
    BY <2>1 DEF HashInv, PairedInv
  <2>. QED  BY <2>1, <2>2, <2>3 DEF HashInv, PromotedEarlier, Store!At
<1>2. CASE \/ Stop \/ RetryControl \/ ArmsDone \/ Restore \/ FreezeAtEnd
           \/ UNCHANGED rollingVars \/ \E a \in Arms : LocalizeArm(a)
  <2>1. /\ UNCHANGED <<task, objects, seen, version>>
        /\ \/ pc' = pc
           \/ pc' \in {"stopped", "done"}
           \/ pc = "arms" /\ pc' = "restore"
           \/ pc = "restore" /\ pc' \in {"ingest", "score"}
    BY <1>2 DEF Stop, RetryControl, ArmsDone, Restore, FreezeAtEnd, Freeze, Store!RecordVersion,
                rollingVars, LocalizeArm, PinFor, Pin, vars, driverVars, armVars, resultVars
  <2>. QED  BY <2>1, HashStays DEF AfterArms
<1>3. CASE LearnStep
  <2>1. UNCHANGED <<armVars, resultVars, consecutive>>
    BY <1>3, LearnControl
  <2>2. Learning /\ FreshInv
    BY <1>3, LearnControl DEF LearnsOnly
  <2>3. CASE TickTask("score")
    BY <2>1, <2>2, <2>3, HashTick
  <2>4. CASE IngestNext \/ Publish \/ Show("score")
    <3>1. /\ UNCHANGED <<task, objects, seen, version>>
          /\ \/ pc = "ingest" /\ pc' = "ingest"
             \/ pc \in {"publish", "show"} /\ pc' \in {"show", "score"}
      BY <2>1, <2>4 DEF IngestNext, IngestAdmit, IngestReinforce, IngestDiscard, Observe, Publish,
                        Snapshot, Store!RecordVersion, Show, Pin, armVars, resultVars
    <3>. QED  BY <3>1, HashStays DEF AfterArms
  <2>. QED  BY <1>3, <2>3, <2>4 DEF LearnStep
<1>4. CASE ScoreTask
  BY <1>4, HashScore
<1>. QED  BY <1>1, <1>2, <1>3, <1>4 DEF RollingNext

\* AsOfPreviousTask: under a policy that never merges entries and asks for
\* evidence, as both shipped policies do, a memory arm is shown exactly what
\* the tasks before its own have taught, whatever failed, expired or was pinned
\* in between (RepoPipeline.rolling: "the snapshot as of t-1").  Where entries
\* merge, a cluster may become promotable without a record of the task at hand,
\* as its seed expires.
THEOREM ArmsSeeEarlierTasks ==
    ASSUME Symmetric, NeverMerges, AsksEvidence
    PROVE  RollingSpec => []AsOfPreviousTask
<1>. DEFINE Safe == RunInv /\ VersionInv /\ ShownInv /\ PatternInv /\ EvidenceFed /\ EvidenceUsedOnce
            When == Schedule = 1 => SettledInv /\ HashInv
<1>1. RollingInit => Safe /\ When
  <2>. SUFFICES ASSUME RollingInit PROVE Safe /\ When
    OBVIOUS
  <2>1. DOMAIN buffer = {} /\ objects = {} /\ DOMAIN supersededBy = {}
        /\ pc = "next" /\ frozen = FALSE /\ \A a \in Arms : seen[a] = {}
    BY DEF RollingInit, DriverInit, Init, Store!StoreInit
  <2>2. VersionInv /\ PatternInv
    BY <2>1 DEF RollingInit, DriverInit, Init, VersionInv, Visible, Store!At, Live, Store!Live, PatternInv
  <2>3. ShownInv
    BY <2>1, PipelineAssumption DEF ShownInv, AfterArms, ShownAsRecorded, PlacebosMatch, Placebos
  <2>4. SettledInv /\ HashInv
    BY <2>1, PipelineAssumption DEF SettledInv, HashInv, PromotedEarlier, AfterArms
  <2>5. EvidenceFed /\ EvidenceUsedOnce
    BY KernelStarts DEF RollingInit, DriverInit
  <2>. QED  BY <2>2, <2>3, <2>4, <2>5, RunStarts
<1>2. Safe /\ When /\ [RollingNext]_rollingVars => (Safe /\ When)'
  <2>. SUFFICES ASSUME Safe, When, [RollingNext]_rollingVars PROVE (Safe /\ When)'
    OBVIOUS
  <2>1. [FreshCalls]_vars /\ RunInv'
    BY RunStep
  <2>2. EvidenceFed' /\ EvidenceUsedOnce'
    BY <2>1, EvidenceStep DEF RunInv, KernelInv
  <2>3. VersionInv' /\ ShownInv'
    BY VersionStep, ShownStep DEF RunInv, DriverInv
  <2>4. PatternInv'
    BY PatternStep DEF RunInv, DriverInv
  <2>5. ASSUME Schedule = 1
        PROVE  SettledInv' /\ HashInv'
    <3>1. SettledInv'
      BY <2>1, <2>4, <2>5, SettledStep
    <3>2. TickTask("score") => \A m \in objects' \ objects : task \in m.input_hashes
      BY <2>1, <2>4, <2>5, SettledTick DEF RunInv
    <3>3. HashInv'
      BY <2>5, <3>2, HashStep DEF RunInv, DriverInv
    <3>. QED  BY <3>1, <3>3
  <2>. QED  BY <2>1, <2>2, <2>3, <2>4, <2>5
<1>3. Safe /\ When => AsOfPreviousTask
  <2>. SUFFICES ASSUME ShownInv, When PROVE AsOfPreviousTask
    OBVIOUS
  <2>1. Schedule # 1 => PromotedEarlier
    BY DEF PromotedEarlier
  <2>. QED  BY <2>1 DEF ShownInv, HashInv, AsOfPreviousTask
<1>. HIDE DEF Safe, When
<1>. QED  BY <1>1, <1>2, <1>3, PTL DEF RollingSpec
-----------------------------------------------------------------------------
\* One tick per task at most, so that the chain is shorter than the TTL; and
\* without learning there is nothing to account for.
TimeInv ==
    /\ tick <= task
    /\ pc \in {"next", "arms", "restore", "ingest"} => tick < task
    /\ pc \in {"arms", "restore", "ingest"} => task <= NTasks
    /\ ~ Learning => answered = {} /\ fed = {}

LEMMA TimeStep ==
    ASSUME LearnsOnly, PairedInv, TimeInv, tick \in Nat, [RollingNext]_rollingVars
    PROVE  TimeInv'
<1>. USE PipelineAssumption
<1>0. task \in Nat \ {0}
  BY DEF PairedInv
<1>1. CASE \/ BeginTask \/ Stop \/ FreezeAtEnd \/ ArmsDone \/ UNCHANGED rollingVars
  BY <1>0, <1>1 DEF BeginTask, Stop, FreezeAtEnd, Freeze, ArmsDone, rollingVars, vars, driverVars, TimeInv
<1>2. CASE RetryControl \/ \E a \in Arms : LocalizeArm(a)
  <2>1. UNCHANGED <<tick, task, fed>> /\ pc = "arms" /\ pc' \in {"arms", "restore"}
    BY <1>2 DEF RetryControl, LocalizeArm, PinFor, Pin, vars
  <2>2. ~ Learning => answered' = answered
    BY <1>2 DEF RetryControl, LocalizeArm, Answer, NoAnswerNow
  <2>. QED  BY <2>1, <2>2 DEF TimeInv
<1>3. CASE Restore
  BY <1>0, <1>3 DEF Restore, Pin, TimeInv
<1>4. CASE LearnStep
  <2>1. /\ Learning /\ task' = task
        /\ pc \in {"ingest", "publish", "show"}
    BY <1>4, LearnControl DEF LearnsOnly
  <2>2. \/ tick' = tick /\ pc' \in {"ingest", "show", "score"} /\ (pc' = "ingest" => pc = "ingest")
        \/ tick' = tick + 1 /\ pc = "ingest" /\ pc' \in {"publish", "score"}
    BY <1>4 DEF LearnStep, IngestNext, IngestAdmit, IngestReinforce, IngestDiscard, Observe,
                TickTask, AnyTick, TickOnly, TickAndPromote, Publish, Snapshot, Show, Pin
  <2>. QED  BY <1>0, <2>1, <2>2 DEF TimeInv
<1>5. CASE ScoreTask
  <2>1. UNCHANGED <<tick, fed, answered>> /\ pc' = "next" /\ task' = task + 1
    BY <1>5 DEF ScoreTask, vars
  <2>. QED  BY <1>0, <2>1 DEF TimeInv
<1>. QED  BY <1>1, <1>2, <1>3, <1>4, <1>5 DEF RollingNext

LEMMA PlaceStep ==
    ASSUME Keyed, NeverMerges, Theta < Scale, RunInv, VersionInv, PatternInv, EvidenceFed,
           EvidenceUsedOnce, IsFiniteSet(fed), IsFiniteSet(fed'), TimeInv, PlaceInv,
           [RollingNext]_rollingVars
    PROVE  PlaceInv'
<1>1. ASSUME UNCHANGED <<buffer, objects, fed>>
      PROVE  PlaceInv'
  BY <1>1 DEF PlaceInv, Taught, EvidenceAt
<1>2. CASE \/ BeginTask \/ Stop \/ RetryControl \/ ArmsDone \/ Restore \/ ScoreTask
           \/ FreezeAtEnd \/ Publish \/ Show("score") \/ UNCHANGED rollingVars
           \/ \E a \in Arms : LocalizeArm(a)
  <2>1. UNCHANGED <<buffer, objects, fed>>
    BY <1>2 DEF BeginTask, Stop, RetryControl, ArmsDone, Restore, ScoreTask, FreezeAtEnd, Freeze,
                Publish, Snapshot, Store!RecordVersion, Show, LocalizeArm, PinFor, Pin,
                rollingVars, vars
  <2>. QED  BY <1>1, <2>1
<1>3. CASE IngestNext
  <2>1. FreshInv
    BY <1>3 DEF IngestNext, RunInv, DriverInv, LearnsOnly
  <2>2. Visible = Live
    BY <1>3 DEF VersionInv, IngestNext
  <2>. QED  BY <1>3, <2>1, <2>2, PlaceIngest DEF RunInv
<1>4. CASE TickTask("score")
  <2>1. tick < NTasks
    <3>1. tick < task /\ task <= NTasks /\ task \in Nat /\ tick \in Nat
      BY <1>4 DEF TickTask, TimeInv, RunInv, DriverInv, PairedInv, KernelInv, TypeOK
    <3>. QED  BY <3>1, PipelineAssumption
  <2>. QED  BY <1>4, <2>1, PlaceTick DEF TickTask, RunInv
<1>. QED  BY <1>2, <1>3, <1>4 DEF RollingNext, LearnStep

\* LearnsExactly: with the similarity of the registered consolidation, under a
\* policy that never merges entries and asks for evidence, what is in memory
\* between tasks is what the control's answers suffice for, place by place, and
\* so independent of the arms, of their order and of what failed in them
\* (RepoPipeline.rolling; FileKeyedSimilarity, FunctionKeyedSimilarity).
THEOREM LearningIsExact ==
    ASSUME NeverMerges, Theta < Scale, AsksEvidence
    PROVE  RollingSpec => []LearnsExactly
<1>. DEFINE Safe == /\ RunInv /\ VersionInv /\ EvidenceFed /\ EvidenceUsedOnce
                    /\ EvidenceSuffices /\ IsFiniteSet(fed) /\ TimeInv
            When == Keyed => PatternInv /\ SettledInv /\ PlaceInv
<1>1. RollingInit => Safe /\ When
  <2>. SUFFICES ASSUME RollingInit PROVE Safe /\ When
    OBVIOUS
  <2>1. /\ Init /\ DOMAIN buffer = {} /\ objects = {} /\ DOMAIN supersededBy = {} /\ fed = {}
        /\ pc = "next" /\ frozen = FALSE /\ tick = 0 /\ task = 1 /\ answered = {}
    BY DEF RollingInit, DriverInit, Init, Store!StoreInit
  <2>2. VersionInv
    BY <2>1 DEF Init, VersionInv, Visible, Store!At, Live, Store!Live
  <2>3. PatternInv /\ SettledInv /\ PlaceInv /\ TimeInv /\ EvidenceSuffices
    BY <2>1 DEF PatternInv, SettledInv, PlaceInv, TimeInv, EvidenceSuffices
  <2>4. EvidenceFed /\ EvidenceUsedOnce /\ IsFiniteSet(fed)
    BY <2>1, KernelStarts, FS_EmptySet
  <2>. QED  BY <2>2, <2>3, <2>4, RunStarts
<1>2. Safe /\ When /\ [RollingNext]_rollingVars => (Safe /\ When)'
  <2>. SUFFICES ASSUME Safe, When, [RollingNext]_rollingVars PROVE (Safe /\ When)'
    OBVIOUS
  <2>1. [FreshCalls]_vars /\ RunInv'
    BY RunStep
  <2>2. EvidenceFed' /\ EvidenceUsedOnce' /\ EvidenceSuffices' /\ IsFiniteSet(fed')
    BY <2>1, EvidenceStep, SufficesStep DEF RunInv, KernelInv
  <2>3. VersionInv' /\ TimeInv'
    BY VersionStep, TimeStep DEF RunInv, DriverInv, KernelInv, TypeOK
  <2>4. ASSUME Keyed
        PROVE  PatternInv' /\ SettledInv' /\ PlaceInv'
    <3>1. Symmetric /\ Schedule = 1
      BY <2>4, KeyedPlaces DEF Keyed
    <3>2. PatternInv'
      BY <2>4, <3>1, PatternStep DEF RunInv, DriverInv
    <3>3. SettledInv'
      BY <2>1, <2>4, <3>1, <3>2, SettledStep
    <3>4. PlaceInv'
      BY <2>2, <2>4, PlaceStep
    <3>. QED  BY <3>2, <3>3, <3>4
  <2>. QED  BY <2>1, <2>2, <2>3, <2>4
<1>3. Safe /\ When => LearnsExactly
  <2>. SUFFICES ASSUME Safe, When, Keyed, pc = "next"
                PROVE  /\ {LocationOf(m.content) : m \in Live} =
                              {place \in {LocationOf(c) : c \in Content} : Suffices(place)}
                       /\ \A m, n \in Live :
                             LocationOf(m.content) = LocationOf(n.content) => m = n
    BY DEF LearnsExactly
  <2>1. fed = answered
    BY RollingAssumption DEF RunInv, DriverInv, FeedInv, FedInv, TimeInv
  <2>2. ASSUME NEW place
        PROVE  Suffices(place) <=> Taught(place)
    <3>1. EvidenceAt(place) = {r \in answered \intersect Eligible : LocationOf(ContentOf[r]) = place}
      BY <2>1 DEF EvidenceAt, Place
    <3>. QED  BY <3>1 DEF Suffices, Taught
  <2>3. Live = objects /\ \A m \in objects : m.content \in Content
    BY AllLive DEF PatternInv
  <2>4. \A m \in objects : Taught(LocationOf(m.content))
    BY DEF PlaceInv
  <2>5. \A place : Taught(place) => \E m \in objects : LocationOf(m.content) = place
    BY TaughtIsLive DEF RunInv
  <2>6. ASSUME NEW m \in objects, NEW n \in objects, m # n
        PROVE  LocationOf(m.content) # LocationOf(n.content)
    BY <2>3, <2>6, KeyedPlaces DEF PatternInv
  <2>. QED  BY <2>2, <2>3, <2>4, <2>5, <2>6
<1>. HIDE DEF Safe, When
<1>. QED  BY <1>1, <1>2, <1>3, PTL DEF RollingSpec
=============================================================================
