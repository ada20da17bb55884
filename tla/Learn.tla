------------------------------- MODULE Learn -------------------------------
(***************************************************************************)
(* Phase 3, RepoPipeline.learn: the build tasks in order, each localized   *)
(* with the memory promoted so far, its flags learned from, one tick per   *)
(* task, and the memory frozen at the end.                                 *)
(***************************************************************************)
EXTENDS Pipeline

learnVars == <<vars, driverVars>>

\* The verifier answers with whatever the memory it is shown leads it to.
LocalizeAnswers ==
    /\ pc = "next" /\ task <= NTasks
    /\ pc' = "ingest"
    /\ \E flags \in Answers[task] :
          /\ Propose(flags, vclock)
          /\ answered' = answered \union Elements(flags)
    /\ UNCHANGED <<vars, task, learnErrors>>

\* A task whose call fails contributes no records.
LocalizeFails ==
    /\ pc = "next" /\ task <= NTasks
    /\ pc' = "skip"
    /\ learnErrors' = learnErrors \union {task}
    /\ UNCHANGED <<vars, task, pending, agentClock, answered>>

\* The tick of a skipped task: its result is not looked at.
SkipTask ==
    /\ pc = "skip"
    /\ AnyTick
    /\ task' = task + 1
    /\ pc' = "next"
    /\ UNCHANGED <<pending, agentClock, learnErrors, answered>>

EndTask ==
    /\ pc = "end"
    /\ task' = task + 1
    /\ pc' = "next"
    /\ UNCHANGED <<vars, pending, agentClock, learnErrors, answered>>

FreezeAtEnd ==
    /\ pc = "next" /\ task > NTasks
    /\ Freeze
    /\ pc' = "done"
    /\ UNCHANGED <<task, pending, agentClock, learnErrors, answered>>

LearnNext ==
    \/ LocalizeAnswers \/ LocalizeFails \/ SkipTask
    \/ IngestNext \/ TickTask("end") \/ Publish \/ Show("end")
    \/ EndTask \/ FreezeAtEnd
=============================================================================
