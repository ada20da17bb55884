------------------------------ MODULE Campaign -------------------------------
(***************************************************************************)
(* An experiment from its corpus to its reports: a corpus is imported once *)
(* and read by every process (module Corpus); the repositories are divided *)
(* over runs that know nothing of each other, each in a directory of its   *)
(* own; a run either learns and then evaluates (phase3/learn.py,           *)
(* phase4/evaluate.py) or does both as it goes (phase4/rolling.py), one    *)
(* repository after another, and may be killed; what is left in the        *)
(* directories is merged and analysed (module Scores).                     *)
(*                                                                         *)
(* What happens within a repository is the subject of modules Pipeline,    *)
(* Learn, Rolling and Evaluate.  Here the verifier's answers are free, and *)
(* any task may fail.                                                      *)
(***************************************************************************)
EXTENDS Scores, Handcheck

CONSTANTS
    Setups,            \* the experiments: how, rows, gated, gatedRun, design, level, runs
    Warmup,            \* --warmup
    Answers(_, _, _)   \* repository, arm, level: the flags a verifier may answer

\* A setup's rows have each one date, which is parsed to one day or none; ids and
\* the texts of dates are in the order of strings.  Patches are of commits of the
\* repository, and what is not a source file is read as no lines.
ASSUME SetupsAssumption ==
    /\ Warmup \in Nat
    /\ \A x \in Setups :
          /\ x.how \in {"history", "load", "pull", "pull_all"}
          /\ IsFiniteSet(DOMAIN x.runs) /\ x.gated \in BOOLEAN
          /\ x.rows \in Seq(Range(x.rows))
          /\ \A t \in Range(x.rows) :
                /\ t.id \in Int /\ t.created.text \in Int /\ t.created.instant \in Int
                /\ t.created.day \in SUBSET Int /\ \A d, e \in t.created.day : d = e
                /\ IsPatch(t.patch) /\ t.base \in Commits /\ t.parent \subseteq Commits
                /\ \A c \in Commits, line \in Range(t.patch) :
                      line.path \in SourceFiles \/ SourceAt(c, line.path) = {}

ASSUME AnswersAssumption ==
    \A x \in Setups : \A s \in DOMAIN x.runs : \A r \in x.runs[s], a \in Arms :
        \A flags \in Answers(r, a, x.level) : flags \in Seq(Range(flags))

VARIABLES
    setup,             \* the experiment
    corpus,            \* tasks.jsonl: {} or the set of its sequence of rows
    pc,                \* run |-> "idle", "learn", "evaluate", "over" or "dead"
    chains,            \* run |-> repository |-> its chain and where it is divided
    kernels,           \* run |-> repository |-> the tasks its kernel.json is from
    arms,              \* run |-> the arms.json files of its directory
    gate4,             \* run |-> its gate4.json: {} or the set of the report
    merged,            \* {} or the set of [files, report] of the aggregate
    paired,            \* {} or the set of the paired analysis of the aggregate
    sources            \* history: <<task, the tasks its memory may be from>>

campaignVars == <<setup, corpus, pc, chains, kernels, arms, gate4, merged, paired, sources>>

Runs == DOMAIN setup.runs

CampaignInit ==
    /\ setup \in Setups
    /\ corpus = {}
    /\ pc = [s \in Runs |-> "idle"]
    /\ chains = [s \in Runs |-> [r \in {} |-> {}]]
    /\ kernels = [s \in Runs |-> [r \in {} |-> {}]]
    /\ arms = [s \in Runs |-> {}]
    /\ gate4 = [s \in Runs |-> {}]
    /\ merged = {} /\ paired = {} /\ sources = {}
-----------------------------------------------------------------------------
ImportCorpus ==
    /\ corpus = {}
    /\ corpus' = IF setup.how = "history" THEN {BuildHistory(setup.rows)}
                 ELSE Import(setup.how, setup.gated, setup.rows)
    /\ UNCHANGED <<setup, pc, chains, kernels, arms, gate4, merged, paired, sources>>

\* The tasks as a process reads them, if the file can be read; split.json is
\* made from the file as it is, without the gate of a run.
Chains(tasks, repos) ==
    LET gated == IF setup.gatedRun THEN ApplyFreshness(tasks) ELSE tasks
        split == MakeSplit(tasks)
        chain == [r \in repos |-> Chain(gated, r)]
        chosen == {r \in repos : chain[r] # << >>
                                 /\ (setup.design = "split" => r \in DOMAIN split)}
    IN  [r \in chosen |->
            [tasks |-> chain[r],
             built |-> Min({Len(chain[r]), IF setup.design = "split" THEN split[r] ELSE Warmup})]]

Start(s) ==
    /\ pc[s] = "idle"
    /\ \E rows \in corpus : \E tasks \in ReadTasks(rows) :
          chains' = [chains EXCEPT ![s] = Chains(tasks, setup.runs[s])]
    /\ pc' = [pc EXCEPT ![s] = IF setup.design = "split" THEN "learn" ELSE "evaluate"]
    /\ UNCHANGED <<setup, corpus, kernels, arms, gate4, merged, paired, sources>>

\* Chain.split
BuildTasks(chain) == SubSeq(chain.tasks, 1, chain.built)
EvalTasks(chain) == SubSeq(chain.tasks, chain.built + 1, Len(chain.tasks))
-----------------------------------------------------------------------------
LearnRepo(s, r) ==
    /\ pc[s] = "learn"
    /\ r \in DOMAIN chains[s] \ (DOMAIN kernels[s] \union {Negative})
    /\ kernels' = [kernels EXCEPT ![s] =
                     [q \in DOMAIN kernels[s] \union {r} |->
                         IF q = r THEN Range(BuildTasks(chains[s][r])) ELSE kernels[s][q]]]
    /\ UNCHANGED <<setup, corpus, pc, chains, arms, gate4, merged, paired, sources>>

\* Phase 4 begins when Phase 3 is over, or was killed: a repository without a
\* kernel.json is evaluated with an empty memory.
BeginEvaluation(s) ==
    /\ pc[s] = "learn"
    /\ pc' = [pc EXCEPT ![s] = "evaluate"]
    /\ UNCHANGED <<setup, corpus, chains, kernels, arms, gate4, merged, paired, sources>>

\* The tasks that the memory shown for the i-th task of a chain may be from
MemoryOf(s, r, i) ==
    IF r = Negative THEN {}
    ELSE IF setup.design = "rolling" THEN {chains[s][r].tasks[j] : j \in 1 .. i - 1}
    ELSE UNION {kernels[s][q] : q \in DOMAIN kernels[s] \intersect {r}}

\* Every arm answers, or the task is dropped from all of them.
EvaluateRepo(s, r) ==
    LET chain == chains[s][r]
        answer == {x \in [Arms -> UNION {Answers(r, a, setup.level) : a \in Arms}] :
                      \A a \in Arms : x[a] \in Answers(r, a, setup.level)}
    IN  /\ pc[s] = "evaluate"
        /\ r \in DOMAIN chains[s] /\ \A f \in arms[s] : f.repo # r
        /\ \E answered \in SUBSET Range(EvalTasks(chain)) : \E answers \in [answered -> answer] :
              arms' = [arms EXCEPT ![s] = @ \union {ArmsFile(s, r, answers, setup.level)}]
        /\ sources' = sources \union
              {<<chain.tasks[i], MemoryOf(s, r, i)>> :
                  i \in chain.built + 1 .. Len(chain.tasks)}
        /\ UNCHANGED <<setup, corpus, pc, chains, kernels, gate4, merged, paired>>

\* A run that did every repository writes its report.
Finish(s) ==
    /\ pc[s] = "evaluate"
    /\ DOMAIN chains[s] = {f.repo : f \in arms[s]}
    /\ pc' = [pc EXCEPT ![s] = "over"]
    /\ gate4' = [gate4 EXCEPT ![s] = Report(arms[s])]
    /\ UNCHANGED <<setup, corpus, chains, kernels, arms, merged, paired, sources>>

\* A run that is killed leaves the files that it has written.
Kill(s) ==
    /\ pc[s] = "evaluate"
    /\ pc' = [pc EXCEPT ![s] = "dead"]
    /\ UNCHANGED <<setup, corpus, chains, kernels, arms, gate4, merged, paired, sources>>
-----------------------------------------------------------------------------
Merge(dirs) ==
    LET files == UNION {arms[s] : s \in dirs}
    IN  /\ merged = {}
        /\ \A s \in dirs : pc[s] \in {"over", "dead"}
        /\ Mergeable(files)
        /\ merged' = {[files |-> files, report |-> Report(files)]}
        /\ UNCHANGED <<setup, corpus, pc, chains, kernels, arms, gate4, paired, sources>>

Analyse ==
    /\ paired = {} /\ merged # {}
    /\ paired' = {Paired(m.files) : m \in merged}
    /\ UNCHANGED <<setup, corpus, pc, chains, kernels, arms, gate4, merged, sources>>

CampaignNext ==
    \/ ImportCorpus
    \/ \E s \in Runs :
          \/ Start(s) \/ BeginEvaluation(s) \/ Finish(s) \/ Kill(s)
          \/ \E r \in setup.runs[s] : LearnRepo(s, r) \/ EvaluateRepo(s, r)
    \/ \E dirs \in SUBSET Runs : Merge(dirs)
    \/ Analyse

CampaignSpec == CampaignInit /\ [][CampaignNext]_campaignVars
-----------------------------------------------------------------------------
(***************************************************************************)
(* Properties                                                              *)
(***************************************************************************)
\* What the reports are about, one by one: the answers of an arm outside the
\* negative control that count
Scored(files, a) ==
    {x \in UNION {{<<t, f.answers[t][a]>> : t \in DOMAIN f.answers} :
                     f \in {g \in files : g.repo # Negative}} :
        Gold(x[1], setup.level) # {}}

Hitting(x) == \E i \in DOMAIN x[2] : Label(x[1], setup.level, x[2][i]) = "bad"

CountsOf(files, a) ==
    LET scored == Scored(files, a)
        flags == UNION {{<<x[1], x[2][i], i>> : i \in DOMAIN x[2]} : x \in scored}
    IN  [tasks |-> Cardinality({x[1] : x \in scored}),
         localized |-> Cardinality({x \in scored : Hitting(x)}),
         flags |-> Cardinality(flags),
         falsePositives |->
            Cardinality({y \in flags : Label(y[1], setup.level, y[2]) = "good"})]

Counts(files, report) ==
    \A a \in DOMAIN report : /\ report[a].arm = CountsOf(files, a)
                             /\ report[a].control = CountsOf(files, "control")

\* (phase4/aggregate.py: "Sharding by repository is exact") However the
\* repositories were divided over runs, and whichever runs were killed, a report
\* counts every answered task once, for every arm, as the oracle labels its
\* flags, and the negative control's never.
ReportCountsEveryTaskOnce ==
    /\ \A s \in Runs : \A report \in gate4[s] : Counts(arms[s], report)
    /\ \A m \in merged : \A report \in m.report : Counts(m.files, report)

\* The paired analysis is about the same tasks as the report, but for those
\* whose truth is empty, and its discordant pairs add up to the report's
\* difference.
PairedAgreesWithReport ==
    \A p \in paired, m \in merged : \A report \in m.report : \A a \in DOMAIN report :
        LET empty == {x \in Scored(m.files, a) : {} \in Gold(x[1], setup.level)}
        IN  /\ p[a].tasks = report[a].arm.tasks - Cardinality(empty)
            /\ p[a].control = report[a].control.localized
            /\ p[a].arm = report[a].arm.localized
            /\ p[a].armOnly - p[a].controlOnly
                  = report[a].arm.localized - report[a].control.localized

\* (phase0/chains.py: "Chronological split ... Never random (spec 8, temporal
\* leakage)") The memory that is shown for a task is from other tasks, none of
\* which was created later.
NoLookahead ==
    \A x \in sources : \A t \in x[2] :
        /\ t.id # x[1].id
        /\ t.created.instant <= x[1].created.instant

\* (phase0/freshness_gate.py: "A task is admissible iff its creation date is
\* strictly after the training cutoff of EVERY model") Behind the gate of a run
\* every task is fresh, memory's too.  The gate of the import is enough when the
\* import drops duplicates; one split that is pulled as it is keeps both tasks of
\* an id if either is admitted.
OnlyFreshTasks ==
    setup.gatedRun \/ (setup.gated /\ setup.how \in {"load", "pull_all"}) =>
        \A x \in sources : \A t \in {x[1]} \union x[2] :
            t.created.day # {} /\ \A day \in t.created.day, c \in Cutoffs : day > c + Margin

\* (phase0/functions.py: "The innermost indexed span containing a line wins") A
\* flag that names a symbol is right exactly when a hunk of a source file has a
\* line whose innermost symbol has that name, line 0 standing for line 1; at
\* module level a hunk at line 0 is never hit.  (The corpus is not written again.)
FunctionHitIffTouched ==
    (\A s \in Runs : pc[s] = "idle") =>
    \A rows \in corpus : \A t \in Range(rows) : Gold(t, "function") # {} =>
        \A path \in SourceFiles \ TestFiles : \A flag \in SymbolFlags(t.base, path) :
            Label(t, "function", flag) = "bad" <=>
                \E h \in SourceHunks(t.patch) :
                    /\ h.path = path
                    /\ \E line \in Max({1, h.first}) .. Max({1, h.first, h.last}) :
                          SymbolAt(SpansAt(t.base, path), line) = flag.symbol
                    /\ flag.symbol = Module => h.last > 0

\* (phase2/handcheck.py: "Disagreement with phase0.ground_truth flags an oracle
\* bug") The second parsers agree with the oracle on every flagged file and every
\* hunk of a task, but where one of them has to be wrong.
HandcheckAgrees ==
    (\A s \in Runs : pc[s] = "idle") =>
    \A rows \in corpus : \A t \in Range(rows) :
        /\ PlainPatch(t.patch) =>
              \A path \in SourceFiles \union TestFiles :
                  FileRow(t, path).oracle = FileRow(t, path).manual
        /\ \A h \in ParsePatch(t.patch).hunks :
              (\A lines \in SourceAt(t.base, h.path) : PlainSource(lines)) =>
                  FunctionRow(t, h).oracle = FunctionRow(t, h).manual
=============================================================================
