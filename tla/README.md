# A TLA+ development of the consolidated-memory experiment

The repository builds a *memory kernel* (`memkernel/`) and an experiment around
it: a verifier, a language model behind a response cache, localizes defects in
the history of a repository, its correct flags are consolidated into memory, and
arms with and without that memory are compared. This directory holds TLA+
modules of the kernel, of the processes of the experiment and of what it is
measured by, the instances TLC checks, and proofs that TLAPS checks, about the
kernel, its replay, the client, the control run, the drivers and the experiment.
Paths below are relative to the repository.

## 1. Inventory

### Components, their state and operations

| component | state | operations | what makes it correct |
|---|---|---|---|
| vector clock (`memkernel/vclock.py`) | a map agent -> count | zero, tick, merge, <=, happens_before, concurrent | a partial order that every event extends |
| store (`store.py`, `records.py`) | objects, successor index, versions | put, supersede, live, freeze, at | append-only; one successor each; a version shows for ever what was live when it was recorded |
| buffer (`buffer.py`) | entries in insertion order, with age and support | add, reinforce, expire, remove | no entry past its TTL; no two entries of one pattern; evidence in one place |
| gates (`gates.py`) | none | evaluate, cluster, run | enough distinct, eligible, independent evidence; contradictions respected; nothing promotable left behind |
| kernel (`kernel.py`) | buffer, store, clock, tick, pin, frozen | ingest, tick, promote, supersede, freeze, snapshot, pin, retrieve | readers see the pinned version only; nothing is learned once frozen; causal order |
| ledger and replay (`ledger.py`, `replay.py`, `canon.py`) | chain of entries, trace | append, apply, replay, compare | a replayed trace rebuilds the kernel and the chain |
| persistence (`persist.py`) | `kernel.json` | dump, save, load | what is loaded shows what was frozen |
| pipeline (`adapters/code/pipeline.py`) | agent clock, errors, results per arm | learn, evaluate_arms, rolling | the memory of a task is that of the tasks before it; arms are paired; learning is independent of the arms |
| model client (`phase0/verifier.py`) | cache file, cache, remembered mode | complete, retries, fallback | an answer that was given is given again; calls end |
| localizers, control run (`verifier.py`, `run_control.py`) | checkouts, index cache, flags, errors | checkout, localize in one or two stages, score, repeat offline | flags are of the tree before the patch; a killed run and a repetition give the same flags |
| corpus (`corpus.py`, `repo_corpus.py`, `chains.py`, `freshness_gate.py`, `make_split.py`) | `tasks.jsonl`, `split.json` | pull, load, build, gate, chain, split | chronological, without duplicates, strictly after the cutoff |
| truth and oracle (`ground_truth.py`, `functions.py`, `oracle.py`) | memoised locations | parse a patch, index a source, label a flag | a flag is right exactly when it names what the patch touches |
| hand check (`phase2/handcheck.py`) | rows of a csv | export, verify | agrees with the oracle, or one of them is wrong |
| metrics, reports (`metrics.py`, `report.py`, `aggregate.py`, `paired.py`) | counters, result files | score, lift, merge, aggregate, analyse | totals over shards are those of one run; rates and tests are about the same tasks |
| similarity seams (`similarity.py`) | a cache of embeddings | sim | two records are one pattern exactly if they name one place |
| tools (`phase2/`, `phase3/diagnose.py`, ...) | none | offline analyses | out of scope |

### How they interact

Each process is sequential Python. A driver (`learn`, `rolling`,
`evaluate_arms`) takes tasks one by one; for each it pins a version, retrieves
from the kernel, calls the localizer, which calls the cached client, which calls
the model; it turns flags into records and ingests them; it ticks the kernel
once, and after a promotion takes a snapshot and pins it. The kernel calls its
gates, which call the seams (similarity, oracle, contradiction), deterministic
functions, and appends to the ledger and the trace. Processes share files: the
corpus, the checkouts, `kernel.json`, the caches and the result files. The
repositories of an experiment are divided over jobs that know nothing of each
other and are merged afterwards; a job has a time limit
(`.github/workflows/experiment.yml`) and may be killed at any moment.

### What is hard

* **Order.** Expiry, promotion, consumption, snapshot and pin happen in a fixed
  order, and each reads what the one before wrote. The surprise gate reads the
  *pinned* memory and not the live one, so a missing pin silently duplicates
  patterns. The arms of one task move the same pin in shuffled order.
* **Partial failure.** A call may raise after it was traced, after the clock
  advanced, or after other arms have answered; the control arm is tried again.
* **Crash and restart.** A process may be killed in the middle of a write; caches
  and `kernel.json` are read whole by the next one, checkouts are where it left
  them, and shards are merged from whatever was written.
* **Stale state.** One checkout, one index cache and one response cache serve
  tasks that begin at different commits of the same files.
* **Boundaries.** TTL at the boundary tick; occurrences counted per entry;
  clustering bars on either side of the admission bar; the circuit breaker; the
  day of the cutoff; hunks of no lines, symbols within symbols, tasks without
  gold.
* **Two histories** (ledger and trace) that must tell the same story.

`PROJECT.json` lists these hazards at their lines, with the properties that
watch them, or the reason why none does yet.

## 2. Modules

| module | models | state | actions |
|---|---|---|---|
| `VClock` | `vclock.py` | – | operators on clocks |
| `MemoryStore` | `store.py` | `objects`, `supersededBy`, `versions` | `PutAll`, `Supersede`, `RecordVersion` |
| `Kernel` | `kernel.py`, `buffer.py`, `gates.py` | the store's, `buffer`, `tick`, `vclock`, `pinned`, `frozen`; history `fed` | `IngestAdmit`, `IngestReinforce`, `IngestDiscard`, `IngestRefused`, `TickOnly`, `TickAndPromote`, `Promote`, `Supersede`, `SupersedeRefused`, `Snapshot`, `Freeze`, `Pin` |
| `Beliefs` | abstract specification of the kernel | `live`, `retired`, `saved`, `visible`, `closed` | `Learn`, `Revise`, `Save`, `Show`, `Close` |
| `..._proofs` | theorems about the module they are named after | | |
| `KernelLedger` | `Kernel` with ledger and trace | `ledger`, `trace` | one `Logged...` action per outcome, and `LoggedRetrieve` |
| `Replay` | `replay.py` | a second kernel, `phase`, `applied` | `Record`, `StartReplay`, `ReplayStep`, `FinishReplay`, `SameCall` |
| `Pipeline` | what the drivers share | `pc`, `task`, `pending`, `agentClock`, `learnErrors`; history `answered` | `IngestNext`, `TickTask`, `Publish`, `Show` |
| `Learn` | `RepoPipeline.learn` | the same | `LocalizeAnswers`, `LocalizeFails`, `SkipTask`, `EndTask`, `FreezeAtEnd` |
| `Rolling` | `RepoPipeline.rolling` | `version`, `toCome`, `got`, `failed`, `consecutive`, results per arm | `BeginTask`, `Stop`, `LocalizeArm`, `RetryControl`, `ArmsDone`, `Restore`, `LearnStep`, `ScoreTask`, `FreezeAtEnd` |
| `Evaluate` | `learn`, `persist.py`, `evaluate.py` in two processes | `negative`, `file`, `torn`, `frozenVersion`, results per arm | `LearnPhase`, `Save`, `Killed`, `LoadKernel`, `LoadRaises`, `EmptyKernel`, `BeginTask`, `ArmAnswers`, `ArmFails`, `ScoreTask`, `Report` |
| `ModelClient` | `CachedClient`, `OpenAICompatibleClient`, `AnthropicClient` | cache, file, mode, the call in progress | `Hit`, `Miss`, `SdkAnswers`, `SdkRaises`, `PostAnswers`, `PostTransient`, `PostUnusable`, `PostRaises`, `StoreAnswer`, `Crash`, `CrashInRow`, `Restart` |
| `ControlRun` | `run_control.py`, `Localizer`, `LocalizerV2`, `FunctionIndexCache` over `ModelClient` | `level`, `job`, `step`, `next`, `head`, `index`, `flags`, `errors` | `BeginTask`, `CheckoutFails`, `Ask`, `CallGoesOn`, `ReadFiles`, `ReadIndex`, `ReadFunctions`, `ScoreRun`, `ScoreDies`, `CrashRun`, `RestartRun`, `RepeatOffline` |
| `Truth` | `ground_truth.py`, `functions.py`, `oracle.py` | – | `ParsePatch`, `FunctionIndex`, `Symbolise`, `Gold`, `Label` |
| `Handcheck` | `phase2/handcheck.py` | – | `FileRow`, `IndentSymbols`, `FunctionRow` |
| `Corpus` | `corpus.py`, `repo_corpus.py`, `chains.py`, `freshness_gate.py`, `make_split.py` | – | `Import`, `BuildHistory`, `ApplyFreshness`, `Chain`, `MakeSplit` |
| `Scores` | `metrics.py`, `report.py`, `aggregate.py`, `paired.py` | – | `Score`, `ArmsFile`, `Report`, `Mergeable`, `Paired` |
| `Campaign` | the processes of an experiment, over all repositories | `setup`, `corpus`, `pc`, `chains`, `kernels`, `arms`, `gate4`, `merged`, `paired`; history `sources` | `ImportCorpus`, `Start`, `LearnRepo`, `BeginEvaluation`, `EvaluateRepo`, `Finish`, `Kill`, `Merge`, `Analyse` |

`Kernel` extends `VClock` and instantiates `MemoryStore` and `Beliefs`;
`KernelLedger` extends `Kernel`, and `Replay` has two of it; `Pipeline` extends
`Kernel`, `Learn` and `Rolling` extend `Pipeline`, `Evaluate` extends `Learn`;
`ControlRun` extends `ModelClient`; `Handcheck` extends `Truth`, `Campaign` uses
`Corpus`, `Scores` and `Handcheck`. Proofs follow the same order: `KernelLedger_proofs`
and `Pipeline_proofs` extend `Kernel_proofs`; `Rolling_proofs` and `Evaluate_proofs`
extend `Pipeline_proofs`, which has what both drivers share; `Replay_proofs` extends
`KernelLedger_proofs` and has a second instance of it, for the kernel that replays;
`ControlRun_proofs` is about the client and about the control run over it.
`MC...` modules give the constants values and state the bounds. Operators whose
comment begins with *Variant* are plausible errors in the definition that
follows them; each shows that a property would notice (`PROJECT.json`,
"mutants"), and nothing else uses them.

### Correspondence

* **Ids are what they name.** A memory id is a digest of the object, a version
  the digest of the sorted ids of the live objects. Both are injective names
  here: the object itself, and the set of objects. What may be `None` is a set of
  at most one element. Every ledger hash is the sequence of what was hashed.
* **Records** are constants, with content, input, proposer and clock as functions
  of the id. Labels are reduced to `Eligible`, the records whose label the policy
  accepts.
* **Similarity** is any table of scores in `0 .. Scale`; the properties do not
  assume that it is symmetric, reflexive or transitive unless they say so.
  Scores are integers, so the rounding of floats at a bar is not modelled.
* **Insertion order** of the buffer is an entry's `pos`, the kernel's component
  of the clock at the time: it grows with every insertion, and a reinforcement
  keeps it, as assigning to an existing key of a dictionary does.
* **Drivers** are sequential programs with a `pc`. The verifier answers with any
  of the flag sequences `Answers` allows, or fails. Shuffled order is the order
  in which actions take elements out of a set.
* **A public method is one action.** Nothing runs between its statements, and
  where it raises half-way the action says what it has changed by then
  (`IngestRefused`, `SupersedeRefused`, `Logged...Refused`).
* **The text of a record** is its symptom and its location. `LocationOf` reads the
  location as the code does, from the first arrow in the text to the first `::` after
  it: the instance has an issue whose title has an arrow, so that the same file is
  another place, and one whose title has both, so that the file is not read at all.
* **What a prompt shows** of memory is how many lines (`Retrieved`, `Placebo`,
  `nPrimary`); relevance is a table of task and content.
* **A request** of `ControlRun` is what its key is made of: the issue and the files
  that are listed, or the issue and the functions that are shown. An answer is any
  of a few sequences of names, or text that is not JSON.
* **Dates** have a text, by which the code sorts, a day, by which the gate judges,
  if it can be parsed, and an instant, which the code never computes and the
  property is about.
* **A patch** is the sequence of its lines that are read, and **a source file** the
  sequence of its lines, each with its indentation and what it opens. `Truth` finds
  the end of a block as the parser of Python does, `Handcheck` as the indentation
  rule of the second symboliser does. Paths are sorted into tests and sources by
  constants; the two rules for tests that the code has are taken to agree.
* **Rates** are pairs of counts; a lift is a difference of such pairs.

## 3. Runs and bounds

| run | question | bounds |
|---|---|---|
| `kernel_shipped` | the kernel's safety properties, and the refinement of `Beliefs`, under the bars that ship | 4 records, 3 contents, 3 inputs; 8 clock events |
| `kernel_loose` | evidence, contradictions and exhaustive promotion when clusters merge, ids come again and the gate runs on every second tick | 6 records, 4 contents, 3 inputs; 6 clock events |
| `replay_recorded` | what a replay rebuilds, and how it ends | 3 records, a trace of 4 calls, one retrieval from outside |
| `rolling_arms` | Phase 4, Design A | 5 tasks, 2 places, 4 arms, a breaker at 2 failures, any call may fail |
| `evaluate_phases` | Phases 3 and 4 in two processes | 5 build and 2 evaluation tasks, 4 arms, any call may fail, a kill at any moment |
| `control_resumed` | the control run over the cached client, killed, resumed and repeated offline | 2 of 5 tasks, trees of 2 listed files, 3 responses, 2 attempts per mode, one kill |
| `campaign` | corpus, truth, hand check, shards, reports | 9 rows, 3 repositories in up to 2 runs, 3 arms, 2 possible answers per call; 374 setups, most of them one task to be measured |

The runs expected to fail (`kernel_false_positive`, `replay_same_chain`,
`replay_wall_clock`, `client_torn`, `campaign_offsets`) use the same instances
with one constant changed, or a property that a document states.

Four records of three contents allow every relation the gates tell apart:
redundant and near enough, redundant and not near enough, and distinct. Eight
events reach promotion, supersession, freeze and what follows. In the loose
instance two records of one pattern stand between two false positives that
cluster, and two others are apart, so that a record can support two entries of a
cluster and two clusters can be promotable at once; six events are the least
for two promotions with evidence of two records each. A trace of four calls
reaches a memory that is pinned and one that is superseded twice (the policy of
that instance promotes on one record). A pattern needs two tasks of evidence and
two more to be promoted a second time: four tasks show a duplicate, and five
leave room for the warm-up, or for one title that makes its task another pattern. Two placebo arms in `evaluate_phases` are the least
in which the second reuses the first one's count; `rolling_arms` has a gated arm
instead, whose own number of lines must not be taken for the treatment's. A
kernel run is bounded by the number of clock events and not by a depth, so every
order of calls within it is explored.

The two tasks of `control_resumed` have one issue and one file in common, at
commits where its functions are elsewhere: whatever is reused of the first task
for the second shows. The second tree has more source files than are listed, the
corpus has tasks of other repositories, and one too late for the limit. One kill
in any step is enough to meet every file half-way, as a second one starts from the
same kind of state. The rows of `campaign` have two tasks of one id with different
dates, a task of the cutoff day, one without a date, one without gold, and, in the
history, commits listed out of the order of their dates. To measure the oracle, the source files
are seven shapes (functions, nested and decorated ones, a property and its
setter, what only one symboliser sees, a line that does not parse, nothing, no
file), and a hunk is at each line of them and beyond, of no, one or three lines.

`CHECK_DEADLOCK FALSE` is said where the system stops: kernels at their bound,
drivers and clients at the end of their work.

### What the passing runs show

* *Buffer and evidence*: `RedundancyFree`, `NeverClusters`, `NoStaleEvidence`,
  `EvidenceUsedOnce`, `EvidenceSuffices`, `DistinctOccurrences`,
  `PromotionExhaustive`.
* *Memory*: `CausalOrder`, `SupersessionChains`, `NoUnresolvedContradiction`,
  `FrozenLearnsNothing`, `ImplementsBeliefs`.
* *Replay*: `ReplayRebuildsMemory`, `ReplayRebuildsLedger`, `ReplayEnds`.
* *Drivers*: `MemoryCurrent`, `DistinctPatterns`, `LearnsExactly`, `Pairing`,
  `AsOfPreviousTask`, `ControlFeedsLearning`, `EvaluatesFrozen`,
  `EvaluationPairs`, and that each run ends (`RollingEnds`, `EvaluationEnds`).
  `AsOfPreviousTask` and `EvaluatesFrozen` are also about the placebos, which are
  shown as many lines as the treatment, whatever the order of the arms.
  `AsOfPreviousTask` has three named parts (`ShownAsRecorded`, `PromotedEarlier`,
  `PlacebosMatch`).
* *Client and control run*: `StableAnswers`, `NeverAskedAgain`, `CallBounded`,
  `RerunIdentical`, `FlagsFromOwnTree`, `RunEnds`.
* *Experiment*: `ReportCountsEveryTaskOnce`, `PairedAgreesWithReport`,
  `NoLookahead`, `OnlyFreshTasks`.
* *Oracle*: `FunctionHitIffTouched` compares it with a definition from the words of
  `functions.py`, `HandcheckAgrees` with the second implementation of
  `handcheck.py`.

Some of these have conditions, and each condition is a place where TLC refutes the
property without it. What a condition excludes is not claimed of the code.

* `DistinctOccurrences` holds in `kernel_loose` since the policy asks for as many
  distinct inputs as occurrences, as those that ship do. The gate counts a record
  once per entry that it supports (`gates.py:149`); with `MinInputs = 1` one record
  that supports two entries of a cluster is promoted as two occurrences. Where ids
  come once, as in the experiment, no record supports two entries.
* `NoUnresolvedContradiction` is about memory of earlier runs of the gate
  (`docs/EXP-001.md:181`: "an existing promoted memory"). Two memories that one run
  promotes may contradict each other.
* `LearnsExactly` is about chains within which no entry expires, and a gate that runs
  on every tick (`Keyed`).
* `OnlyFreshTasks` is about a gated run, or a gated import that drops duplicates.
  A single split that is pulled as it is keeps the stale one of two rows of an id
  if the other is fresh, and the reader may take it.
* `PairedAgreesWithReport` allows a difference of the tasks whose truth is empty:
  they are in the report's denominators, and in no row of the paired analysis.
* `FunctionHitIffTouched` lets a hunk at line 0, that of an empty file, touch its
  module without being hit by any flag.
* `HandcheckAgrees` compares files where every name is that of a file with a hunk:
  for a rename the second parser has both names, the oracle the new one only. It
  compares symbols where every `def` and `class` is one of the module, or a method
  of a class of it, no comment ends a block, and nothing stands between a
  decorator and what it decorates. A nested function, a definition under an `if`,
  or a comment after a block are where the two may differ. Here a statement is one
  line; a string or a bracket over several lines, which the parser joins and
  indentation does not, is not modelled.
* `RunEnds` lets a run die while it scores, if a checkout fails there.

### Where the code and its documents disagree

Each has a run that TLC finds violated; `PROJECT.json` quotes both sides.

1. `kernel_false_positive`: a false positive that was buffered first gives its
   content to a promoted memory.
2. `replay_same_chain`: a retrieval is in the ledger and not in the trace.
3. `replay_wall_clock`: a record's wall clock is hashed into the ingest entry.
4. `campaign_offsets`: dates with different offsets from UTC are sorted as
   strings, and memory may come from a later task (only in histories built by
   `repo_corpus` whose committers are in more than one offset).
5. `client_torn`: part of a row in the cache file stops every later process.

Four more observations have no run of their own.

* A call that raises (`promote` after freeze, an id that comes again, a second
  successor) was traced before, so a replay of that trace stops there: `ReplayEnds`
  says that it stops nowhere else.
* A repository whose Phase 3 was killed before its `kernel.json` was complete is
  evaluated, if the file is missing, with an empty memory like the negative
  control's: `EvaluatesFrozen` says so in its second case.
* `learn` does not look at the tick of a task whose call failed, so with a gate that
  does not run on every tick a promotion on it would not be published, and could be
  learned twice. The registered policy runs the gate on every tick, and then a task
  that teaches nothing leaves nothing new to promote.
* No flag hits a hunk of an existing but empty file: the hunk is at line 0
  (`ground_truth.py:52`), a flag of a file begins at line 1. `phase0/verifier.py:33`
  says "Whole-file location: overlaps any hunk in the file", `phase0/metrics.py:6-7`
  "file-level flags overlap any hunk in that file". `FunctionHitIffTouched` and
  `HandcheckAgrees` have this case as an exception; a task that has no other hunk is a
  miss whatever the answer.

## 4. Fairness

The drivers (`RollingSpec`, `EvaluateSpec`) are sequential programs whose calls
return (the client has a timeout and a limit on attempts), so weak fairness of the
whole next-state relation says that the program keeps running; `Killed` is left
out of it, a process need not be killed. `ReplayFairness` says the same of the
loop of `replay`. `ControlSpec` assumes that the run's own work goes on
(`RunWork`): a request returns or times out, and git ends; it assumes nothing about
what they return, nor that a checkout ever fails or a process is killed or
restarted. The kernel is called by others and has no fairness, and `Campaign` says
nothing about when a job ends.

## 5. Proofs

Each theorem is for all constants that satisfy the assumptions of the modules it
is about, which are named where the constants are declared. They say what types the
constants have, and: ids are unique in a task's answer (`RankedAssumption`, the rank
is hashed into the id), in a corpus (`TasksAssumption`, `read_tasks` drops
duplicates); a row has one date that is parsed to one day or none, its patch is of
the four kinds of lines that are read, and what has no source suffix has no lines
(`SetupsAssumption`); a source file that parses has no indented definition outside
every block (`SourcesAssumption`). Where a theorem assumes more of the constants than
that, the table says what.

| module | theorem | property | assuming |
|---|---|---|---|
| `Kernel_proofs` | `TypeCorrect` | `TypeOK` | |
| | `MemoryCausality` | `CausalOrder`, `SupersessionChains` | |
| | `ContradictionsResolved` | `NoUnresolvedContradiction` | |
| | `BufferSound` | `NoStaleEvidence`, `RedundancyFree` | |
| | `ClustersAreSingletons` | `NeverClusters` | |
| | `EvidenceCountedOnce` | `EvidenceUsedOnce` | |
| | `EvidenceIsSufficient` | `EvidenceSuffices`, `DistinctOccurrences` | |
| | `FreezeEndsLearning` | `FrozenLearnsNothing` | |
| | `PromotionIsExhaustive` | `PromotionExhaustive` | |
| | `RepetitionIsHarmless` | all but those about evidence, where ids come again | |
| | `KernelImplementsBeliefs` | `ImplementsBeliefs` | |
| `Replay_proofs` | `ReplayIsFaithful` | `ReplayRebuildsMemory` | |
| | `ReplayedLedger` | `ReplayRebuildsLedger` | |
| `ControlRun_proofs` | `ClientIsSafe` | the client's `TypeOK`, `StableAnswers`, `NeverAskedAgain`, `CallBounded` | |
| | `RunKeepsClientSafe` | the same, under a control run | |
| | `RepetitionIsIdentical` | `RerunIdentical` | |
| | `FlagsAreOfOwnTree` | `FlagsFromOwnTree` | |
| `Rolling_proofs` | `ArmsArePaired` | `Pairing` | |
| | `MemoryIsCurrent` | `MemoryCurrent` | |
| | `ArmsDoNotLeak` | `ShownAsRecorded`, `PlacebosMatch` | |
| | `ControlFeeds` | `ControlFeedsLearning` | |
| | `PatternsAreDistinct` | `DistinctPatterns` | `Symmetric` |
| | `RollingDrivesKernel` | a run is a run of the kernel in which ids come once | |
| | `LearnedMemoryIsSound` | the kernel's invariants, within the experiment | |
| | `ArmsSeeEarlierTasks` | `AsOfPreviousTask` | `Symmetric`, `NeverMerges`, `AsksEvidence` |
| | `LearningIsExact` | `LearnsExactly` | `NeverMerges`, `AsksEvidence`, `Theta < Scale` |
| `Evaluate_proofs` | `EvaluationIsPaired` | `EvaluationPairs` | |
| | `FrozenIsEvaluated` | `EvaluatesFrozen` | |
| | `EvaluatedMemoryIsSound` | the kernel's invariants, in both processes | |
| | `FrozenPatternsAreDistinct` | `DistinctPatterns` | `Symmetric`, `NeverMerges`, `AsksEvidence`, `Schedule = 1` |
| | `PhaseThreeIsExact` | `LearnsExactly` | `NeverMerges`, `AsksEvidence`, `Theta < Scale` |
| `Campaign_proofs` | `GatedTasksAreFresh` | `OnlyFreshTasks` | |
| | `MemoryIsFromThePast` | `NoLookahead` | `OneOffset` |
| | `ReportsCountOnce` | `ReportCountsEveryTaskOnce` | |
| | `PairedIsConsistent` | `PairedAgreesWithReport` | |
| | `FunctionHitIsExact` | `FunctionHitIffTouched` | |
| | `HandcheckIsSound` | `HandcheckAgrees` | |

`Symmetric`: the similarity of two contents does not depend on their order, as that
of every class of `similarity.py`. `NeverMerges` (`ClusterSim + Theta >= Scale`) and
`AsksEvidence` (a promotion asks for an occurrence or an input) hold of both policies
that ship (`adapters/code/policy.py`, the defaults of `memkernel/gates.py`), and
`Theta < Scale` says that contents of similarity 0 are two patterns. `Schedule = 1`,
the gate at every tick, is what both pipelines run with
(`schedule_every_ticks` in `adapters/code/policy.py`). `OneOffset` says that dates,
as texts, are in the order of the instants they mean; `campaign_offsets` shows that
`NoLookahead` fails without it.

Induction over a data structure is out of the prover's reach. Where an
argument needs it, it is by a least number, or a minimal subset, that would be a
counterexample (`WFMin` of the library, which takes a set): `Least`, `LeastOf`,
`RankGrows`, `SumOfParts`, `Upward`.

### The kernel

*Type correctness* is inductive once it says that versions and the
successor index stay within the objects. *Causality* rests on `ClockMonotonic`:
every operation leaves the clock later or equal, and whatever is promoted or
supersedes carries the new clock, which is strictly later than every older
object's; so a new object is none of the old ones, and none of the old ones is
concurrent with it. *Contradictions* need both: a memory that existed when the
gate ran is in the past, and the live ones were asked about. *The buffer* needs
a strengthening, that every entry's position is at most the kernel's component
of the clock (`EntriesArePast`), so that a new entry is the last; then the gate's
question about all entries is the question about all earlier ones, and
`NeverClusters` follows without induction. *Evidence* needs that supports and
provenances hold only records that were fed (`EvidenceFed`), so a record that is
ingested is nowhere yet, and that clusters with different seeds are disjoint.
As entries then share no record, and what was fed is finite, the pairs that the
gate counts are as many as the records (`OccurrencesAreRecords`): hence
`EvidenceSuffices`, for a caller whose ids come once.
*Refinement* maps `live` to the live objects, `retired` to the domain of the
successor index, `visible` to the pinned version; promotion is `Learn`,
supersession is `Revise`, and the steps of the buffer stutter. It uses type
correctness and causality to know that what is new was never held before.

*Exhaustive promotion* is about the clustering pass, which is a set chosen by what
it satisfies. The invariant `SeedsDetermined` says that every part of the buffer
has exactly one such set, and `HasFirst` that it has a first entry, which stands
in for induction over the order: both survive since a new entry is the last.
A cluster is consumed whole, so what is left keeps its seeds and its clusters
(`RestKeepsClusters`), of which none was promotable.

### Replay

What a call does to state, clock and ledger is a function of the state before it and
of the event that is traced (`Post`, `Written`; `CallDone` has a lemma per call, for
its success and for its refusal). So at any moment there are sequences of states
and of ledgers, one for each prefix of the trace, that lead to the present
(`Determined`, kept by `DeterminedCall`), and for a trace there is one such pair
of sequences (`OneStory`). The replica has the same operators (`SameOperators`: the
instance `RR` of these proofs, with the second kernel's variables), and by
`ReplayInv` the trace of the original as far as it has come. At its end both have the
same trace, so the same memory, and the same entries but for the
retrievals, which are in no trace and which both sides leave out.

### The client and the control run

`ClientInv` strengthens the client's promises by `CacheInv`: the rows on file are a
function of the request, memory is part of them, and what was returned is among
them. A row is only added by a call whose request was not known, so the
rows stay a function through any number of kills. `RunKeepsClientSafe` adds
what the run's own program counter says of the client's (`CallInv`).

`RunInv` says what a repetition is worth: the flags of a task
are what `Outcome` makes of the rows on file, the tree of the task's own
commit and the index of it, whose rows are right by `IndexInv`. Rows never change once
they are there, so two runs that both come to a task's end come to the same one;
an offline run that lacks a row had no flags for that task in the first. The
argument needs `TasksAssumption`. `FlagsFromOwnTree` then is a statement about
`Outcome` alone: whatever it gives for a task names what is listed of the task's
own tree, with the lines of the index of it (`OutcomeIsOfTree`).

### The drivers

`Pairing` needs `ArmsInv`: as long as no arm has failed, those that answered and
those to come are all that are called. `MemoryIsCurrent` and `PatternsAreDistinct`
hold since what is pinned is live whenever a record is ingested (`VersionInv`),
whatever the arms left pinned. Then the gate's question covers all of memory, and what
is promoted leaves the buffer: buffer and memory together stay pairwise apart
(`PatternInv`), for any policy. `ControlFeeds` follows the control's flags from the
answer to the buffer (`FedInv`) and a task without them to the errors (`ErrorsInv`); it
uses that records name their task. `ShownInv` and, in
`Evaluate_proofs`, `Right` say what an arm's entry depends on: the version of the
task's start (the frozen one), the task and the arm, and no other arm. `SavedInv`
follows the frozen version through the file.

`RollingDrivesKernel` is the link from the driver to the kernel: its steps are calls
that ingest no record twice, as a record names its task and its rank there
(`FreshInv`), and pin only recorded versions (`PinInv`). So the kernel's
theorems hold of every run of the experiment (`LearnedMemoryIsSound`).

`ArmsSeeEarlierTasks` needs to know *when* a memory is promoted. `SettledInv` says that
between tasks nothing in the buffer is promotable: the gate runs on every tick, an
entry alone is a cluster (`PartAlone`, by `NeverMerges`), and only a record of the
task at hand adds evidence. So a memory has the number of the task that completed it among its inputs, and
these inputs tell when it came to be (`HashInv`); then the version of a
task's start is the memory of the earlier tasks, wherever entries expire. If entries
merged, a cluster could become promotable by the *expiry* of its seed, without a
record of the task at hand. `LearningIsExact` accounts for every record that was
fed, in the entry of its place or in the memory that its place has (`PlaceInv`); no
entry expires within the chain (`TimeInv`), and by `SettledInv` what suffices has
been promoted. That a place is learned once is `PatternInv`, with `Theta < Scale`.

The split evaluation has the same argument over two processes (`EvaluatedMemoryIsSound`,
`PhaseThreeIsExact`). `PhaseInv` accounts for the first: what is answered is what was
fed and what is to be fed, one tick a task. `FileInv` carries it over: what is on file
is the kernel that was frozen, so that a load restores what was true of it, and an
empty kernel has nothing to restore. Here a task whose call failed ticks the kernel
and the driver does not publish what that tick promotes. `SkipAddsNothing` says that
there is nothing to publish, since by `SettledInv` the tick before left nothing
promotable and this one fed nothing. That is where `FrozenPatternsAreDistinct` needs
`Schedule = 1`: with the gate at every other tick a skipped task could promote what
readers then do not see.

### The experiment

Lists are made by rank (`InOrder`); `InOrderLists` shows that they have every member
once and in order, so that a corpus keeps dates of its setup (`CorpusInv`), a chain is
sorted, distinct and fresh (`ChainsInv`), a kernel is from the build tasks of the
chain that is evaluated (`KernelsInv`), and the memory shown for a task is
from earlier places of its chain (`SourcesInv`). A place is a time only under `OneOffset`.

A report adds up counters over the files of the runs. `SumIsFold` characterises the
library's fold as the one function that satisfies its recursion, and `SumOfParts`
concludes that a sum of the sizes of disjoint finite sets is the size of their
union. By `ArmsInv` a run leaves one file per repository, with the tasks of that
repository and the metrics of its answers, and by `Mergeable` no repository is in
two runs. So the totals of a merged report are counts over all answers
(`MergeCountsAll`), and those of the paired rows are counts over the answers whose
truth is not empty (`PairedCounts`), with a bijection from rows to answers.

### The oracle

The parser of patches, the search for the innermost span and the cut of a patch to
some files are folds over the lines of one file. `StepwiseExists` shows that such a
fold is defined, by extending a function on the places up to one to the next;
then what each step keeps holds of the result, since no least line is where it fails
(`Upward`). So the hunks of a patch are of files it names and cover a line
(`HunkGood`), and the search gives the innermost span, the first of those as long
(`EnclosingNearest`). By `RowsInv` the corpus has only tasks whose patch can be read,
those cut from a history included (`KeepGood`).

`FunctionHitIsExact` then is by cases: a hunk's place for a name is the span that
`by_name` gives, or its own lines at module level, and a flag of the same file and
name always overlaps it, except at module level a hunk at line 0 (`HitByName`).

For `HandcheckIsSound` both symbolisers have to give the same list (`SameIndex`): the
same heads, first and last lines, and owners. The last is the interesting part
(`SameParent`). The last `def` or `class` above that is indented less could be one
whose block is closed already. Then a statement that closed it stands in between,
indented no further; so the block that the definition is in (`SourcesAssumption`)
begins after that statement, and would be the innermost one, which is the class.

### Only model-checked

Liveness (`RollingEnds`, `EvaluationEnds`, `RunEnds`, `ReplayEnds`), which is out of
the prover's reach. Every invariant and every other action property of a passing run
is a theorem.

## 6. Not modelled

Wording of prompts and the text of answers; secondary metrics (files at level
"function") and the first version's rows; the statistics of the paired analysis and
of the tools; labels and notes; float rounding and embeddings, which are tables of
scores here; git itself (a checkout is one step: one that is killed half-way leaves a
mixed tree under the old HEAD, and the next run skips the checkout of a task whose base
that is, `run_control.py:41`); a full disk; a ledger that someone has edited (`verify`);
seams that raise; `split.json` that is older than the corpus it was made from.

## 7. Plan

1. *(done)* Kernel, abstract specification, ledger and replay, drivers, client;
   proofs about the kernel.
2. *(done)* Corpus, truth and hand check, metrics and reports over shards; the
   control run over the client, killed, resumed and repeated; what the arms are
   shown.
3. *(done)* Proofs of promotion, the client, the control run and both evaluations.
4. *(done)* Proofs of replay, of what the arms see and what is learned, of freshness,
   causality and the reports of the experiment.
5. *(done)* Proofs about the oracle and the hand check of it.
6. What is left to model: clock skew over the ledger; `prequential` against the
   kernel; seams that raise within a driver.
