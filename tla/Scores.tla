------------------------------- MODULE Scores --------------------------------
(***************************************************************************)
(* From flags to the numbers that are reported: the metrics of an arm      *)
(* (phase0/metrics.py), the arms.json of a repository and the report over  *)
(* repositories (phase4/report.py, gate4_report), the merge of shards      *)
(* (phase4/aggregate.py) and the paired analysis (phase4/paired.py).       *)
(*                                                                         *)
(* Rates are kept as the counts they are made of, and differences of rates *)
(* as numerator and denominator; rounding, intervals and p-values are left *)
(* out.  Flags are functions from tasks to sequences of locations.         *)
(***************************************************************************)
EXTENDS Corpus

CONSTANTS
    Arms,              \* "control", "treatment" and any others
    Negative           \* the repository of the negative control

ASSUME ScoresAssumption == {"control", "treatment"} \subseteq Arms

\* GroundTruth: task |-> its truth
Truths(tasks, level) == [t \in tasks |-> Gold(t, level)]

\* score: tasks without ground truth do not count.
Score(flags, truth) ==
    LET scored == {t \in DOMAIN flags : truth[t] # {}}
        raised == UNION {{t} \X DOMAIN flags[t] : t \in scored}
        wrong == {x \in raised : ~ Correct(flags[x[1]][x[2]], UNION truth[x[1]])}
    IN  [tasks |-> Cardinality(scored),
         localized |-> Cardinality({x[1] : x \in raised \ wrong}),
         flags |-> Cardinality(raised),
         falsePositives |-> Cardinality(wrong)]

\* A rate as a fraction; over nothing it is 0.
Rate(n, of) == IF of = 0 THEN <<0, 1>> ELSE <<n, of>>
Minus(p, q) == <<p[1] * q[2] - q[1] * p[2], p[2] * q[2]>>

Lift(treatment, control) ==
    [localization |-> Minus(Rate(treatment.localized, treatment.tasks),
                            Rate(control.localized, control.tasks)),
     falsePositive |-> Minus(Rate(treatment.falsePositives, treatment.flags),
                             Rate(control.falsePositives, control.flags))]

\* ArmResult.hits: a task whose truth is empty is not in it, though it has a score.
Hits(flags, truth) ==
    [t \in {x \in DOMAIN flags : UNION truth[x] # {}} |->
        \E f \in Range(flags[t]) : Correct(f, UNION truth[t])]
-----------------------------------------------------------------------------
\* arms_json, in a directory.  answers: the tasks that every arm answered |-> arm
\* |-> flags
ArmsFile(dir, repo, answers, level) ==
    LET truth == Truths(DOMAIN answers, level)
        flags == [a \in Arms |-> [t \in DOMAIN answers |-> answers[t][a]]]
        metrics == [a \in Arms |-> Score(flags[a], truth)]
    IN  [dir |-> dir, repo |-> repo, answers |-> answers, metrics |-> metrics,
         hits |-> [a \in Arms |-> Hits(flags[a], truth)],
         lift |-> [a \in Arms |-> Lift(metrics[a], metrics["control"])]]

\* report.merge, of one arm's metrics in some files
MergeMetrics(files, a) ==
    LET sum(n(_)) == SumFunction([f \in files |-> n(f.metrics[a])])
    IN  [tasks |-> sum(LAMBDA m : m.tasks), localized |-> sum(LAMBDA m : m.localized),
         flags |-> sum(LAMBDA m : m.flags),
         falsePositives |-> sum(LAMBDA m : m.falsePositives)]

\* gate4_report of one arm against control
Compared(files, negative, a) ==
    LET lifts == [r \in {f.repo : f \in files} |->
                     (CHOOSE f \in files : f.repo = r).lift[a]]
        better == {r \in DOMAIN lifts : lifts[r].localization[1] > 0}
    IN  [control |-> MergeMetrics(files, "control"), arm |-> MergeMetrics(files, a),
         lift |-> Lift(MergeMetrics(files, a), MergeMetrics(files, "control")),
         perRepo |-> lifts,
         inMajority |-> 2 * Cardinality(better) > Cardinality(DOMAIN lifts),
         negative |-> {f.lift[a] : f \in negative}]

\* Aggregator.report, as {} where it says that no repository was evaluated
Report(files) ==
    LET negative == {f \in files : f.repo = Negative}
    IN  IF files = negative THEN {}
        ELSE {[a \in Arms \ {"control"} |-> Compared(files \ negative, negative, a)]}
-----------------------------------------------------------------------------
\* Variant: files of one repository in two shards are all added.
MergeableAny(files) == files # {}

\* aggregate refuses two files of one repository, and none at all.
Mergeable(files) ==
    /\ files # {}
    /\ \A f, g \in files : f.repo = g.repo => f = g

\* Variant: a task without a hit has no row.
RowsOfHits(file, a) ==
    {t \in DOMAIN file.hits["control"] \intersect DOMAIN file.hits[a] :
        file.hits["control"][t] \/ file.hits[a][t]}

\* _rows_v2: the tasks that have a hit, or a miss, in both arms
Rows(file, a) == DOMAIN file.hits["control"] \intersect DOMAIN file.hits[a]

\* summarise, of rows, each a file and a task
Summary(rows, a) ==
    LET hit(b) == {x \in rows : x[1].hits[b][x[2]]}
        answers(x) == x[1].answers[x[2]]
    IN  [tasks |-> Cardinality(rows),
         control |-> Cardinality(hit("control")),
         arm |-> Cardinality(hit(a)),
         both |-> Cardinality(hit("control") \intersect hit(a)),
         controlOnly |-> Cardinality(hit("control") \ hit(a)),
         armOnly |-> Cardinality(hit(a) \ hit("control")),
         differed |-> Cardinality({x \in rows : answers(x)["control"] # answers(x)[a]})]

\* analyse
Paired(files) ==
    [a \in Arms \ {"control"} |->
        Summary(UNION {{f} \X Rows(f, a) : f \in {g \in files : g.repo # Negative}}, a)]
=============================================================================
