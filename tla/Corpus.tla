------------------------------- MODULE Corpus --------------------------------
(***************************************************************************)
(* Tasks and what is left out of an experiment: how a corpus is imported   *)
(* (phase0/corpus.py) or built from the history of a repository            *)
(* (phase0/repo_corpus.py), the freshness gate (phase0/freshness_gate.py), *)
(* the chain of a repository (phase0/chains.py) and the split into build   *)
(* and evaluation tasks (phase2/make_split.py).                            *)
(*                                                                         *)
(* A row is a task that may lack a required field.  Its date is a string:  *)
(* what the program makes of it is its rank among strings (text) and the   *)
(* day it parses to, as {} or {day}; what it means is an instant, which    *)
(* the program never looks at.                                             *)
(***************************************************************************)
EXTENDS Truth

CONSTANTS
    Cutoffs,           \* models.json: the days on which training data end
    Margin,            \* --margin-days
    Wanted,            \* --repos of make_split
    AtCeiling,         \* repositories whose control rate reached the ceiling
    BuildRule,         \* --build-rule, highest threshold first: <<threshold, build>>
    DefaultBuild,      \* --build
    MinEval,           \* --min-eval
    MinWords           \* --min-words of repo_corpus

ASSUME CorpusAssumption ==
    /\ Cutoffs # {} /\ Cutoffs \subseteq Nat /\ IsFiniteSet(Cutoffs)
    /\ Margin \in Nat /\ DefaultBuild \in Nat /\ BuildRule \in Seq(Nat \X Nat)
-----------------------------------------------------------------------------
\* The rows at some places, one after another as the pairs of before say
Listed(rows, places, before) ==
    [k \in 1 .. Cardinality(places) |-> rows[InOrder(places, before)[k]]]

\* The rows at some places of a list, in the order of the list
Kept(rows, places) == Listed(rows, places, {p \in places \X places : p[1] < p[2]})

\* The rows without those whose id came before
FirstById(rows) ==
    Kept(rows, {i \in DOMAIN rows : \A j \in 1 .. i - 1 : rows[j].id # rows[i].id})

Complete(rows) == \A row \in Range(rows) : row.complete

\* read_tasks, as {} if it raises.  It normalises a row before it looks whether
\* the row is a duplicate.
ReadTasks(rows) == IF Complete(rows) THEN {FirstById(rows)} ELSE {}

\* pull_from_hf: one split as it is, or all of them without duplicates
PullSplit(rows) == IF Complete(rows) THEN {rows} ELSE {}
PullAll(rows) == IF Complete(FirstById(rows)) THEN {FirstById(rows)} ELSE {}
-----------------------------------------------------------------------------
(***************************************************************************)
(* repo_corpus.build: the commits of a branch, oldest first                *)
(***************************************************************************)
\* The lines of the files in keep; a patch names a file before its hunks.
KeepFiles(patch, keep) ==
    FoldLeft(LAMBDA read, line :
                LET current == IF line.kind = "diff" THEN {line.path} ELSE read.current
                IN  [current |-> current,
                     out |-> IF current \subseteq keep /\ current # {}
                             THEN Append(read.out, line) ELSE read.out],
             [current |-> {}, out |-> << >>], patch).out

SourceGold(commit) == GoldFiles(commit.patch) \intersect SourceFiles

IsTask(commit) ==
    /\ commit.parent # {}
    /\ SourceGold(commit) # {}
    /\ commit.words >= MinWords

TaskOf(commit) ==
    [id |-> commit.id, repo |-> commit.repo, created |-> commit.created,
     base |-> CHOOSE p \in commit.parent : TRUE,
     patch |-> KeepFiles(commit.patch, SourceGold(commit)),
     complete |-> commit.words > 0]

BuildHistory(commits) ==
    LET kept == Kept(commits, {i \in DOMAIN commits : IsTask(commits[i])})
    IN  [i \in DOMAIN kept |-> TaskOf(kept[i])]
-----------------------------------------------------------------------------
(***************************************************************************)
(* The freshness gate                                                      *)
(***************************************************************************)
\* Variant: a task of the cutoff day itself is admitted.
AdmittedOnCutoff(t) == \E day \in t.created.day : day >= Max(Cutoffs) + Margin

\* judge, with latest_cutoff
Admitted(t) == \E day \in t.created.day : day > Max(Cutoffs) + Margin

\* apply_freshness keeps what has the id of an admitted task.
ApplyFreshness(tasks) ==
    LET keep == {t.id : t \in {x \in Range(tasks) : Admitted(x)}}
    IN  Kept(tasks, {i \in DOMAIN tasks : tasks[i].id \in keep})
-----------------------------------------------------------------------------
\* By date, as strings, then by id
Before(a, b) ==
    \/ a.created.text < b.created.text
    \/ a.created.text = b.created.text /\ a.id < b.id

\* list.sort keeps the order of what is equal.
SortsBefore(rows, i, j) ==
    \/ Before(rows[i], rows[j])
    \/ ~ Before(rows[j], rows[i]) /\ i < j

\* The rows at some places of a list, sorted
Sorted(rows, places) ==
    Listed(rows, places, {p \in places \X places : SortsBefore(rows, p[1], p[2])})

OfRepo(tasks, r) == {i \in DOMAIN tasks : tasks[i].repo = r}

\* Variant: the chain is in the order of the file.
ChainInFileOrder(tasks, r) == Kept(tasks, OfRepo(tasks, r))

\* build_chains, of one repository
Chain(tasks, r) == Sorted(tasks, OfRepo(tasks, r))

\* _main of corpus writes the tasks sorted; the order of the repositories is
\* left out, as no reader depends on it.
Import(how, gated, rows) ==
    LET read == [load |-> ReadTasks(rows), pull |-> PullSplit(rows), pull_all |-> PullAll(rows)]
        left(tasks) == IF gated THEN ApplyFreshness(tasks) ELSE tasks
    IN  {Sorted(left(tasks), DOMAIN left(tasks)) : tasks \in read[how]}
-----------------------------------------------------------------------------
(***************************************************************************)
(* make_split                                                              *)
(***************************************************************************)
BuildFor(n) ==
    LET reached == {i \in DOMAIN BuildRule : n >= BuildRule[i][1]}
    IN  IF reached = {} THEN DefaultBuild ELSE BuildRule[Min(reached)][2]

\* corpus/split.json: repository |-> the number of its build tasks
MakeSplit(tasks) ==
    LET length(r) == Len(Chain(tasks, r))
        chosen == {r \in Wanted \ AtCeiling :
                      length(r) > 0 /\ length(r) >= BuildFor(length(r)) + MinEval}
    IN  [r \in chosen |-> BuildFor(length(r))]
=============================================================================
