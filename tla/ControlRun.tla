----------------------------- MODULE ControlRun ------------------------------
(***************************************************************************)
(* The Phase 0 control run (phase0/run_control.py): for every task the     *)
(* repository is checked out at its commit, the verifier is asked for      *)
(* files and, at level "function", for functions of these files            *)
(* (Localizer and LocalizerV2 of phase0/verifier.py), through the client   *)
(* of module ModelClient.  A task whose localization raises is left out.   *)
(*                                                                         *)
(* The process may be killed at any moment and is then run again, with the *)
(* same output directory and cache, from its first task.  A run that is    *)
(* over is repeated offline, in a directory of its own, with the cache and  *)
(* the checkouts of the first.                                              *)
(*                                                                         *)
(* Requests are what their keys are made of; an answer is a sequence of    *)
(* <<path, name>>, or text that is not JSON.                               *)
(***************************************************************************)
EXTENDS ModelClient, FiniteSetsExt, SequencesExt

CONSTANTS
    Corpus,            \* the tasks of the corpus, as read and gated: [id, repo,
                       \* created, issue, base, gold], gold being the source files
                       \* of the patch
    Repos,             \* --repos
    PerRepoLimit,      \* --per-repo-limit, 0 for none
    Limit,             \* --limit, 0 for none
    OnDisk(_),         \* commit |-> the files of its tree, in the order of the walk
    Listed,            \* the paths with a source suffix, outside the skipped directories
    MaxFiles,          \* MAX_FILES
    IndexOf(_, _),     \* commit, path |-> name of a symbol |-> its lines
    TopK,              \* --top-k
    MaxCrashes         \* bound on the kills that TLC explores

ASSUME ControlAssumption ==
    /\ {TopK, MaxFiles} \subseteq Nat \ {0}
    /\ {PerRepoLimit, Limit, MaxCrashes} \subseteq Nat

VARIABLES
    level,             \* --level: "file" or "function"
    job,               \* "online", or "offline" for the repetition
    step,              \* "task", "ask1", "read1", "index", "ask2", "read2", "over", "dead"
    next,              \* position of the task that is being worked on
    head,              \* repository |-> its checkout's HEAD, {} before the clone
    asked,             \* the request that is to be made, as the set of its key
    got,               \* what complete returned, as a set
    ranked,            \* the files of stage 1
    index,             \* FunctionIndexCache: <<key, spans>>, memory and file
    flags,             \* flags_by_task: task |-> sequence of [path, name, lines]
    errors,            \* errors.jsonl: task |-> what was raised
    firstRun,          \* flags.jsonl of the online run, when it is over: {} or {flags}
    crashes

taskVars == <<next, asked, got, ranked>>
outVars == <<flags, errors>>
runVars == <<level, job, step, taskVars, head, index, outVars, firstRun, crashes>>
controlVars == <<clientVars, runVars>>

None == [t \in {} |-> {}]
Assign(F, t, v) == [x \in DOMAIN F \union {t} |-> IF x = t THEN v ELSE F[x]]
Module == "<module>"
WholeFile == <<1, 1000000000>>

Earlier(s, t) ==
    \/ s.repo < t.repo
    \/ s.repo = t.repo /\ s.created < t.created
    \/ s.repo = t.repo /\ s.created = t.created /\ s.id < t.id

\* The tasks of a run: of the repositories asked for, the earliest few of each,
\* and of these the first few.
Tasks ==
    LET sorted == SortSeq(SelectSeq(Corpus, LAMBDA t : t.repo \in Repos), Earlier)
        kept == FoldLeft(LAMBDA few, t :
                            IF \/ PerRepoLimit = 0
                               \/ Len(SelectSeq(few, LAMBDA x : x.repo = t.repo)) < PerRepoLimit
                            THEN Append(few, t) ELSE few,
                         << >>, sorted)
    IN  IF Limit = 0 THEN kept ELSE SubSeq(kept, 1, Min({Limit, Len(kept)}))

Task == Tasks[next]

\* read_tasks keeps the first of the rows with an id, and select the tasks of the
\* repositories that were asked for.
ASSUME TasksAssumption ==
    /\ \A i, j \in DOMAIN Tasks : Tasks[i].id = Tasks[j].id => i = j
    /\ \A i \in DOMAIN Tasks : Tasks[i].repo \in Repos

\* An answer that can be used is a sequence of items.
ASSUME AnswersAssumption == \A v \in Usable : v \in Seq(Range(v))

\* repo_file_tree: what the verifier is shown of a tree, cut off at MaxFiles
Tree(c) ==
    LET files == SelectSeq(OnDisk(c), LAMBDA p : p \in Listed)
    IN  SubSeq(files, 1, Min({MaxFiles, Len(files)}))

\* The keys of the two requests: a key is made of the whole prompt.
FilesRequest(issue, files) == <<"files", issue, files, TopK>>
FunctionsRequest(issue, shown) == <<"functions", issue, shown, TopK>>

FreshOutput ==
    /\ step' = "task" /\ next' = 1
    /\ asked' = {} /\ got' = {} /\ ranked' = << >>
    /\ flags' = None /\ errors' = None

ControlInit ==
    /\ Init
    /\ level \in {"file", "function"}
    /\ job = "online" /\ step = "task" /\ next = 1
    /\ head = [r \in Repos |-> {}] /\ asked = {} /\ got = {} /\ ranked = << >> /\ index = {}
    /\ flags = None /\ errors = None
    /\ firstRun = {} /\ crashes = 0

NextTask ==
    /\ step' = "task" /\ next' = next + 1
    /\ asked' = {} /\ got' = {} /\ ranked' = << >>

\* The except clause: the task is excluded and recorded.
Drop(reason) ==
    /\ NextTask
    /\ errors' = Assign(errors, Task.id, reason)
    /\ UNCHANGED <<level, job, index, flags, firstRun, crashes>>

Keep(found) ==
    /\ NextTask
    /\ flags' = Assign(flags, Task.id, found)
    /\ UNCHANGED <<level, job, head, index, errors, firstRun, crashes>>
-----------------------------------------------------------------------------
AtTask == phase = "idle" /\ step = "task" /\ next \in DOMAIN Tasks

Asking(c) ==
    /\ asked' = {FilesRequest(Task.issue, Tree(c))}
    /\ step' = "ask1"
    /\ UNCHANGED <<clientVars, level, job, next, got, ranked, index, outVars, firstRun, crashes>>

\* Variant: a tree that is there is taken for the task's.
BeginTaskInPlace ==
    /\ AtTask
    /\ head' = [head EXCEPT ![Task.repo] = IF @ = {} THEN {Task.base} ELSE @]
    /\ \E c \in head'[Task.repo] : Asking(c)

\* ensure_checkout and repo_file_tree; the prompt shows the issue and the files.
BeginTask ==
    /\ AtTask
    /\ head' = [head EXCEPT ![Task.repo] = {Task.base}]
    /\ \E c \in head'[Task.repo] : Asking(c)

\* clone, checkout and fetch fail, if HEAD is not already there.
CheckoutFails ==
    /\ AtTask /\ head[Task.repo] # {Task.base}
    /\ Drop("checkout")
    /\ UNCHANGED <<clientVars, head>>

Read(v) ==
    /\ got' = {v}
    /\ step' = IF step = "ask1" THEN "read1" ELSE "read2"
    /\ UNCHANGED <<level, job, next, asked, ranked, head, index, outVars, firstRun, crashes>>

\* CachedClient.complete: from the cache, or from the model, or not at all
Ask(k) ==
    /\ step \in {"ask1", "ask2"} /\ asked = {k}
    /\ \/ Hit(k) /\ \E row \in mem : row[1] = k /\ Read(row[2])
       \/ job = "online" /\ Miss(k) /\ UNCHANGED runVars
       \/ /\ job = "offline" /\ phase = "idle" /\ k \notin Known(mem)
          /\ Drop("miss")
          /\ UNCHANGED <<clientVars, head>>

\* The call goes on, returns, or raises.
CallGoesOn ==
    /\ Work
    /\ \/ phase' # "idle" /\ UNCHANGED runVars
       \/ phase = "append" /\ \E v \in answer : Read(v)
       \/ phase \in {"sdk", "post"} /\ phase' = "idle" /\ Drop("model") /\ UNCHANGED head
-----------------------------------------------------------------------------
\* The first k things that the items of an answer stand for, each once; an item
\* stands for one thing or for nothing.
FirstFew(meant) ==
    LET few[n \in 0 .. Len(meant)] ==
            IF n = 0 THEN << >>
            ELSE IF Len(few[n - 1]) < TopK /\ ~ (meant[n] \subseteq Range(few[n - 1]))
                 THEN Append(few[n - 1], CHOOSE x \in meant[n] : TRUE)
                 ELSE few[n - 1]
    IN  few[Len(meant)]

\* Localizer.localize: the known paths of a commit
Ranked(c, items) ==
    FirstFew([i \in DOMAIN items |-> {items[i][1]} \intersect Range(Tree(c))])

FileFlags(paths) ==
    [i \in DOMAIN paths |-> [path |-> paths[i], name |-> "", lines |-> WholeFile]]

ReadFiles ==
    /\ step = "read1"
    /\ \E v \in got, c \in head[Task.repo] :
         IF v \notin Usable THEN Drop("json") /\ UNCHANGED head
         ELSE IF level = "file" \/ Ranked(c, v) = << >> THEN Keep(FileFlags(Ranked(c, v)))
         ELSE /\ ranked' = Ranked(c, v) /\ step' = "index"
              /\ UNCHANGED <<level, job, next, head, asked, got, index, outVars, firstRun, crashes>>
    /\ UNCHANGED clientVars

\* Variant: the index of a path is kept for every commit.
IndexKeyOfPath(c, p) == <<"any", p>>

\* The key of the function index cache
IndexKey(c, p) == <<c, p>>

\* What reading some files of a commit adds to the index
Indexed(c, paths) ==
    {<<IndexKey(c, p), IndexOf(c, p)>> :
        p \in {q \in paths : IndexKey(c, q) \notin Known(index)}}

Spans(cache, c, p) == CHOOSE s \in {row[2] : row \in {x \in cache : x[1] = IndexKey(c, p)}} : TRUE

\* LocalizerV2.localize: the functions of the files are shown.  The checkout is
\* where BeginTask left it.
ReadIndex ==
    /\ step = "index"
    /\ index' = index \union Indexed(Task.base, Range(ranked))
    /\ asked' = {FunctionsRequest(Task.issue,
                    [i \in DOMAIN ranked |-> <<ranked[i], Spans(index', Task.base, ranked[i])>>])}
    /\ step' = "ask2"
    /\ UNCHANGED <<clientVars, level, job, next, head, got, ranked, outVars, firstRun, crashes>>

\* The functions that were shown: path |-> name |-> lines
Shown == [p \in Range(ranked) |-> Spans(index, Task.base, p)]

\* LocalizerV2.localize: what is named among them
Located(shown, items) ==
    LET isShown(item) == /\ item[1] \in DOMAIN shown
                         /\ item[2] \in {Module} \union DOMAIN shown[item[1]]
        flag(item) == [path |-> item[1], name |-> item[2],
                       lines |-> IF item[2] = Module THEN WholeFile ELSE shown[item[1]][item[2]]]
    IN  FirstFew([i \in DOMAIN items |-> IF isShown(items[i]) THEN {flag(items[i])} ELSE {}])

ReadFunctions ==
    /\ step = "read2"
    /\ \E v \in got : IF v \notin Usable THEN Drop("json") /\ UNCHANGED head
                      ELSE Keep(Located(Shown, v))
    /\ UNCHANGED clientVars
-----------------------------------------------------------------------------
\* score resolves the truth of the tasks that have flags, from the index or from
\* a checkout, outside of the try.
ToResolve ==
    {i \in DOMAIN Tasks :
        /\ level = "function" /\ Tasks[i].id \in DOMAIN flags
        /\ \E p \in Tasks[i].gold : IndexKey(Tasks[i].base, p) \notin Known(index)}

LastOf(r) == Tasks[Max({i \in ToResolve : Tasks[i].repo = r})].base

ScoreRun ==
    /\ phase = "idle" /\ step = "task" /\ next > Len(Tasks)
    /\ head' = [r \in Repos |-> IF \E i \in ToResolve : Tasks[i].repo = r
                               THEN {LastOf(r)} ELSE head[r]]
    /\ index' = index \union
          UNION {Indexed(Tasks[i].base, Tasks[i].gold) : i \in ToResolve}
    /\ step' = "over"
    /\ firstRun' = IF job = "online" THEN {flags} ELSE firstRun
    /\ UNCHANGED <<clientVars, level, job, taskVars, outVars, crashes>>

\* A checkout that fails there ends the run without metrics or manifest.
ScoreDies ==
    /\ phase = "idle" /\ step = "task" /\ next > Len(Tasks)
    /\ \E i \in ToResolve : head[Tasks[i].repo] # {Tasks[i].base}
    /\ step' = "dead"
    /\ UNCHANGED <<clientVars, level, job, taskVars, head, index, outVars, firstRun, crashes>>

CrashRun ==
    /\ step \notin {"over", "dead"} /\ crashes < MaxCrashes
    /\ crashes' = crashes + 1
    /\ Crash
    /\ FreshOutput
    /\ UNCHANGED <<level, job, head, index, firstRun>>

RestartRun == Restart /\ UNCHANGED runVars

\* The determinism check: another process, with --offline and the same cache
RepeatOffline ==
    /\ job = "online" /\ step = "over"
    /\ job' = "offline"
    /\ mem' = rows /\ mode' = {}
    /\ index' = {}
    /\ FreshOutput
    /\ UNCHANGED <<phase, callVars, fileVars, returned, level, head, firstRun, crashes>>

RunWork ==
    \/ BeginTask \/ CallGoesOn \/ ReadFiles \/ ReadIndex \/ ReadFunctions \/ ScoreRun
    \/ \E k \in Keys : Ask(k)

ControlNext ==
    \/ RunWork
    \/ CheckoutFails \/ ScoreDies
    \/ CrashRun \/ RestartRun
    \/ RepeatOffline

\* Every call and every git command ends, and the loop goes on.
ControlSpec == ControlInit /\ [][ControlNext]_controlVars /\ WF_controlVars(RunWork)
-----------------------------------------------------------------------------
\* (phase0/run_control.py: "determinism check: rerun offline from the same cache
\* and diff") The repetition gives every task the flags that it had, however
\* often the first run was killed, and loses none but to a failing checkout.
RerunIdentical ==
    job = "offline" =>
        \A first \in firstRun : \A t \in DOMAIN first :
            /\ t \in DOMAIN flags => flags[t] = first[t]
            /\ t \in DOMAIN errors => errors[t] = "checkout"

\* Flags are of the tree before the task's patch, whatever was checked out,
\* indexed or cached for the tasks before: a file of it, and the lines that a
\* symbol has in it.
FlagsFromOwnTree ==
    \A t \in Range(Tasks) : t.id \in DOMAIN flags => \A f \in Range(flags[t.id]) :
        /\ f.path \in Range(Tree(t.base))
        /\ f.name \notin {"", Module} =>
              /\ f.name \in DOMAIN IndexOf(t.base, f.path)
              /\ f.lines = IndexOf(t.base, f.path)[f.name]

\* A run that is not killed ends, each of its tasks with flags or an error, or
\* dies at the end of it, however transient errors, unusable answers and failing
\* checkouts alternate.
RunEnds ==
    []<>(\/ phase = "down" \/ step = "dead"
         \/ step = "over" /\ DOMAIN flags \union DOMAIN errors = {t.id : t \in Range(Tasks)})
=============================================================================
