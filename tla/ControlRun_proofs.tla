-------------------------- MODULE ControlRun_proofs --------------------------
(***************************************************************************)
(* Proofs about the client and about the control run that uses it: a       *)
(* request is answered once and for all, over any number of processes that *)
(* are killed and read the cache file again, and a call ends after a       *)
(* bounded number of attempts; the run keeps these promises, its           *)
(* repetition reproduces it, and its flags are of the task's own tree.     *)
(***************************************************************************)
EXTENDS ControlRun, TLAPS, WellFoundedInduction

-----------------------------------------------------------------------------
(***************************************************************************)
(* The client, run after run                                               *)
(***************************************************************************)
Running == phase \in {"idle", "sdk", "post", "append"}

Functional(S) == \A p, q \in S : p[1] = q[1] => p = q

\* The file answers each request once, holds what callers were told, and is
\* what the process has in memory; a call is about one request, not yet in it.
CacheInv ==
    /\ Functional(rows)
    /\ returned \subseteq rows
    /\ Running => mem = rows
    /\ phase \in {"sdk", "post", "append"} =>
          \E k \in Keys : request = {k} /\ k \notin Known(rows)
    /\ phase = "append" => \E v \in Responses : answer = {v}
    /\ phase = "sdk" => provider = "anthropic"

ClientInv == TypeOK /\ CacheInv /\ CallBounded

\* Another process takes over between two calls.
Reopen ==
    /\ phase = "idle"
    /\ mem' = rows /\ mode' = {}
    /\ UNCHANGED <<phase, callVars, fileVars, returned>>

\* The row of a request that is not in the file keeps the file functional.
LEMMA AddRow ==
    ASSUME NEW S, NEW k, NEW v, Functional(S), k \notin Known(S)
    PROVE  Functional(S \union ({k} \X {v}))
<1>1. ASSUME NEW p \in {k} \X {v}
      PROVE  p = <<k, v>>
  OBVIOUS
<1>2. ASSUME NEW p \in S
      PROVE  p[1] # k
  BY DEF Known
<1>. QED  BY <1>1, <1>2 DEF Functional

\* The client starts with an empty file.
LEMMA ClientInit == Init => ClientInv
<1>. SUFFICES ASSUME Init PROVE ClientInv
  OBVIOUS
<1>1. << >> \in Seq(Modes) /\ 0 \in 0 .. MaxAttempts
  BY ClientAssumption
<1>2. TypeOK
  BY <1>1 DEF Init, TypeOK
<1>. QED  BY <1>2 DEF Init, ClientInv, CacheInv, CallBounded, Functional, Running

\* The steps before a row is written.
LEMMA CallStep ==
    ASSUME ClientInv,
           \/ \E k \in Keys : Hit(k) \/ Miss(k)
           \/ \E v \in Responses : SdkAnswers(v) \/ PostAnswers(v)
           \/ SdkRaises \/ PostTransient \/ PostUnusable \/ PostRaises
    PROVE  ClientInv'
<1>. USE ClientAssumption DEF ClientInv
<1>1. CASE \E k \in Keys : Hit(k)
  <2>. PICK k \in Keys : Hit(k)  BY <1>1
  <2>1. UNCHANGED <<phase, callVars, mem, fileVars, mode>> /\ phase = "idle"
    BY DEF Hit
  <2>2. returned' \subseteq rows /\ returned' \subseteq Keys \X Responses
    BY DEF Hit, CacheInv, Running, TypeOK
  <2>. QED
    BY <2>1, <2>2 DEF TypeOK, CacheInv, CallBounded, Running, callVars, fileVars
<1>2. CASE \E k \in Keys : Miss(k)
  <2>. PICK k \in Keys : Miss(k)  BY <1>2
  <2>1. /\ phase = "idle" /\ mem = rows /\ k \notin Known(rows) /\ request' = {k}
        /\ UNCHANGED <<answer, mem, provider, rows, torn, mode, returned>>
    BY DEF Miss, fileVars, CacheInv, Running
  <2>2. CASE phase' = "sdk"
    <3>1. provider = "anthropic" /\ UNCHANGED <<toTry, attempts>>
      BY <2>2 DEF Miss
    <3>. QED  BY <2>1, <2>2, <3>1 DEF TypeOK, CacheInv, CallBounded, Running
  <2>3. CASE phase' = "post"
    <3>1. /\ attempts' = 1
          /\ toTry' \in IF mode = {} THEN {<<"json_schema", "json_object", "text">>}
                                     ELSE {<<m>> : m \in mode}
      BY <2>3 DEF Miss
    <3>2. toTry' \in Seq(Modes) /\ toTry' # << >>
      <4>1. CASE mode = {}
        <5>1. toTry' = <<"json_schema", "json_object", "text">>
          BY <3>1, <4>1
        <5>. QED  BY <5>1 DEF Modes
      <4>2. CASE mode # {}
        <5>1. PICK m \in mode : toTry' = <<m>>
          BY <3>1, <4>2
        <5>2. m \in Modes
          BY DEF TypeOK
        <5>. QED  BY <5>1, <5>2
      <4>. QED  BY <4>1, <4>2
    <3>. QED  BY <2>1, <2>3, <3>1, <3>2 DEF TypeOK, CacheInv, CallBounded, Running
  <2>. QED  BY <2>2, <2>3 DEF Miss
<1>3. CASE \E v \in Responses : SdkAnswers(v)
  BY <1>3 DEF SdkAnswers, fileVars, TypeOK, CacheInv, CallBounded, Running
<1>4. CASE \E v \in Responses : PostAnswers(v)
  <2>. PICK v \in Responses : PostAnswers(v)  BY <1>4
  <2>1. /\ phase = "post" /\ phase' = "append" /\ answer' = {v}
        /\ mode' = {Head(toTry)}
        /\ UNCHANGED <<request, toTry, attempts, mem, provider, rows, torn, returned>>
    BY DEF PostAnswers, fileVars
  <2>2. Head(toTry) \in Modes
    BY <2>1 DEF TypeOK, CallBounded
  <2>. QED  BY <2>1, <2>2 DEF TypeOK, CacheInv, CallBounded, Running
<1>5. CASE Raise /\ Running /\ UNCHANGED <<mem, fileVars, mode, returned>>
  <2>1. << >> \in Seq(Modes)
    OBVIOUS
  <2>. QED  BY <1>5, <2>1 DEF Raise, fileVars, TypeOK, CacheInv, CallBounded, Running
<1>6. CASE /\ phase = "post" /\ UNCHANGED <<phase, request, answer, mem, fileVars, mode, returned>>
           /\ attempts' \in 1 .. MaxAttempts
           /\ toTry' \in Seq(Modes) /\ toTry' # << >>
  BY <1>6 DEF fileVars, TypeOK, CacheInv, CallBounded, Running
<1>7. CASE SdkRaises \/ PostRaises
  BY <1>5, <1>7 DEF SdkRaises, PostRaises, Running
<1>8. CASE PostTransient
  <2>1. toTry \in Seq(Modes) /\ toTry # << >> /\ attempts \in 1 .. MaxAttempts
    BY <1>8 DEF PostTransient, TypeOK, CallBounded
  <2>2. CASE attempts < MaxAttempts
    BY <1>6, <1>8, <2>1, <2>2 DEF PostTransient
  <2>3. CASE ~ attempts < MaxAttempts
    BY <1>5, <1>8, <2>3 DEF PostTransient, Running
  <2>. QED  BY <2>2, <2>3
<1>9. CASE PostUnusable
  <2>1. toTry \in Seq(Modes) /\ toTry # << >>
    BY <1>9 DEF PostUnusable, TypeOK, CallBounded
  <2>2. CASE Tail(toTry) # << >>
    <3>1. Tail(toTry) \in Seq(Modes)
      BY <2>1
    <3>. QED  BY <1>6, <1>9, <2>2, <3>1 DEF PostUnusable
  <2>3. CASE Tail(toTry) = << >>
    BY <1>5, <1>9, <2>3 DEF PostUnusable, Running
  <2>. QED  BY <2>2, <2>3
<1>. QED  BY <1>1, <1>2, <1>3, <1>4, <1>7, <1>8, <1>9

\* The steps that write rows or read them.
LEMMA FileStep ==
    ASSUME ClientInv, StoreAnswer \/ Crash \/ CrashInRow \/ Restart \/ Reopen
    PROVE  ClientInv'
<1>. USE ClientAssumption DEF ClientInv
<1>0. << >> \in Seq(Modes)
  OBVIOUS
<1>1. ASSUME phase = "append"
      PROVE  /\ Functional(rows \union (request \X answer))
             /\ request \X answer \subseteq Keys \X Responses
  <2>1. PICK k \in Keys, v \in Responses :
           request = {k} /\ k \notin Known(rows) /\ answer = {v}
    BY <1>1 DEF CacheInv
  <2>2. Functional(rows \union (request \X answer))
    BY <2>1, AddRow DEF CacheInv
  <2>. QED  BY <2>1, <2>2
<1>2. CASE StoreAnswer
  <2>1. mem = rows
    BY <1>2 DEF StoreAnswer, CacheInv, Running
  <2>. QED
    BY <1>0, <1>1, <1>2, <2>1 DEF StoreAnswer, Raise, TypeOK, CacheInv, CallBounded, Running
<1>3. CASE Crash \/ CrashInRow
  <2>1. /\ phase' = "down" /\ request' = {} /\ answer' = {} /\ toTry' = << >>
        /\ attempts' = 0 /\ mem' = {} /\ mode' = {}
        /\ UNCHANGED <<returned, provider>>
        /\ torn' \in BOOLEAN
    BY <1>3 DEF Crash, CrashInRow, Forget, TypeOK
  <2>2. Functional(rows') /\ rows \subseteq rows' /\ rows' \subseteq Keys \X Responses
    BY <1>1, <1>3 DEF Crash, CrashInRow, CacheInv, TypeOK
  <2>. QED  BY <1>0, <2>1, <2>2 DEF TypeOK, CacheInv, CallBounded, Running
<1>4. CASE Restart
  BY <1>4 DEF Restart, callVars, fileVars, TypeOK, CacheInv, CallBounded, Running
<1>5. CASE Reopen
  BY <1>5 DEF Reopen, callVars, fileVars, TypeOK, CacheInv, CallBounded, Running
<1>. QED  BY <1>2, <1>3, <1>4, <1>5

\* Every step of the client, of whichever process.
LEMMA ClientStep ==
    ASSUME ClientInv, [Next \/ CrashInRow \/ Reopen]_clientVars
    PROVE  ClientInv'
<1>1. CASE UNCHANGED clientVars
  BY <1>1 DEF clientVars, callVars, fileVars, ClientInv, TypeOK, CacheInv, CallBounded, Running
<1>. QED  BY <1>1, CallStep, FileStep DEF Next, Work

\* What the invariant says to callers.
LEMMA ClientPromises ==
    ASSUME ClientInv
    PROVE  TypeOK /\ StableAnswers /\ NeverAskedAgain /\ CallBounded
<1>1. StableAnswers
  BY DEF ClientInv, CacheInv, Functional, StableAnswers
<1>2. NeverAskedAgain
  BY DEF ClientInv, CacheInv, NeverAskedAgain, Known
<1>. QED  BY <1>1, <1>2 DEF ClientInv

\* TypeOK, StableAnswers, NeverAskedAgain and CallBounded of the client alone,
\* with kills between and within the writes of rows (CachedClient.complete,
\* CachedClient.__init__, OpenAICompatibleClient.complete, _post_with_retry).
THEOREM ClientIsSafe ==
    TearingSpec => [](TypeOK /\ StableAnswers /\ NeverAskedAgain /\ CallBounded)
<1>1. ClientInv /\ [Next \/ CrashInRow]_clientVars => ClientInv'
  BY ClientStep
<1>. QED  BY <1>1, ClientInit, ClientPromises, PTL DEF TearingSpec
-----------------------------------------------------------------------------
(***************************************************************************)
(* The run and its client                                                  *)
(***************************************************************************)

\* The answer to a call that is going on is waited for, by the first run; a run
\* that is over has no call.
CallInv ==
    /\ phase \in {"sdk", "post", "append"} =>
          job = "online" /\ step \in {"ask1", "ask2"} /\ request = asked
    /\ step = "over" => phase = "idle"

\* Every step of the run is a step of the client, another process that takes
\* over, or nothing to the client.
LEMMA RunUsesClient ==
    ASSUME CallInv, [ControlNext]_controlVars
    PROVE  [Next \/ CrashInRow \/ Reopen]_clientVars
<1>1. CASE BeginTask \/ CheckoutFails \/ ReadFiles \/ ReadIndex \/ ReadFunctions
           \/ ScoreRun \/ ScoreDies
  BY <1>1 DEF BeginTask, Asking, CheckoutFails, ReadFiles, ReadIndex, ReadFunctions, ScoreRun,
              ScoreDies
<1>2. CASE \E k \in Keys : Ask(k)
  BY <1>2 DEF Ask, Next
<1>3. CASE CallGoesOn \/ CrashRun \/ RestartRun
  BY <1>3 DEF CallGoesOn, CrashRun, RestartRun, Next
<1>4. CASE RepeatOffline
  BY <1>4 DEF RepeatOffline, CallInv, Reopen
<1>. QED  BY <1>1, <1>2, <1>3, <1>4 DEF ControlNext, RunWork, controlVars

\* A call of the client that the run makes or waits for
LEMMA CallStepRun ==
    ASSUME ClientInv, CallInv, [ControlNext]_controlVars
    PROVE  CallInv'
<1>1. CASE BeginTask \/ CheckoutFails
  BY <1>1 DEF BeginTask, Asking, CheckoutFails, AtTask, Drop, NextTask, clientVars, CallInv
<1>2. CASE ReadFiles \/ ReadIndex \/ ReadFunctions
  BY <1>2 DEF ReadFiles, ReadIndex, ReadFunctions, Keep, Drop, NextTask, clientVars, callVars, CallInv
<1>3. CASE ScoreRun \/ ScoreDies
  BY <1>3 DEF ScoreRun, ScoreDies, clientVars, CallInv
<1>4. CASE \E k \in Keys : Ask(k)
  <2>. PICK k \in Keys : Ask(k)  BY <1>4
  <2>1. CASE Hit(k) /\ \E row \in mem : row[1] = k /\ Read(row[2])
    BY <2>1 DEF Hit, Read, CallInv
  <2>2. CASE job = "online" /\ Miss(k) /\ UNCHANGED runVars
    BY <2>2 DEF Ask, Miss, runVars, taskVars, CallInv
  <2>3. CASE Drop("miss") /\ phase = "idle" /\ UNCHANGED clientVars
    BY <2>3 DEF Drop, NextTask, clientVars, CallInv
  <2>. QED  BY <2>1, <2>2, <2>3 DEF Ask
<1>5. CASE CallGoesOn
  <2>1. CASE phase' # "idle" /\ UNCHANGED runVars
    <3>1. phase \in {"sdk", "post", "append"} /\ UNCHANGED request
      BY <1>5, <2>1 DEF CallGoesOn, Work, SdkAnswers, PostAnswers, SdkRaises, PostTransient,
                        PostUnusable, PostRaises, StoreAnswer, Raise
    <3>. QED  BY <2>1, <3>1 DEF runVars, taskVars, CallInv
  <2>2. CASE phase' = "idle"
    BY <2>2 DEF CallInv
  <2>. QED  BY <2>1, <2>2, <1>5 DEF CallGoesOn, Work, SdkAnswers, PostAnswers, SdkRaises,
                                PostTransient, PostUnusable, PostRaises, StoreAnswer, Raise
<1>6. CASE CrashRun
  BY <1>6 DEF CrashRun, Crash, Forget, FreshOutput, CallInv
<1>7. CASE RestartRun
  BY <1>7 DEF RestartRun, Restart, runVars, taskVars, CallInv
<1>8. CASE RepeatOffline
  BY <1>8 DEF RepeatOffline, FreshOutput, callVars, CallInv
<1>9. CASE UNCHANGED controlVars
  BY <1>9 DEF controlVars, clientVars, callVars, runVars, taskVars, CallInv
<1>. QED  BY <1>1, <1>2, <1>3, <1>4, <1>5, <1>6, <1>7, <1>8, <1>9 DEF ControlNext, RunWork

\* The client's promises, over the whole life of a run: killed, started again
\* and repeated offline from its cache (run_control, CachedClient).
THEOREM RunKeepsClientSafe ==
    ControlSpec => [](TypeOK /\ StableAnswers /\ NeverAskedAgain /\ CallBounded)
<1>1. ControlInit => ClientInv /\ CallInv
  BY ClientInit DEF ControlInit, Init, CallInv
<1>2. ClientInv /\ CallInv /\ [ControlNext]_controlVars => (ClientInv /\ CallInv)'
  BY RunUsesClient, ClientStep, CallStepRun
<1>. QED  BY <1>1, <1>2, ClientPromises, PTL DEF ControlSpec
-----------------------------------------------------------------------------
(***************************************************************************)
(* What the cache determines                                               *)
(***************************************************************************)

\* The requests of a task: for files, and for functions of some files
Asks1(t) == FilesRequest(t.issue, Tree(t.base))
Asks2(t, paths) ==
    FunctionsRequest(t.issue, [i \in DOMAIN paths |-> <<paths[i], IndexOf(t.base, paths[i])>>])

\* What is shown of the functions of some files of a commit
SpansOf(c, paths) == [p \in Range(paths) |-> IndexOf(c, p)]

\* The answers of S to the requests of a task lead to the flags f.
Outcome(l, t, S, f) ==
    \E v \in Usable :
        /\ <<Asks1(t), v>> \in S
        /\ LET paths == Ranked(t.base, v)
           IN  IF l = "file" \/ paths = << >> THEN f = FileFlags(paths)
               ELSE \E w \in Usable : /\ <<Asks2(t, paths), w>> \in S
                                      /\ f = Located(SpansOf(t.base, paths), w)

\* Flags that a cache led to, it leads to when it has grown.
LEMMA OutcomeStays ==
    ASSUME NEW l, NEW t, NEW f, NEW S, NEW T, S \subseteq T, Outcome(l, t, S, f)
    PROVE  Outcome(l, t, T, f)
  BY DEF Outcome

\* A functional cache leads to one outcome.
LEMMA OutcomeUnique ==
    ASSUME NEW l, NEW t, NEW f, NEW g, NEW S, Functional(S),
           Outcome(l, t, S, f), Outcome(l, t, S, g)
    PROVE  f = g
<1>1. ASSUME NEW k, NEW v, NEW w, <<k, v>> \in S, <<k, w>> \in S
      PROVE  v = w
  BY <1>1 DEF Functional
<1>2. PICK v \in Usable :
         /\ <<Asks1(t), v>> \in S
         /\ LET paths == Ranked(t.base, v)
            IN  IF l = "file" \/ paths = << >> THEN f = FileFlags(paths)
                ELSE \E w \in Usable : /\ <<Asks2(t, paths), w>> \in S
                                       /\ f = Located(SpansOf(t.base, paths), w)
  BY DEF Outcome
<1>. DEFINE paths == Ranked(t.base, v)
<1>3. IF l = "file" \/ paths = << >> THEN g = FileFlags(paths)
      ELSE \E w \in Usable : /\ <<Asks2(t, paths), w>> \in S
                             /\ g = Located(SpansOf(t.base, paths), w)
  BY <1>1, <1>2 DEF Outcome
<1>. HIDE DEF paths
<1>. QED  BY <1>1, <1>2, <1>3 DEF paths

\* Where it leads to some flags, every answer on the way is usable and there.
LEMMA OutcomeAnswers ==
    ASSUME NEW l, NEW t, NEW f, NEW S, Functional(S), Outcome(l, t, S, f)
    PROVE  /\ Asks1(t) \in Known(S)
           /\ \A v : <<Asks1(t), v>> \in S =>
                /\ v \in Usable
                /\ l # "file" /\ Ranked(t.base, v) # << >> =>
                     /\ Asks2(t, Ranked(t.base, v)) \in Known(S)
                     /\ \A w : <<Asks2(t, Ranked(t.base, v)), w>> \in S => w \in Usable
<1>1. ASSUME NEW k, NEW v, NEW w, <<k, v>> \in S, <<k, w>> \in S
      PROVE  v = w
  BY <1>1 DEF Functional
<1>2. ASSUME NEW k, NEW v, <<k, v>> \in S
      PROVE  k \in Known(S)
  BY <1>2 DEF Known
<1>. QED  BY <1>1, <1>2 DEF Outcome
-----------------------------------------------------------------------------
(***************************************************************************)
(* Where a task has got to                                                 *)
(***************************************************************************)

\* The checkout is the task's, and each request and each answer is the one that
\* the cache determines.
TaskInv ==
    /\ step \in {"ask1", "read1", "index", "ask2", "read2"} =>
          next \in DOMAIN Tasks /\ head[Task.repo] = {Task.base}
    /\ step = "ask1" => asked = {Asks1(Task)}
    /\ step = "read1" => \E v : got = {v} /\ <<Asks1(Task), v>> \in rows
    /\ step \in {"index", "ask2", "read2"} =>
          /\ level # "file" /\ ranked # << >>
          /\ \E v \in Usable : <<Asks1(Task), v>> \in rows /\ ranked = Ranked(Task.base, v)
    /\ step \in {"ask2", "read2"} =>
          /\ asked = {Asks2(Task, ranked)}
          /\ \A p \in Range(ranked) : IndexKey(Task.base, p) \in Known(index)
    /\ step = "read2" => \E w : got = {w} /\ <<Asks2(Task, ranked), w>> \in rows

\* The index caches what the files of the commits define.
IndexInv == \A row \in index : \E c, p : row = <<IndexKey(c, p), IndexOf(c, p)>>

\* Flags are those of tasks, as the cache determines them.
Determined(F) ==
    \A t \in DOMAIN F : \E i \in DOMAIN Tasks :
        Tasks[i].id = t /\ Outcome(level, Tasks[i], rows, F[t])

\* Only a checkout keeps the repetition from what the run had.
ErrorsInv ==
    job = "offline" =>
        \A first \in firstRun : \A t \in DOMAIN first \intersect DOMAIN errors :
            errors[t] = "checkout"

RunInv ==
    /\ TaskInv /\ IndexInv
    /\ DOMAIN head = Repos /\ head = [r \in DOMAIN head |-> head[r]]
    /\ Determined(flags)
    /\ \A first \in firstRun : Determined(first)
    /\ ErrorsInv

\* A lookup in the index gives what the file defines.
LEMMA SpansAreTrue ==
    ASSUME IndexInv, NEW c, NEW p, IndexKey(c, p) \in Known(index)
    PROVE  Spans(index, c, p) = IndexOf(c, p)
<1>. DEFINE found == {row[2] : row \in {x \in index : x[1] = IndexKey(c, p)}}
<1>1. \A row \in index : row[1] = IndexKey(c, p) => row[2] = IndexOf(c, p)
  BY DEF IndexInv, IndexKey
<1>2. \E row \in index : row[1] = IndexKey(c, p)
  BY DEF Known
<1>3. found = {IndexOf(c, p)}
  BY <1>1, <1>2
<1>4. Spans(index, c, p) = CHOOSE s \in found : TRUE
  BY DEF Spans
<1>. QED  BY <1>3, <1>4

\* The file and the level are kept: what was determined stays so.
LEMMA DeterminedStays ==
    ASSUME NEW F, Determined(F), rows \subseteq rows', level' = level
    PROVE  Determined(F)'
  BY OutcomeStays DEF Determined

\* A task that is given up offline had no flags in the run that is repeated,
\* or its checkout failed.
LEMMA DropKeeps ==
    ASSUME RunInv, NEW reason, Drop(reason), next \in DOMAIN Tasks,
           rows \subseteq rows',
           job = "offline" /\ reason # "checkout" =>
               ~ \E f : Outcome(level, Task, rows, f),
           DOMAIN head' = Repos, head' = [r \in DOMAIN head' |-> head'[r]]
    PROVE  RunInv'
<1>1. /\ step' = "task"
      /\ UNCHANGED <<level, job, index, flags, firstRun>>
      /\ errors' = [t \in DOMAIN errors \union {Task.id} |->
                       IF t = Task.id THEN reason ELSE errors[t]]
  BY DEF Drop, NextTask, Assign
<1>2. ErrorsInv'
  <2>. SUFFICES ASSUME job = "offline", NEW first \in firstRun,
                       NEW t \in DOMAIN first, t = Task.id
                PROVE  reason = "checkout"
    BY <1>1 DEF ErrorsInv, RunInv
  <2>1. PICK i \in DOMAIN Tasks :
           Tasks[i].id = t /\ Outcome(level, Tasks[i], rows, first[t])
    BY DEF RunInv, Determined
  <2>2. Tasks[i] = Task
    BY <2>1, TasksAssumption DEF Task
  <2>. QED  BY <2>1, <2>2
<1>3. Determined(flags)' /\ \A first \in firstRun' : Determined(first)'
  BY <1>1, DeterminedStays DEF RunInv, Determined
<1>. QED  BY <1>1, <1>2, <1>3 DEF RunInv, TaskInv, IndexInv

\* A task that is kept has the flags that the cache determines.
LEMMA KeepKeeps ==
    ASSUME RunInv, NEW found, Keep(found), next \in DOMAIN Tasks, rows' = rows,
           Outcome(level, Task, rows, found)
    PROVE  RunInv'
<1>1. /\ step' = "task"
      /\ UNCHANGED <<level, job, head, index, errors, firstRun>>
      /\ flags' = [t \in DOMAIN flags \union {Task.id} |->
                      IF t = Task.id THEN found ELSE flags[t]]
  BY DEF Keep, NextTask, Assign
<1>2. ASSUME NEW t \in DOMAIN flags'
      PROVE  \E i \in DOMAIN Tasks :
                 Tasks[i].id = t /\ Outcome(level, Tasks[i], rows, flags'[t])
  <2>1. CASE t = Task.id
    BY <1>1, <2>1 DEF Task
  <2>2. CASE t # Task.id
    BY <1>1, <2>2 DEF RunInv, Determined
  <2>. QED  BY <2>1, <2>2
<1>3. Determined(flags)'
  BY <1>1, <1>2 DEF Determined
<1>4. \A first \in firstRun' : Determined(first)'
  BY <1>1, DeterminedStays DEF RunInv
<1>. QED  BY <1>1, <1>3, <1>4 DEF RunInv, TaskInv, IndexInv, ErrorsInv

\* Steps that leave the task where it is, while the cache grows.
LEMMA StayKeeps ==
    ASSUME RunInv, rows \subseteq rows', UNCHANGED runVars
    PROVE  RunInv'
<1>1. UNCHANGED <<level, job, step, next, asked, got, ranked, head, index, flags, errors, firstRun>>
  BY DEF runVars, taskVars, outVars
<1>2. Determined(flags)' /\ \A first \in firstRun' : Determined(first)'
  BY <1>1, DeterminedStays DEF RunInv, Determined
<1>3. TaskInv'
  BY <1>1 DEF RunInv, TaskInv, Task
<1>. QED  BY <1>1, <1>2, <1>3 DEF RunInv, IndexInv, ErrorsInv

\* What the cache determined stays so over every step that keeps the outputs.
LEMMA OutputsKept ==
    ASSUME RunInv, rows \subseteq rows', UNCHANGED <<level, job, outVars, firstRun>>
    PROVE  /\ Determined(flags)'
           /\ \A first \in firstRun' : Determined(first)'
           /\ ErrorsInv'
<1>1. UNCHANGED <<flags, errors>>
  BY DEF outVars
<1>. QED  BY <1>1, DeterminedStays DEF RunInv, Determined, ErrorsInv

\* The checkout of a task, or what keeps it from one
LEMMA BeginStep ==
    ASSUME ClientInv, RunInv, BeginTask \/ CheckoutFails
    PROVE  RunInv'
<1>1. next \in DOMAIN Tasks /\ Task.repo \in Repos
  BY TasksAssumption DEF BeginTask, CheckoutFails, AtTask, Task
<1>2. CASE BeginTask
  <2>1. /\ head' = [head EXCEPT ![Task.repo] = {Task.base}]
        /\ step' = "ask1"
        /\ UNCHANGED <<level, job, next, index, outVars, firstRun, rows>>
    BY <1>2 DEF BeginTask, Asking, clientVars, fileVars
  <2>2. /\ DOMAIN head' = Repos /\ head' = [r \in DOMAIN head' |-> head'[r]]
        /\ head'[Task.repo] = {Task.base}
    BY <1>1, <2>1 DEF RunInv
  <2>3. asked' = {Asks1(Task)}
    BY <1>2, <2>2 DEF BeginTask, Asking, Asks1
  <2>4. Task' = Task
    BY <2>1 DEF Task
  <2>5. TaskInv'
    BY <1>1, <2>1, <2>2, <2>3, <2>4 DEF TaskInv
  <2>. QED  BY <2>1, <2>2, <2>5, OutputsKept DEF RunInv, IndexInv
<1>3. CASE CheckoutFails
  <2>1. Drop("checkout") /\ UNCHANGED <<rows, head>>
    BY <1>3 DEF CheckoutFails, clientVars, fileVars
  <2>. QED  BY <1>1, <2>1, DropKeeps DEF RunInv
<1>. QED  BY <1>2, <1>3

\* What complete returns is what the cache has for the request.
LEMMA ReadKeeps ==
    ASSUME RunInv, rows \subseteq rows', step \in {"ask1", "ask2"},
           NEW k, NEW v, asked = {k}, <<k, v>> \in rows', Read(v)
    PROVE  RunInv'
<1>1. /\ got' = {v} /\ step' = IF step = "ask1" THEN "read1" ELSE "read2"
      /\ UNCHANGED <<level, job, next, asked, ranked, head, index, outVars, firstRun>>
  BY DEF Read
<1>2. Task' = Task
  BY <1>1 DEF Task
<1>3. TaskInv'
  BY <1>1, <1>2 DEF RunInv, TaskInv
<1>. QED  BY <1>1, <1>3, OutputsKept DEF RunInv, IndexInv

\* A request whose answer is not in the cache has no outcome in it.
LEMMA MissHasNoOutcome ==
    ASSUME ClientInv, RunInv, step \in {"ask1", "ask2"},
           NEW k, asked = {k}, k \notin Known(rows)
    PROVE  ~ \E f : Outcome(level, Task, rows, f)
<1>. SUFFICES ASSUME NEW f, Outcome(level, Task, rows, f) PROVE FALSE
  OBVIOUS
<1>1. Functional(rows)
  BY DEF ClientInv, CacheInv
<1>2. CASE step = "ask1"
  BY <1>1, <1>2, OutcomeAnswers DEF RunInv, TaskInv
<1>3. CASE step = "ask2"
  <2>1. PICK v \in Usable : <<Asks1(Task), v>> \in rows /\ ranked = Ranked(Task.base, v)
    BY <1>3 DEF RunInv, TaskInv
  <2>2. level # "file" /\ ranked # << >> /\ k = Asks2(Task, ranked)
    BY <1>3 DEF RunInv, TaskInv
  <2>. QED  BY <1>1, <2>1, <2>2, OutcomeAnswers
<1>. QED  BY <1>2, <1>3

\* A request that is answered from the cache, asked, or given up
LEMMA AskStep ==
    ASSUME ClientInv, CallInv, RunInv, NEW k \in Keys, Ask(k)
    PROVE  RunInv'
<1>1. step \in {"ask1", "ask2"} /\ asked = {k}
  BY DEF Ask
<1>2. CASE Hit(k) /\ \E row \in mem : row[1] = k /\ Read(row[2])
  <2>1. PICK row \in mem : row[1] = k /\ Read(row[2])
    BY <1>2
  <2>2. rows' = rows /\ <<k, row[2]>> \in rows
    BY <1>2, <2>1 DEF Hit, fileVars, ClientInv, CacheInv, Running, TypeOK
  <2>. QED  BY <1>1, <2>1, <2>2, ReadKeeps
<1>3. CASE Miss(k) /\ UNCHANGED runVars
  BY <1>3, StayKeeps DEF Miss, fileVars
<1>4. CASE /\ phase = "idle" /\ k \notin Known(mem)
           /\ Drop("miss") /\ UNCHANGED <<clientVars, head>>
  <2>1. k \notin Known(rows) /\ rows' = rows
    BY <1>4 DEF ClientInv, CacheInv, Running, clientVars, fileVars
  <2>2. next \in DOMAIN Tasks
    BY <1>1 DEF RunInv, TaskInv
  <2>3. ~ \E f : Outcome(level, Task, rows, f)
    BY <1>1, <2>1, MissHasNoOutcome
  <2>. QED  BY <1>4, <2>1, <2>2, <2>3, DropKeeps DEF RunInv
<1>. QED  BY <1>2, <1>3, <1>4 DEF Ask

\* A call to the model goes on, returns or raises, which only the first run makes.
LEMMA CallKeeps ==
    ASSUME ClientInv, CallInv, RunInv, CallGoesOn
    PROVE  RunInv'
<1>0. rows \subseteq rows'
  BY DEF CallGoesOn, Work, SdkAnswers, PostAnswers, SdkRaises, PostTransient, PostUnusable,
         PostRaises, StoreAnswer, fileVars
<1>1. CASE UNCHANGED runVars
  BY <1>0, <1>1, StayKeeps
<1>2. CASE phase = "append" /\ \E v \in answer : Read(v)
  <2>1. PICK v \in answer : Read(v)
    BY <1>2
  <2>2. step \in {"ask1", "ask2"} /\ request = asked
    BY <1>2 DEF CallInv
  <2>3. PICK k \in Keys : request = {k}
    BY <1>2 DEF ClientInv, CacheInv
  <2>4. StoreAnswer
    BY <1>2 DEF CallGoesOn, Work, SdkAnswers, PostAnswers, SdkRaises, PostTransient,
                PostUnusable, PostRaises
  <2>5. <<k, v>> \in rows'
    BY <2>1, <2>3, <2>4 DEF StoreAnswer
  <2>. QED  BY <1>0, <2>1, <2>2, <2>3, <2>5, ReadKeeps
<1>3. CASE phase \in {"sdk", "post"} /\ Drop("model") /\ UNCHANGED head
  <2>1. job = "online" /\ next \in DOMAIN Tasks
    BY <1>3 DEF CallInv, RunInv, TaskInv
  <2>. QED  BY <1>0, <1>3, <2>1, DropKeeps DEF RunInv
<1>. QED  BY <1>1, <1>2, <1>3 DEF CallGoesOn

\* The files that were answered: flags at level "file" or when there are none,
\* nothing if the answer is not JSON, and otherwise their functions are next.
LEMMA ReadFilesStep ==
    ASSUME ClientInv, RunInv, ReadFiles
    PROVE  RunInv'
<1>1. /\ step = "read1" /\ next \in DOMAIN Tasks /\ head[Task.repo] = {Task.base}
      /\ UNCHANGED rows /\ Functional(rows)
  BY DEF ReadFiles, RunInv, TaskInv, clientVars, fileVars, ClientInv, CacheInv
<1>2. PICK v : got = {v} /\ <<Asks1(Task), v>> \in rows
  BY <1>1 DEF RunInv, TaskInv
<1>. DEFINE paths == Ranked(Task.base, v)
<1>3. IF v \notin Usable THEN Drop("json") /\ UNCHANGED head
      ELSE IF level = "file" \/ paths = << >> THEN Keep(FileFlags(paths))
      ELSE /\ ranked' = paths /\ step' = "index"
           /\ UNCHANGED <<level, job, next, head, asked, got, index, outVars, firstRun, crashes>>
  BY <1>1, <1>2 DEF ReadFiles
<1>4. CASE v \notin Usable
  <2>1. ~ \E f : Outcome(level, Task, rows, f)
    BY <1>1, <1>2, <1>4, OutcomeAnswers
  <2>. QED  BY <1>1, <1>3, <1>4, <2>1, DropKeeps DEF RunInv
<1>5. CASE v \in Usable /\ (level = "file" \/ paths = << >>)
  <2>1. Outcome(level, Task, rows, FileFlags(paths))
    BY <1>2, <1>5 DEF Outcome
  <2>. QED  BY <1>1, <1>3, <1>5, <2>1, KeepKeeps
<1>6. CASE v \in Usable /\ level # "file" /\ paths # << >>
  <2>1. /\ ranked' = paths /\ step' = "index"
        /\ UNCHANGED <<level, job, next, head, asked, got, index, outVars, firstRun>>
    BY <1>3, <1>6
  <2>2. Task' = Task
    BY <2>1 DEF Task
  <2>3. TaskInv'
    BY <1>1, <1>2, <1>6, <2>1, <2>2 DEF TaskInv
  <2>. QED  BY <1>1, <2>1, <2>3, OutputsKept DEF RunInv, IndexInv
<1>. QED  BY <1>4, <1>5, <1>6

\* Reading files of a commit adds what they define.
LEMMA IndexGrows ==
    ASSUME IndexInv, NEW c, NEW paths
    PROVE  /\ \A row \in Indexed(c, paths) : \E d, p : row = <<IndexKey(d, p), IndexOf(d, p)>>
           /\ \A p \in paths : IndexKey(c, p) \in Known(index \union Indexed(c, paths))
<1>1. ASSUME NEW p \in paths, IndexKey(c, p) \notin Known(index)
      PROVE  IndexKey(c, p) \in Known(Indexed(c, paths))
  <2>1. <<IndexKey(c, p), IndexOf(c, p)>> \in Indexed(c, paths)
    BY <1>1 DEF Indexed
  <2>. QED  BY <2>1 DEF Known
<1>. QED  BY <1>1 DEF Indexed, Known

\* The functions of the files are looked up, and asked for.
LEMMA ReadIndexStep ==
    ASSUME ClientInv, RunInv, ReadIndex
    PROVE  RunInv'
<1>1. /\ step = "index" /\ step' = "ask2"
      /\ UNCHANGED <<level, job, next, head, got, ranked, outVars, firstRun, rows>>
      /\ index' = index \union Indexed(Task.base, Range(ranked))
  BY DEF ReadIndex, clientVars, fileVars
<1>2. IndexInv'
  BY <1>1, IndexGrows DEF RunInv, IndexInv
<1>3. \A p \in Range(ranked) : IndexKey(Task.base, p) \in Known(index')
  BY <1>1, IndexGrows DEF RunInv
<1>4. ASSUME NEW p \in Range(ranked)
      PROVE  Spans(index', Task.base, p) = IndexOf(Task.base, p)
  <2>. DEFINE found == {row[2] : row \in {x \in index' : x[1] = IndexKey(Task.base, p)}}
  <2>1. \A row \in index' : row[1] = IndexKey(Task.base, p) => row[2] = IndexOf(Task.base, p)
    BY <1>2 DEF IndexInv, IndexKey
  <2>2. \E row \in index' : row[1] = IndexKey(Task.base, p)
    BY <1>3 DEF Known
  <2>3. found = {IndexOf(Task.base, p)}
    BY <2>1, <2>2
  <2>4. Spans(index', Task.base, p) = CHOOSE s \in found : TRUE
    BY DEF Spans
  <2>. QED  BY <2>3, <2>4
<1>5. [i \in DOMAIN ranked |-> <<ranked[i], Spans(index', Task.base, ranked[i])>>]
         = [i \in DOMAIN ranked |-> <<ranked[i], IndexOf(Task.base, ranked[i])>>]
  BY <1>4 DEF Range
<1>6. asked' = {Asks2(Task, ranked)}
  BY <1>5 DEF ReadIndex, Asks2
<1>7. Task' = Task
  BY <1>1 DEF Task
<1>8. TaskInv'
  BY <1>1, <1>3, <1>6, <1>7 DEF RunInv, TaskInv
<1>. QED  BY <1>1, <1>2, <1>8, OutputsKept DEF RunInv

\* The functions that were answered are located among those that were shown.
LEMMA ReadFunctionsStep ==
    ASSUME ClientInv, RunInv, ReadFunctions
    PROVE  RunInv'
<1>1. /\ step = "read2" /\ next \in DOMAIN Tasks
      /\ UNCHANGED rows /\ Functional(rows)
  BY DEF ReadFunctions, RunInv, TaskInv, clientVars, fileVars, ClientInv, CacheInv
<1>2. PICK w : got = {w} /\ <<Asks2(Task, ranked), w>> \in rows
  BY <1>1 DEF RunInv, TaskInv
<1>3. PICK v \in Usable : <<Asks1(Task), v>> \in rows /\ ranked = Ranked(Task.base, v)
  BY <1>1 DEF RunInv, TaskInv
<1>4. level # "file" /\ ranked # << >>
  BY <1>1 DEF RunInv, TaskInv
<1>5. Shown = SpansOf(Task.base, ranked)
  <2>1. \A p \in Range(ranked) : Spans(index, Task.base, p) = IndexOf(Task.base, p)
    BY <1>1, SpansAreTrue DEF RunInv, TaskInv
  <2>. QED  BY <2>1 DEF Shown, SpansOf
<1>6. IF w \notin Usable THEN Drop("json") /\ UNCHANGED head ELSE Keep(Located(Shown, w))
  BY <1>2 DEF ReadFunctions
<1>7. CASE w \notin Usable
  <2>1. ~ \E f : Outcome(level, Task, rows, f)
    BY <1>1, <1>2, <1>3, <1>4, <1>7, OutcomeAnswers
  <2>. QED  BY <1>1, <1>6, <1>7, <2>1, DropKeeps DEF RunInv
<1>8. CASE w \in Usable
  <2>1. Outcome(level, Task, rows, Located(Shown, w))
    BY <1>2, <1>3, <1>4, <1>5, <1>8 DEF Outcome
  <2>. QED  BY <1>1, <1>6, <1>8, <2>1, KeepKeeps
<1>. QED  BY <1>7, <1>8

\* The end of a run, its deaths and its repetition
LEMMA LifeStep ==
    ASSUME ClientInv, RunInv,
           ScoreRun \/ ScoreDies \/ CrashRun \/ RestartRun \/ RepeatOffline
    PROVE  RunInv'
<1>1. CASE ScoreRun
  <2>1. /\ step' = "over" /\ UNCHANGED <<level, job, outVars, rows>>
        /\ firstRun' \subseteq firstRun \union {flags}
        /\ job = "offline" => firstRun' = firstRun
        /\ DOMAIN head' = Repos /\ head' = [r \in DOMAIN head' |-> head'[r]]
    BY <1>1 DEF ScoreRun, clientVars, fileVars
  <2>2. IndexInv'
    <3>1. ASSUME NEW i \in ToResolve, NEW row \in Indexed(Tasks[i].base, Tasks[i].gold)
          PROVE  \E c, p : row = <<IndexKey(c, p), IndexOf(c, p)>>
      BY DEF Indexed
    <3>2. index' = index \union UNION {Indexed(Tasks[i].base, Tasks[i].gold) : i \in ToResolve}
      BY <1>1 DEF ScoreRun
    <3>. QED  BY <3>1, <3>2 DEF RunInv, IndexInv
  <2>3. \A first \in firstRun' : Determined(first)'
    BY <2>1, DeterminedStays DEF RunInv
  <2>4. Determined(flags)' /\ ErrorsInv'
    BY <2>1 DEF RunInv, Determined, ErrorsInv, outVars
  <2>5. TaskInv'
    BY <2>1 DEF TaskInv
  <2>. QED  BY <2>1, <2>2, <2>3, <2>4, <2>5 DEF RunInv
<1>2. CASE ScoreDies
  <2>1. step' = "dead" /\ UNCHANGED <<level, job, index, head, outVars, firstRun, rows>>
    BY <1>2 DEF ScoreDies, clientVars, fileVars
  <2>2. TaskInv'
    BY <2>1 DEF TaskInv
  <2>. QED  BY <2>1, <2>2, OutputsKept DEF RunInv, IndexInv
<1>3. CASE CrashRun \/ RepeatOffline
  <2>1. /\ step' = "task" /\ DOMAIN flags' = {} /\ DOMAIN errors' = {}
        /\ UNCHANGED <<level, head, firstRun>>
        /\ rows \subseteq rows'
        /\ index' \in {index, {}}
    BY <1>3 DEF CrashRun, RepeatOffline, Crash, FreshOutput, None, fileVars
  <2>2. TaskInv'
    BY <2>1 DEF TaskInv
  <2>3. \A first \in firstRun' : Determined(first)'
    BY <2>1, DeterminedStays DEF RunInv
  <2>. QED  BY <2>1, <2>2, <2>3 DEF RunInv, IndexInv, Determined, ErrorsInv
<1>4. CASE RestartRun
  BY <1>4, StayKeeps DEF RestartRun, Restart, fileVars
<1>. QED  BY <1>1, <1>2, <1>3, <1>4

\* Every step of the run keeps what the cache determines.
LEMMA RunStep ==
    ASSUME ClientInv, CallInv, RunInv, [ControlNext]_controlVars
    PROVE  RunInv'
<1>1. CASE UNCHANGED controlVars
  BY <1>1, StayKeeps DEF controlVars, clientVars, fileVars
<1>. QED
  BY <1>1, BeginStep, AskStep, CallKeeps, ReadFilesStep, ReadIndexStep, ReadFunctionsStep, LifeStep
     DEF ControlNext, RunWork

\* The invariant
LEMMA RunInvariant == ControlSpec => [](ClientInv /\ CallInv /\ RunInv)
<1>1. ControlInit => ClientInv /\ CallInv /\ RunInv
  <2>. SUFFICES ASSUME ControlInit PROVE RunInv
    BY ClientInit DEF ControlInit, Init, CallInv
  <2>1. /\ step = "task" /\ index = {} /\ firstRun = {} /\ job = "online"
        /\ DOMAIN flags = {} /\ DOMAIN head = Repos /\ head = [r \in DOMAIN head |-> head[r]]
    BY DEF ControlInit, None
  <2>. QED  BY <2>1 DEF RunInv, TaskInv, IndexInv, Determined, ErrorsInv
<1>2. ClientInv /\ CallInv /\ RunInv /\ [ControlNext]_controlVars
         => (ClientInv /\ CallInv /\ RunInv)'
  BY RunUsesClient, ClientStep, CallStepRun, RunStep
<1>. QED  BY <1>1, <1>2, PTL DEF ControlSpec

\* RerunIdentical: the repetition of a run, offline and from the same cache,
\* gives every task the flags that it had, wherever the run was killed and
\* whatever the model would have said the second time (run_control: "rerun
\* offline from the same cache and diff").
THEOREM RepetitionIsIdentical == ControlSpec => []RerunIdentical
<1>1. ClientInv /\ RunInv => RerunIdentical
  <2>. SUFFICES ASSUME ClientInv, RunInv, job = "offline",
                       NEW first \in firstRun, NEW t \in DOMAIN first
                PROVE  /\ t \in DOMAIN flags => flags[t] = first[t]
                       /\ t \in DOMAIN errors => errors[t] = "checkout"
    BY DEF RerunIdentical
  <2>1. PICK i \in DOMAIN Tasks :
           Tasks[i].id = t /\ Outcome(level, Tasks[i], rows, first[t])
    BY DEF RunInv, Determined
  <2>2. ASSUME t \in DOMAIN flags
        PROVE  flags[t] = first[t]
    <3>1. PICK j \in DOMAIN Tasks :
             Tasks[j].id = t /\ Outcome(level, Tasks[j], rows, flags[t])
      BY <2>2 DEF RunInv, Determined
    <3>2. i = j
      BY <2>1, <3>1, TasksAssumption
    <3>3. Functional(rows)
      BY DEF ClientInv, CacheInv
    <3>. QED  BY <2>1, <3>1, <3>2, <3>3, OutcomeUnique
  <2>. QED  BY <2>2 DEF RunInv, ErrorsInv
<1>. QED  BY <1>1, RunInvariant, PTL
-----------------------------------------------------------------------------
(***************************************************************************)
(* What flags name                                                         *)
(***************************************************************************)
\* The least-number principle, in place of an induction over the naturals
LEMMA LeastOf ==
    ASSUME NEW T, T \subseteq Nat, T # {}
    PROVE  \E n \in T : \A m \in T : n <= m
<1>. DEFINE R == {p \in Nat \X Nat : p[1] < p[2]}
<1>1. R = OpToRel(<, Nat)
  BY DEF OpToRel
<1>2. IsWellFoundedOn(R, Nat)
  BY <1>1, NatLessThanWellFounded
<1>. HIDE DEF R
<1>3. PICK n \in T : \A m \in T : ~ (<<m, n>> \in R)
  BY <1>2, WFMin
<1>4. ASSUME NEW m \in T
      PROVE  n <= m
  <2>1. <<m, n>> \notin R /\ <<m, n>> \in Nat \X Nat
    BY <1>3
  <2>. QED  BY <2>1 DEF R
<1>. QED  BY <1>4

\* The first few after so many items, given the first few before the last of them
OneItemMore(r, m) ==
    IF Len(r) < TopK /\ ~ (m \subseteq Range(r)) THEN Append(r, CHOOSE x \in m : TRUE) ELSE r

\* few is what FirstFew computes up to item n of meant.
Chosen(meant, n, few) ==
    few = [i \in 0 .. n |-> IF i = 0 THEN << >> ELSE OneItemMore(few[i - 1], meant[i])]

LEMMA ChosenNext ==
    ASSUME NEW meant, NEW n \in Nat, NEW few, Chosen(meant, n, few)
    PROVE  \E more : Chosen(meant, n + 1, more)
<1>. DEFINE more == [i \in 0 .. n + 1 |-> IF i = n + 1 THEN OneItemMore(few[n], meant[n + 1])
                                         ELSE few[i]]
            E(i) == IF i = 0 THEN << >> ELSE OneItemMore(more[i - 1], meant[i])
<1>1. ASSUME NEW i \in 0 .. n + 1
      PROVE  more[i] = E(i)
  <2>1. CASE i = n + 1
    BY <2>1
  <2>2. CASE i \in 0 .. n /\ i # 0
    <3>1. few[i] = OneItemMore(few[i - 1], meant[i])
      BY <2>2 DEF Chosen
    <3>2. more[i] = few[i] /\ more[i - 1] = few[i - 1]
      BY <2>2
    <3>. QED  BY <2>2, <3>1, <3>2
  <2>3. CASE i = 0
    <3>1. few[0] = << >> /\ more[0] = few[0]
      BY DEF Chosen
    <3>. QED  BY <3>1, <2>3
  <2>. QED  BY <2>1, <2>2, <2>3
<1>2. more = [i \in 0 .. n + 1 |-> E(i)]
  BY <1>1
<1>. QED  BY <1>2 DEF Chosen

LEMMA ChosenExists ==
    ASSUME NEW meant, NEW n \in Nat
    PROVE  \E few : Chosen(meant, n, few)
<1>. DEFINE T == {i \in Nat : ~ \E few : Chosen(meant, i, few)}
<1>1. SUFFICES ASSUME T # {} PROVE FALSE
  OBVIOUS
<1>2. PICK i \in T : \A j \in T : i <= j
  BY <1>1, LeastOf
<1>3. Chosen(meant, 0, [j \in 0 .. 0 |-> << >>])
  BY DEF Chosen
<1>4. i - 1 \in Nat /\ i - 1 \notin T
  BY <1>2, <1>3
<1>5. PICK few : Chosen(meant, i - 1, few)
  BY <1>4
<1>6. \E more : Chosen(meant, (i - 1) + 1, more)
  BY <1>4, <1>5, ChosenNext
<1>. QED  BY <1>2, <1>6

\* The first few are a sequence of what the items stand for.
LEMMA FirstFewAreMeant ==
    ASSUME NEW meant, Len(meant) \in Nat, NEW S, \A i \in 1 .. Len(meant) : meant[i] \subseteq S
    PROVE  FirstFew(meant) \in Seq(S)
<1>. DEFINE few == CHOOSE few : Chosen(meant, Len(meant), few)
<1>1. Chosen(meant, Len(meant), few)
  BY ChosenExists
<1>2. FirstFew(meant) = few[Len(meant)]
  BY DEF FirstFew, Chosen, OneItemMore
<1>. HIDE DEF few
<1>. DEFINE T == {i \in 0 .. Len(meant) : few[i] \notin Seq(S)}
<1>3. SUFFICES ASSUME T # {} PROVE FALSE
  BY <1>2
<1>4. PICK i \in T : \A j \in T : i <= j
  <2>1. T \subseteq Nat
    OBVIOUS
  <2>. HIDE DEF T
  <2>. QED  BY <1>3, <2>1, LeastOf
<1>5. i # 0
  <2>1. few[0] = << >>
    BY <1>1 DEF Chosen
  <2>2. << >> \in Seq(S)
    OBVIOUS
  <2>. QED  BY <1>4, <2>1, <2>2
<1>6. i \in 1 .. Len(meant) /\ few[i - 1] \in Seq(S)
  BY <1>4, <1>5
<1>7. few[i] = OneItemMore(few[i - 1], meant[i])
  BY <1>1, <1>6 DEF Chosen
<1>8. ASSUME ~ (meant[i] \subseteq Range(few[i - 1]))
      PROVE  (CHOOSE x \in meant[i] : TRUE) \in S
  BY <1>6, <1>8
<1>9. few[i] \in Seq(S)
  BY <1>6, <1>7, <1>8 DEF OneItemMore
<1>. QED  BY <1>4, <1>9

\* The files of an answer are files that were shown.
LEMMA RankedAreShown ==
    ASSUME NEW c, NEW v \in Usable
    PROVE  Ranked(c, v) \in Seq(Range(Tree(c)))
<1>. DEFINE meant == [i \in DOMAIN v |-> {v[i][1]} \intersect Range(Tree(c))]
<1>1. v \in Seq(Range(v))
  BY AnswersAssumption
<1>2. meant \in Seq(SUBSET Range(Tree(c)))
  BY <1>1
<1>3. Len(meant) \in Nat /\ \A i \in 1 .. Len(meant) : meant[i] \subseteq Range(Tree(c))
  BY <1>2
<1>. HIDE DEF meant
<1>4. FirstFew(meant) \in Seq(Range(Tree(c)))
  BY <1>3, FirstFewAreMeant
<1>. QED  BY <1>4 DEF Ranked, meant

\* The functions of an answer are functions that were shown, with their lines.
LEMMA LocatedAreShown ==
    ASSUME NEW shown, NEW v \in Usable
    PROVE  \A f \in Range(Located(shown, v)) :
               /\ f.path \in DOMAIN shown
               /\ f.name # Module => /\ f.name \in DOMAIN shown[f.path]
                                     /\ f.lines = shown[f.path][f.name]
<1>. DEFINE isShown(item) == /\ item[1] \in DOMAIN shown
                             /\ item[2] \in {Module} \union DOMAIN shown[item[1]]
            flag(item) == [path |-> item[1], name |-> item[2],
                           lines |-> IF item[2] = Module THEN WholeFile
                                     ELSE shown[item[1]][item[2]]]
            meant == [i \in DOMAIN v |-> IF isShown(v[i]) THEN {flag(v[i])} ELSE {}]
            S == {flag(item) : item \in {x \in Range(v) : isShown(x)}}
<1>1. v \in Seq(Range(v))
  BY AnswersAssumption
<1>2. ASSUME NEW i \in 1 .. Len(v)
      PROVE  meant[i] \in SUBSET S
  <2>1. i \in DOMAIN v /\ v[i] \in Range(v)
    BY <1>1 DEF Range
  <2>2. meant[i] = IF isShown(v[i]) THEN {flag(v[i])} ELSE {}
    BY <2>1
  <2>3. isShown(v[i]) => flag(v[i]) \in S
    BY <2>1
  <2>. HIDE DEF meant, S, isShown, flag
  <2>4. CASE isShown(v[i])
    BY <2>2, <2>3, <2>4
  <2>5. CASE ~ isShown(v[i])
    BY <2>2, <2>5
  <2>. QED  BY <2>4, <2>5
<1>3. meant \in Seq(SUBSET S) /\ Len(meant) = Len(v) /\ DOMAIN meant = 1 .. Len(v)
  <2>1. DOMAIN v = 1 .. Len(v) /\ Len(v) \in Nat
    BY <1>1
  <2>2. meant = [i \in 1 .. Len(v) |-> meant[i]]
    BY <2>1
  <2>. HIDE DEF meant, S
  <2>3. meant \in [1 .. Len(v) -> SUBSET S]
    BY <1>2, <2>2
  <2>. QED  BY <2>1, <2>3
<1>4. \A f \in S : /\ f.path \in DOMAIN shown
                   /\ f.name # Module => /\ f.name \in DOMAIN shown[f.path]
                                         /\ f.lines = shown[f.path][f.name]
  OBVIOUS
<1>5. Located(shown, v) = FirstFew(meant)
  BY DEF Located
<1>. HIDE DEF meant, S
<1>6. Len(meant) \in Nat /\ \A i \in 1 .. Len(meant) : meant[i] \subseteq S
  BY <1>3
<1>7. FirstFew(meant) \in Seq(S)
  BY <1>6, FirstFewAreMeant
<1>8. Range(FirstFew(meant)) \subseteq S
  BY <1>7 DEF Range
<1>. QED  BY <1>4, <1>5, <1>8

\* The flag f is of the tree before the task's patch.
OfTree(t, f) ==
    /\ f.path \in Range(Tree(t.base))
    /\ f.name \notin {"", Module} =>
          /\ f.name \in DOMAIN IndexOf(t.base, f.path)
          /\ f.lines = IndexOf(t.base, f.path)[f.name]

\* Flags that the cache leads to are of the task's tree.
LEMMA OutcomeIsOfTree ==
    ASSUME NEW l, NEW t, NEW S, NEW g, Outcome(l, t, S, g), NEW f \in Range(g)
    PROVE  OfTree(t, f)
<1>1. PICK v \in Usable :
         LET paths == Ranked(t.base, v)
         IN  IF l = "file" \/ paths = << >> THEN g = FileFlags(paths)
             ELSE \E w \in Usable : g = Located(SpansOf(t.base, paths), w)
  BY DEF Outcome
<1>. DEFINE paths == Ranked(t.base, v)
<1>2. paths \in Seq(Range(Tree(t.base)))
  BY RankedAreShown
<1>3. Range(paths) \subseteq Range(Tree(t.base))
  <2>. HIDE DEF paths
  <2>. QED  BY <1>2 DEF Range
<1>4. CASE g = FileFlags(paths)
  <2>. HIDE DEF paths
  <2>1. PICK i \in DOMAIN paths : f = [path |-> paths[i], name |-> "", lines |-> WholeFile]
    BY <1>4 DEF FileFlags, Range
  <2>2. paths[i] \in Range(paths)
    BY DEF Range
  <2>. QED  BY <1>3, <2>1, <2>2 DEF OfTree
<1>5. CASE \E w \in Usable : g = Located(SpansOf(t.base, paths), w)
  <2>1. PICK w \in Usable : g = Located(SpansOf(t.base, paths), w)
    BY <1>5
  <2>. HIDE DEF paths
  <2>2. /\ f.path \in DOMAIN SpansOf(t.base, paths)
        /\ f.name # Module =>
              /\ f.name \in DOMAIN SpansOf(t.base, paths)[f.path]
              /\ f.lines = SpansOf(t.base, paths)[f.path][f.name]
    BY <2>1, LocatedAreShown
  <2>3. f.path \in Range(paths) /\ SpansOf(t.base, paths)[f.path] = IndexOf(t.base, f.path)
    BY <2>2 DEF SpansOf
  <2>. QED  BY <1>3, <2>2, <2>3 DEF OfTree
<1>. QED  BY <1>1, <1>4, <1>5

\* FlagsFromOwnTree: a flag names a file of its task's own tree and the lines that
\* its symbol has there, whatever the checkout, the index and the cache were left
\* with by other tasks, levels, kills and the first run (ensure_checkout,
\* FunctionIndexCache, LocalizerV2.localize).
THEOREM FlagsAreOfOwnTree == ControlSpec => []FlagsFromOwnTree
<1>1. RunInv => FlagsFromOwnTree
  <2>. SUFFICES ASSUME RunInv, NEW t \in Range(Tasks), t.id \in DOMAIN flags,
                       NEW f \in Range(flags[t.id])
                PROVE  OfTree(t, f)
    BY DEF FlagsFromOwnTree, OfTree
  <2>1. PICK i \in DOMAIN Tasks : Tasks[i].id = t.id /\ Outcome(level, Tasks[i], rows, flags[t.id])
    BY DEF RunInv, Determined
  <2>2. t = Tasks[i]
    BY <2>1, TasksAssumption DEF Range
  <2>3. Outcome(level, t, rows, flags[t.id])
    BY <2>1, <2>2
  <2>. QED  BY <2>3, OutcomeIsOfTree
<1>. QED  BY <1>1, RunInvariant, PTL
=============================================================================
