----------------------------- MODULE MCCampaign ------------------------------
(***************************************************************************)
(* Module Campaign for TLC: three repositories, one of them the negative   *)
(* control, and a fourth that is at the ceiling.                           *)
(***************************************************************************)
EXTENDS Campaign

\* Dates: in UTC strings sort as the instants do; the day is the instant.
Utc(n) == [text |-> n, day |-> {n}, instant |-> n]
Undated(n) == [text |-> n, day |-> {}, instant |-> n]

\* The source of m.py in a commit
L(kind, indent, name) == [kind |-> kind, indent |-> indent, name |-> name]
Def(indent, name) == L("def", indent, name)
Code(indent) == L("code", indent, "")
Blank == L("blank", 0, "")
Comment(indent) == L("comment", indent, "")
MCSources == [
    \* two functions
    flat |-> <<Def(0, "f"), Code(1), Code(1), Blank, L("at", 0, ""), Def(0, "g"), Code(1)>>,
    \* a class with a method, and a function
    nested |-> <<Code(0), L("class", 0, "C"), L("at", 1, ""), Def(1, "f"), Def(2, "h"), Code(2),
                 Def(0, "g"), Comment(0)>>,
    \* a property and its setter
    setter |-> <<L("class", 0, "C"), L("at", 1, ""), Def(1, "x"), Code(1), L("at", 1, ""),
                 Def(1, "x"), Code(2), Code(2)>>,
    \* what only one of the symbolisers sees, or sees elsewhere
    odd |-> <<L("class", 0, "C"), L("class", 1, "D"), Def(2, "f"), Comment(1),
              L("block", 0, ""), Def(1, "g"), Blank, L("at", 0, ""), Comment(0), Def(0, "h")>>,
    broken |-> <<Def(0, "f"), L("error", 1, "")>>,
    empty |-> << >> ]
MCCommits == DOMAIN MCSources
MCSourceAt(commit, path) == IF path = "m.py" THEN {MCSources[commit]} ELSE {}

Line(kind, path, start, count) == [kind |-> kind, path |-> path, start |-> start, count |-> count]
Diff(path) == Line("diff", path, 0, {})
OldName(path) == Line("minus", path, 0, {})
Plus(path) == Line("plus", path, 0, {})
Hunk(start, count) == Line("hunk", "", start, count)
Of(path) == <<Diff(path), OldName(path), Plus(path)>>
InF == Of("m.py") \o <<Hunk(2, {1})>>
InTest == Of("test_m.py") \o <<Hunk(1, {})>>

Row(id, repo, created, patch) ==
    [id |-> id, repo |-> repo, created |-> created, patch |-> patch, base |-> "flat",
     complete |-> TRUE, parent |-> {"flat"}, words |-> 1]

\* Not in order; B's second task has no gold file outside its tests.
CleanRows == <<Row(1, "A", Utc(9), InF), Row(2, "A", Utc(5), InF), Row(5, "B", Utc(6), InTest),
               Row(3, "A", Utc(7), InF), Row(4, "B", Utc(5), InF), Row(7, "N", Utc(8), InF),
               Row(6, "N", Utc(6), InF), Row(8, "D", Utc(5), InF)>>
\* The first task of A again, and with another date; one of the day of the
\* cutoff, one without a date
DirtyRows == <<Row(1, "A", Utc(9), InF), Row(2, "A", Utc(5), InF), Row(2, "A", Utc(3), InF),
               Row(3, "A", Utc(7), InF), Row(4, "B", Utc(4), InF), Row(5, "B", Undated(6), InF),
               Row(8, "B", Utc(5), InF), Row(9, "B", Utc(6), InF), Row(10, "N", Utc(2), InF)>>

\* Two files, one of them renamed, and a change to the list of changes
Mixed == Of("CHANGES.rst") \o <<Hunk(1, {2}), Diff("n.py"), OldName("n.py"), Plus("m.py"),
         Hunk(2, {3})>> \o InTest \o <<Hunk(4, {0})>>
\* A file that is removed, and one that is added
Moved == <<Diff("o.py"), OldName("o.py"), Hunk(1, {2}), Diff("n.py"), Plus("n.py"), Hunk(0, {0})>>
\* As git lists them; the committer's clock of the last one was behind.
HistoryRows == <<[Row(1, "A", Utc(4), InF) EXCEPT !.parent = {}], Row(2, "A", Utc(5), InF),
                 Row(3, "A", Utc(6), InTest), Row(4, "A", Utc(7), Mixed), Row(5, "A", Utc(6), InF)>>

Sharded == [x |-> {"A", "N"}, y |-> {"B"}]
Overlapping == [x |-> {"A"}, y |-> {"A", "N"}]
Single == [x |-> {"A", "B", "N", "D"}]

Setup(how, rows, gated, gatedRun, design, level, runs) ==
    [how |-> how, rows |-> rows, gated |-> gated, gatedRun |-> gatedRun,
     design |-> design, level |-> level, runs |-> runs]

\* One task, to be measured: a hunk at any line, or two, in every kind of index
Probes ==
    {Setup("load", <<[Row(1, "A", Utc(5), p) EXCEPT !.base = b]>>, FALSE, TRUE, "split", "function",
           [s \in {} |-> {}]) :
        b \in DOMAIN MCSources,
        p \in {Of("m.py") \o <<Hunk(i, c)>> : i \in 0 .. 10, c \in {{}, {0}, {1}, {3}}} \union
              {Of("m.py") \o <<Hunk(i, {1}), Hunk(j, {2})>> : i \in 1 .. 3, j \in 4 .. 7} \union
              {Mixed, Moved, InTest}}

MCSetups ==
    {Setup("load", CleanRows, FALSE, TRUE, "rolling", level, Sharded) : level \in {"file", "function"}}
    \union {Setup("pull_all", CleanRows, TRUE, FALSE, "split", level, runs) :
               level \in {"file", "source"}, runs \in {Sharded, Single}}
    \union {Setup(how, DirtyRows, gated, ~ gated, design, "function", Single) :
               how \in {"load", "pull", "pull_all"}, gated \in BOOLEAN, design \in {"split", "rolling"}}
    \union {Setup("history", HistoryRows, FALSE, TRUE, design, "function", Overlapping) :
               design \in {"split", "rolling"}}
    \union Probes

\* The commits of one repository, as git lists them; the committer of the second
\* one is seven hours to the east: "2024-05-01T23:30:00-05:00" is later than
\* "2024-05-02T01:00:00+02:00".
OffsetRows == <<Row(1, "A", [text |-> 5, day |-> {5}, instant |-> 5], InF),
                Row(2, "A", [text |-> 7, day |-> {7}, instant |-> 6], InF),
                Row(3, "A", [text |-> 6, day |-> {6}, instant |-> 7], InF)>>
MCOffsetSetups == {Setup("history", OffsetRows, FALSE, TRUE, "rolling", level, Single) :
                      level \in {"file", "source", "function"}}

Right(level) == IF level = "function" THEN Location("m.py", 1, 3, <<"f">>) ELSE FileLocation("m.py")
Wrong(level) == IF level = "function" THEN Location("m.py", 5, 7, <<"g">>) ELSE FileLocation("o.py")
MCAnswers(r, a, level) ==
    CASE a = "placebo" \/ r = "N" -> {<<Right(level)>>}
      [] a # "placebo" /\ r = "A" -> {<< >>, <<Wrong(level), Right(level)>>}
      [] a # "placebo" /\ r \in {"B", "D"} -> {<<Wrong(level)>>, <<Right(level)>>}

MCBuildRule == <<<<3, 2>>, <<2, 1>>>>
=============================================================================
