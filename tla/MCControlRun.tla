---------------------------- MODULE MCControlRun -----------------------------
(***************************************************************************)
(* Module ControlRun for TLC: a corpus of five tasks in three              *)
(* repositories, of which a run takes the two earliest of the first: they  *)
(* have the same issue and the same file "p", whose functions moved in     *)
(* between.                                                                *)
(***************************************************************************)
EXTENDS ControlRun

CONSTANT Cut             \* an answer that was cut off

Of(id, repo, created, issue, base, gold) ==
    [id |-> id, repo |-> repo, created |-> created, issue |-> issue, base |-> base, gold |-> gold]
MCCorpus == <<Of(9, 1, 7, "late", "c1", {"p"}), Of(2, 1, 5, "issue", "c2", {"p", "r"}),
              Of(3, 2, 1, "issue", "d1", {"p"}), Of(4, 3, 1, "issue", "c1", {"p"}),
              Of(1, 1, 4, "issue", "c1", {"p", "build/b"})>>

\* A directory that is skipped, and a third source file in c2, which is beyond
\* the limit of the listing
MCOnDisk(c) == CASE c = "c1" -> <<"build/b", "p", "q", "readme">>
                 [] c = "c2" -> <<"p", "r", "s">>
                 [] c = "d1" -> <<"p">>
MCIndexOf(c, p) ==
    CASE c = "c1" /\ p = "p" -> [n \in {"f", "g"} |-> IF n = "f" THEN <<1, 2>> ELSE <<4, 6>>]
      [] c = "c2" /\ p = "p" -> [n \in {"f"} |-> <<3, 8>>]
      [] OTHER -> [n \in {"h"} |-> <<1, 1>>]

Answer1 == <<<<"s", "f">>, <<"p", "g">>, <<"p", "g">>, <<"p", "f">>, <<"q", "h">>>>
Answer2 == <<<<"p", "<module>">>, <<"q", "h">>, <<"r", "h">>>>
MCUsable == {Answer1, Answer2}
MCResponses == MCUsable \union {Cut}

ShownPaths == {<<p>> : p \in Listed} \union {s \in Listed \X Listed : s[1] # s[2]}
Commits == {t.base : t \in Range(Tasks)}
MCKeys ==
    {FilesRequest("issue", Tree(c)) : c \in Commits} \union
    {FunctionsRequest("issue", [i \in DOMAIN s |-> <<s[i], MCIndexOf(c, s[i])>>]) :
        s \in ShownPaths, c \in Commits}
=============================================================================
