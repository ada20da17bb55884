-------------------------------- MODULE Truth --------------------------------
(***************************************************************************)
(* What a flag is measured against (phase0/ground_truth.py,                *)
(* phase0/functions.py, adapters/code/oracle.py): a gold patch becomes     *)
(* hunk locations in the tree before the patch, and these, one level       *)
(* deeper, the functions and classes they touch.                           *)
(*                                                                         *)
(* A patch is the sequence of the lines that are read: "diff" and "plus"   *)
(* name a file after the change, "minus" before it, "hunk" says where the  *)
(* hunk starts and how many lines of the old file it covers.  A source     *)
(* file is the sequence of its lines: how far each is indented, and        *)
(* whether it opens a def, a class or another block, is a decorator, other *)
(* code, a comment or blank; "error" is a line that does not parse.  A     *)
(* statement is on one line.                                               *)
(* Ground truth is {} where the code has None (the task is outside the     *)
(* metric) and otherwise the set of one set of locations, which may be     *)
(* empty.                                                                  *)
(***************************************************************************)
EXTENDS Integers, Sequences, SequencesExt, FiniteSetsExt

CONSTANTS
    TestFiles,         \* the paths that is_test_path accepts
    SourceFiles,       \* the paths with a source suffix
    Commits,           \* the commits that tasks begin at
    SourceAt(_, _)     \* commit, path |-> {} or the set of the file's lines

EndOfFile == 1000000000
Module == <<"<module>">>      \* a symbol is the sequence of its names

Location(path, first, last, symbol) ==
    [path |-> path, first |-> first, last |-> last, symbol |-> symbol]

FileLocation(path) == Location(path, 1, EndOfFile, << >>)

\* Location.overlaps; no caller gives a slack.
Overlaps(a, b) ==
    /\ << >> \in {a.symbol, b.symbol} \/ a.symbol = b.symbol
    /\ a.path = b.path
    /\ a.first <= b.last /\ b.first <= a.last

\* The members of a finite set, one after another as the pairs of before say
InOrder(S, before) ==
    [k \in 1 .. Cardinality(S) |->
        CHOOSE i \in S : Cardinality({j \in S : <<j, i>> \in before}) = k - 1]

\* Numbers, in their order
Ascending(S) == InOrder(S, {p \in S \X S : p[1] < p[2]})
-----------------------------------------------------------------------------
(***************************************************************************)
(* parse_patch                                                             *)
(***************************************************************************)
IsPatch(patch) ==
    /\ patch \in Seq(Range(patch))
    /\ \A line \in Range(patch) :
          /\ line.kind \in {"diff", "plus", "minus", "hunk"}
          /\ line.start \in 0 .. EndOfFile
          /\ line.count \in SUBSET Nat /\ \A m, n \in line.count : m = n

\* A hunk covers one line if it does not say how many, and no fewer if it does.
HunkAt(path, line) ==
    Location(path, line.start, line.start + Max(line.count \union {1}) - 1, << >>)

\* A file that is named anew replaces the one before, if that was listed.
ReadLine(read, line) ==
    LET before == IF line.kind = "plus" /\ read.current \subseteq read.files
                  THEN read.current ELSE {}
        after == IF line.kind = "diff" \/ before # {} THEN {line.path} ELSE {}
    IN  [current |-> IF line.kind \in {"diff", "plus"} THEN {line.path} ELSE read.current,
         files |-> (read.files \ before) \union after,
         hunks |-> IF line.kind # "hunk" THEN read.hunks
                   ELSE read.hunks \union {HunkAt(p, line) : p \in read.current}]

ParsePatch(patch) ==
    FoldLeft(ReadLine, [current |-> {}, files |-> {}, hunks |-> {}], patch)

SourceHunks(patch) ==
    {h \in ParsePatch(patch).hunks : h.path \in SourceFiles \ TestFiles}

GoldFiles(patch) == ParsePatch(patch).files \ TestFiles
-----------------------------------------------------------------------------
(***************************************************************************)
(* function_index: the functions, classes and methods of a source file, as *)
(* the parser of Python sees them                                          *)
(***************************************************************************)
Statement(line) == line.kind \notin {"comment", "blank"}
Heads(lines, kinds) == {i \in DOMAIN lines : lines[i].kind \in kinds}

\* A file that the parser accepts has no def or class that is indented and does
\* not follow, among what is indented as it or deeper, the head of a block; and
\* no name is that of the module level.
IsSource(lines) ==
    /\ lines \in Seq(Range(lines))
    /\ \A i \in DOMAIN lines : lines[i].indent \in Nat /\ <<lines[i].name>> # Module
    /\ Heads(lines, {"error"}) = {} =>
          \A i \in Heads(lines, {"def", "class"}) : lines[i].indent > 0 =>
              \E j \in Heads(lines, {"def", "class", "block"}) :
                  /\ j < i /\ lines[j].indent < lines[i].indent
                  /\ \A k \in j + 1 .. i - 1 :
                        Statement(lines[k]) => lines[k].indent >= lines[i].indent

ASSUME SourcesAssumption ==
    \A c \in Commits, p \in SourceFiles : \A lines \in SourceAt(c, p) : IsSource(lines)

\* A block ends with its last statement.
BlockEnd(lines, i) ==
    LET out == {j \in i + 1 .. Len(lines) :
                   Statement(lines[j]) /\ lines[j].indent <= lines[i].indent}
        stop == Min(out \union {Len(lines) + 1})
    IN  Max({j \in i .. stop - 1 : Statement(lines[j])})

\* The innermost block around line i, if any
Parent(lines, i) ==
    LET around == {j \in Heads(lines, {"def", "class", "block"}) :
                      j < i /\ i <= BlockEnd(lines, j)}
    IN  IF around = {} THEN {} ELSE {Max(around)}

\* _start: from the first decorator
Decorated(lines, i) ==
    Min({i} \union {j \in Heads(lines, {"at"}) :
                       j < i /\ \A k \in j .. i - 1 :
                           lines[k].kind = "at" \/ ~ Statement(lines[k])})

Method(lines, i) ==
    lines[i].kind = "def" /\
    \E p \in Parent(lines, i) : lines[p].kind = "class" /\ Parent(lines, p) = {}

\* Variant: decorators are left out.
SymbolSpanBare(lines, i) ==
    [name |-> Append(IF Parent(lines, i) = {} THEN << >>
                     ELSE <<lines[Max(Parent(lines, i))].name>>, lines[i].name),
     first |-> i, last |-> BlockEnd(lines, i)]

SymbolSpan(lines, i) ==
    [name |-> Append(IF Parent(lines, i) = {} THEN << >>
                     ELSE <<lines[Max(Parent(lines, i))].name>>, lines[i].name),
     first |-> Decorated(lines, i), last |-> BlockEnd(lines, i)]

FunctionIndex(lines) ==
    LET indexed == IF Heads(lines, {"error"}) # {} THEN {}
                   ELSE {i \in Heads(lines, {"def", "class"}) :
                            Parent(lines, i) = {} \/ Method(lines, i)}
        at == Ascending(indexed)
    IN  [n \in DOMAIN at |-> SymbolSpan(lines, at[n])]

\* FunctionIndexCache: computed once.  A file that is not there has no spans, nor
\* has one that is not source, which does not parse.
Indexes ==
    [c \in Commits |-> [p \in SourceFiles |->
        IF SourceAt(c, p) = {} THEN << >>
        ELSE FunctionIndex(CHOOSE lines \in SourceAt(c, p) : TRUE)]]

SpansAt(commit, path) == IF path \in SourceFiles THEN Indexes[commit][path] ELSE << >>
-----------------------------------------------------------------------------
(***************************************************************************)
(* Symbols                                                                 *)
(***************************************************************************)
Lines(span) == span.first .. span.last

\* Variant: of the symbols around a line, the first in the file
EnclosingFirst(spans, line) ==
    FoldLeft(LAMBDA best, s : IF line \in Lines(s) /\ best = {} THEN {s} ELSE best,
             {}, spans)

\* The innermost span around a line, the first of those as long, or none
Enclosing(spans, line) ==
    FoldLeft(LAMBDA best, s :
                IF /\ line \in Lines(s)
                   /\ \A b \in best : s.last - s.first < b.last - b.first
                THEN {s} ELSE best,
             {}, spans)

\* enclosing_range
Touched(spans, h) ==
    LET from == Max({h.first, 1})
        name(line) == LET s == Enclosing(spans, line)
                      IN  IF s = {} THEN {Module} ELSE {x.name : x \in s}
    IN  UNION {name(line) : line \in from .. Max({h.last, from})}

\* by_name: of several definitions of one name, the last
SpanNamed(spans, name) ==
    LET at == {i \in DOMAIN spans : spans[i].name = name}
    IN  IF at = {} THEN {} ELSE {spans[Max(at)]}

\* One location per touched symbol: its own lines, or the hunk's at module level
Symbolise(commit, hunks) ==
    LET at(h) == SpansAt(commit, h.path)
        place(h, name) ==
            IF SpanNamed(at(h), name) = {}
            THEN {Location(h.path, h.first, h.last, Module)}
            ELSE {Location(h.path, s.first, s.last, name) : s \in SpanNamed(at(h), name)}
    IN  UNION {UNION {place(h, name) : name \in Touched(at(h), h)} : h \in hunks}
-----------------------------------------------------------------------------
\* Ground truth of files.  Only when the source suffixes are given is a task
\* without a source hunk outside the metric; otherwise its truth is empty.
FileTruth(t, suffixed) ==
    IF suffixed
    THEN IF SourceHunks(t.patch) = {} THEN {} ELSE {SourceHunks(t.patch)}
    ELSE {{h \in ParsePatch(t.patch).hunks : h.path \notin TestFiles}}

\* Ground truth of functions, the memoised GroundTruth.locations
FunctionTruth(t) ==
    IF SourceHunks(t.patch) = {} THEN {}
    ELSE {Symbolise(t.base, SourceHunks(t.patch))}

Gold(t, level) ==
    IF level = "function" THEN FunctionTruth(t) ELSE FileTruth(t, level = "source")

Correct(flag, gold) == \E h \in gold : Overlaps(flag, h)

\* LocationOracle.label of the record of a flag
Label(t, level, flag) ==
    IF Gold(t, level) = {} THEN "unknown"
    ELSE IF Correct(flag, UNION Gold(t, level)) THEN "bad" ELSE "good"

\* What LocalizerV2 may flag in a file: a symbol of its index, or <module>
SymbolFlags(commit, path) ==
    {Location(path, 1, EndOfFile, Module)} \union
    UNION {{Location(path, s.first, s.last, s.name) : s \in SpanNamed(SpansAt(commit, path), n)} :
              n \in {x.name : x \in Range(SpansAt(commit, path))}}
=============================================================================
