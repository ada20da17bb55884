------------------------------ MODULE Handcheck ------------------------------
(***************************************************************************)
(* The check of the oracle by a second implementation                      *)
(* (phase2/handcheck.py): a parser that reads only the names of the files  *)
(* of a patch, and a symboliser that goes by indentation alone.  What the  *)
(* oracle said of a flag or a hunk is written down beside what they say,   *)
(* and the share of rows on which both agree is the gate's measure.        *)
(*                                                                         *)
(* Rows are kept per task; the sampling is left out.                       *)
(***************************************************************************)
EXTENDS Truth

\* independent_gold_files; its own rule for tests names the same files here.
IndependentGoldFiles(patch) ==
    {patch[i].path : i \in {j \in DOMAIN patch : patch[j].kind \in {"plus", "minus"}}} \ TestFiles

\* export and verify, of one flag of a file
FileRow(t, path) ==
    [oracle |-> Label(t, "file", FileLocation(path)),
     manual |-> IF path \in IndependentGoldFiles(t.patch) THEN "bad" ELSE "good"]
-----------------------------------------------------------------------------
(***************************************************************************)
(* indent_symbols                                                          *)
(***************************************************************************)
\* Up to the next statement that is not indented further, blank lines dropped
IndentEnd(lines, i) ==
    LET out == {j \in i + 1 .. Len(lines) :
                   Statement(lines[j]) /\ lines[j].indent <= lines[i].indent}
        stop == Min(out \union {Len(lines) + 1})
    IN  Max({i} \union {j \in i .. stop - 1 : lines[j].kind # "blank"})

\* From the first of the decorators right above
IndentStart(lines, i) ==
    Min({i} \union {j \in 1 .. i - 1 : \A k \in j .. i - 1 :
                       lines[k].kind = "at" /\ lines[k].indent = lines[i].indent})

\* The last head before line i that is indented less
IndentParent(lines, i) ==
    LET before == {j \in Heads(lines, {"def", "class"}) :
                      j < i /\ lines[j].indent < lines[i].indent}
    IN  IF before = {} THEN {} ELSE {Max(before)}

IndentSymbols(lines) ==
    LET owner(i) == {p \in IndentParent(lines, i) :
                        lines[p].kind = "class" /\ lines[p].indent = 0}
        found == {i \in Heads(lines, {"def", "class"}) :
                     lines[i].indent = 0 \/ owner(i) # {}}
        at == Ascending(found)
        name(i) == IF lines[i].indent = 0 THEN <<lines[i].name>>
                   ELSE <<lines[Max(owner(i))].name, lines[i].name>>
    IN  [n \in DOMAIN at |-> [name |-> name(at[n]), first |-> IndentStart(lines, at[n]),
                              last |-> IndentEnd(lines, at[n])]]

\* min by length: the span around a line that is not longer than any other, the
\* first of these in the file
SymbolAt(spans, line) ==
    LET around == {i \in DOMAIN spans : line \in Lines(spans[i])}
        length(i) == spans[i].last - spans[i].first
        innermost == {i \in around : \A j \in around : length(i) <= length(j)}
    IN  IF around = {} THEN Module ELSE spans[Min(innermost)].name

\* export_functions and verify_functions, of one hunk
FunctionRow(t, h) ==
    LET spans == IF SourceAt(t.base, h.path) = {} THEN << >>
                 ELSE IndentSymbols(CHOOSE lines \in SourceAt(t.base, h.path) : TRUE)
    IN  [oracle |-> Touched(SpansAt(t.base, h.path), h),
         manual |-> {SymbolAt(spans, line) : line \in Max({h.first, 1}) .. Max({h.last, h.first, 1})}]
-----------------------------------------------------------------------------
\* Where both symbolisers can be right: no def or class that is in another block
\* than a class of the module, no comment at the end of a block, and nothing
\* between a decorator and what it decorates.
PlainSource(lines) ==
    /\ Heads(lines, {"error"}) = {}
    /\ \A i \in Heads(lines, {"def", "class"}) :
          /\ Parent(lines, i) = {} \/ Method(lines, i)
          /\ lines[i].indent = 0 <=> Parent(lines, i) = {}
          /\ \A j \in Decorated(lines, i) .. i - 1 :
                lines[j].kind = "at" /\ lines[j].indent = lines[i].indent
          /\ \A j \in BlockEnd(lines, i) + 1 .. IndentEnd(lines, i) : lines[j].kind = "blank"

\* Where both parsers can be right: every name of a file before or after the
\* change is that of a file with a hunk, and no hunk is at line 0, as that of an
\* empty file is.
PlainPatch(patch) ==
    LET named == {j \in DOMAIN patch : patch[j].kind \in {"plus", "minus"}}
        hunks == ParsePatch(patch).hunks
    IN  /\ {patch[i].path : i \in named} = {h.path : h \in hunks}
        /\ \A h \in hunks : h.last > 0
=============================================================================
