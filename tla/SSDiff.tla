------------------------------- MODULE SSDiff -------------------------------
(***************************************************************************)
(* The diff of two trees, as a statistic, as text or side by side          *)
(* (ui-diff-render.c, ui-ssdiff.c, shared-diff.c).  xdiff hands over the   *)
(* lines of a file pair one by one.  Side by side a deleted line cannot be *)
(* printed when it comes: whether an added line belongs next to it is      *)
(* known only later, so both wait in queues until a context line or the    *)
(* end of the file.                                                        *)
(*                                                                         *)
(* A file pair is its edit script: "=" for a line of both files, "-" for   *)
(* one of the old file, "+" for one of the new file.  A line's text is its *)
(* place in the script, so that no two lines are alike.                    *)
(***************************************************************************)
EXTENDS Integers, Sequences, FiniteSets, SequencesExt

CONSTANTS
    Diffs,          \* the diffs that are looked at: sequences of file pairs
    Contexts,       \* values of the query's context, which may be missing (0)
    DefaultContext  \* 3 in the code

\* inside: one of the two paths begins with the prefix a followed log sets.
\* A submodule has an id on one side or on both.
Pair ==
    [kind : {"text", "binary", "unmerged"}, script : Seq({"=", "-", "+"}), inside : BOOLEAN]
    \cup [kind : {"gitlink"}, script : {<<"-">>, <<"+">>, <<"-", "+">>}, inside : BOOLEAN]

ASSUME DiffsAssumption == Diffs \subseteq Seq(Pair)
ASSUME ContextAssumption == Contexts \subseteq Int /\ DefaultContext \in Nat \ {0}

VARIABLES
    pairs, context,
    difftype,       \* "unified", "ssdiff" or "statonly"
    comma,          \* the function names in the hunk headers contain a comma
    diff_pc, at,    \* the pass and the number of the current pair
    todo,           \* the lines of it that xdiff has not handed over yet
    current_old_line, current_new_line,
    deferred_old, deferred_new,
    items,          \* struct fileinfo of every file of the statistic
    rows            \* what has been printed

queues == <<deferred_old, deferred_new>>
input == <<pairs, context, difftype, comma>>
diffvars == <<pairs, context, difftype, comma, diff_pc, at, todo, current_old_line,
              current_new_line, deferred_old, deferred_new, items, rows>>

-----------------------------------------------------------------------------
(* What xdiff makes of two files *)

\* The number of line i of the script in the file whose lines are of kinds t
NumberIn(s, i, t) == Cardinality({j \in 1 .. i : s[j] \in t})
OldNo(s, i) == NumberIn(s, i, {"=", "-"})
NewNo(s, i) == NumberIn(s, i, {"=", "+"})

Between(i, j) == (i .. j) \cup (j .. i)

\* The changes, and n common lines on each side of them
InHunk(s, n) ==
    {i \in DOMAIN s : \E j \in DOMAIN s :
        s[j] # "=" /\ Cardinality({k \in Between(i, j) : s[k] = "="}) <= n}

\* @@ -old,oldCount +new,newCount @@ name; a count of one is left out
Hunk(s, shown, i) ==
    LET end == CHOOSE j \in shown : j >= i /\ i .. j \subseteq shown /\ j + 1 \notin shown
        olds == {j \in i .. end : s[j] # "+"}
        news == {j \in i .. end : s[j] # "-"}
    IN  [t |-> "@", n |-> 0,
         old |-> OldNo(s, i - 1) + (IF olds = {} THEN 0 ELSE 1),
         oldCount |-> Cardinality(olds),
         new |-> NewNo(s, i - 1) + (IF news = {} THEN 0 ELSE 1),
         newCount |-> Cardinality(news)]

XdlDiff(s, n) ==
    LET shown == InHunk(s, n)
    IN  FlattenSeq([i \in DOMAIN s |->
            IF i \notin shown THEN <<>>
            ELSE (IF i - 1 \in shown THEN <<>> ELSE <<Hunk(s, shown, i)>>)
                     \o <<[t |-> s[i], n |-> i]>>])

\* Not the code: the query's context as it is
NoDefaultContext(p) == IF p.kind = "text" THEN XdlDiff(p.script, context) ELSE <<>>

\* cgit_diff_files with the query's context: a missing one is three lines, so
\* that a hunk ends in a common line unless the file does
DiffFiles(p) ==
    IF p.kind = "text"
    THEN XdlDiff(p.script, IF context > 0 THEN context ELSE DefaultContext)
    ELSE <<>>

\* cgit_diff_filepair_cb: a submodule is shown as a line for each of its ids
LinesOf(p) ==
    IF p.kind = "gitlink"
    THEN [i \in DOMAIN p.script |-> [t |-> p.script[i], n |-> i]]
    ELSE DiffFiles(p)

\* line_from_hunk looks for the comma after the number, which may be that of the
\* other side's count or of the function name
LineFromHunk(l, side) ==
    IF \/ comma \/ l.newCount # 1
       \/ side = "old" /\ l.oldCount # 1
    THEN l[side] ELSE 0

-----------------------------------------------------------------------------
(* The statistic *)

DiffInit ==
    /\ pairs \in Diffs
    /\ context \in Contexts
    /\ difftype \in {"unified", "ssdiff", "statonly"}
    /\ comma \in BOOLEAN
    /\ diff_pc = "stat" /\ at = 1 /\ todo = <<>>
    /\ current_old_line = 0 /\ current_new_line = 0
    /\ deferred_old = <<>> /\ deferred_new = <<>>
    /\ items = <<>> /\ rows = <<>>

\* cgit_diff_tree_cb and show_filepair
Shown(p) == p.kind # "unmerged" /\ p.inside

\* count_diff_lines
Count(lines, t) == Cardinality({j \in DOMAIN lines : lines[j].t = t})

\* Mutant of Inspect: the statistic leaves the limit to the diff
InspectAll ==
    /\ diff_pc = "stat" /\ at <= Len(pairs)
    /\ items' = IF pairs[at].kind = "unmerged" THEN items ELSE
           LET lines == XdlDiff(IF pairs[at].kind = "text" THEN pairs[at].script ELSE <<>>,
                                DefaultContext)
           IN  Append(items, [file |-> at,
                              added |-> Count(lines, "+"),
                              removed |-> Count(lines, "-")])
    /\ at' = at + 1
    /\ UNCHANGED <<input, diff_pc, todo, current_old_line, current_new_line, queues, rows>>

\* inspect_filepair with count_diff_lines, at the default context; the ids of a
\* submodule are no blobs, and no lines are counted
Inspect ==
    /\ diff_pc = "stat" /\ at <= Len(pairs)
    /\ items' = IF ~Shown(pairs[at]) THEN items ELSE
           LET lines == XdlDiff(IF pairs[at].kind = "text" THEN pairs[at].script ELSE <<>>,
                                DefaultContext)
           IN  Append(items, [file |-> at,
                              added |-> Count(lines, "+"),
                              removed |-> Count(lines, "-")])
    /\ at' = at + 1
    /\ UNCHANGED <<input, diff_pc, todo, current_old_line, current_new_line, queues, rows>>

\* cgit_print_diffstat has printed its files; cgit_print_diff stops here or begins
\* the second pass over the pairs
StatDone ==
    /\ diff_pc = "stat" /\ at > Len(pairs)
    /\ diff_pc' = IF difftype = "statonly" THEN "done" ELSE "pairs"
    /\ at' = 1
    /\ UNCHANGED <<input, todo, current_old_line, current_new_line, queues, items, rows>>

-----------------------------------------------------------------------------
(* The lines *)

\* Side by side, for now: what the row of a line or of a pair of lines shows.
\* A line 0 is an empty cell, a number below 1 is not printed.
Row(class, old, oldno, new, newno) ==
    [file |-> at, class |-> class, old |-> old, oldno |-> oldno, new |-> new,
     newno |-> newno]

\* cgit_diff_filepair_cb with cgit_ssdiff_header_begin
BeginPair ==
    /\ diff_pc = "pairs" /\ at <= Len(pairs)
    /\ IF Shown(pairs[at])
       THEN /\ diff_pc' = "lines" /\ todo' = LinesOf(pairs[at])
            /\ current_old_line' = -1 /\ current_new_line' = -1
            /\ UNCHANGED at
       ELSE /\ at' = at + 1
            /\ UNCHANGED <<diff_pc, todo, current_old_line, current_new_line>>
    /\ UNCHANGED <<input, queues, items, rows>>

\* A line of the diff, which is "\ No newline at end of file" in none of the inputs:
\* cgit_ssdiff_line_cb prints it at once, ahead of the lines it is about if they wait.
NextLine(t) ==
    /\ diff_pc = "lines" /\ todo # <<>>
    /\ Head(todo).t = t
    /\ todo' = Tail(todo)

\* print_line
UnifiedLine ==
    /\ difftype = "unified"
    /\ \E t \in {"@", "=", "-", "+"} :
          /\ NextLine(t)
          /\ rows' = Append(rows, Row(t, Head(todo).n, 0, 0, 0))
    /\ UNCHANGED <<input, diff_pc, at, current_old_line, current_new_line, queues, items>>

\* cgit_ssdiff_print_deferred_lines: only deleted lines, only added lines, or
\* both, which are put side by side as they come
Deferred ==
    LET class == IF deferred_new = <<>> THEN "del"
                 ELSE IF deferred_old = <<>> THEN "add" ELSE "changed"
        Cell(q, i) == IF i <= Len(q) THEN q[i] ELSE [n |-> 0, no |-> -1]
        longest == IF Len(deferred_old) > Len(deferred_new)
                   THEN Len(deferred_old) ELSE Len(deferred_new)
    IN  [i \in 1 .. longest |->
            Row(class, Cell(deferred_old, i).n, Cell(deferred_old, i).no,
                Cell(deferred_new, i).n, Cell(deferred_new, i).no)]

\* cgit_ssdiff_line_cb: the hunk header is printed at once
SsHunk ==
    /\ difftype = "ssdiff" /\ NextLine("@")
    /\ current_old_line' = LineFromHunk(Head(todo), "old")
    /\ current_new_line' = LineFromHunk(Head(todo), "new")
    /\ rows' = Append(rows, Row("hunk", 0, 0, 0, 0))
    /\ UNCHANGED <<input, diff_pc, at, queues, items>>

\* Mutant of SsContext: the lines wait on until the end of the file
SsContextKeeps ==
    /\ difftype = "ssdiff" /\ NextLine("=")
    /\ rows' = Append(rows, Row("ctx", Head(todo).n, current_old_line,
                                Head(todo).n, current_new_line))
    /\ current_old_line' = current_old_line + 1
    /\ current_new_line' = current_new_line + 1
    /\ UNCHANGED <<input, diff_pc, at, queues, items>>

SsContext ==
    /\ difftype = "ssdiff" /\ NextLine("=")
    /\ rows' = (rows \o Deferred)
                   \o <<Row("ctx", Head(todo).n, current_old_line,
                            Head(todo).n, current_new_line)>>
    /\ deferred_old' = <<>> /\ deferred_new' = <<>>
    /\ current_old_line' = current_old_line + 1
    /\ current_new_line' = current_new_line + 1
    /\ UNCHANGED <<input, diff_pc, at, items>>

SsDeleted ==
    /\ difftype = "ssdiff" /\ NextLine("-")
    /\ deferred_old' = Append(deferred_old, [n |-> Head(todo).n, no |-> current_old_line])
    /\ current_old_line' = current_old_line + 1
    /\ UNCHANGED <<input, diff_pc, at, current_new_line, deferred_new, items, rows>>

\* Mutant of SsAdded: the line is not counted
SsAddedStays ==
    /\ difftype = "ssdiff" /\ NextLine("+")
    /\ deferred_new' = Append(deferred_new, [n |-> Head(todo).n, no |-> current_new_line])
    /\ UNCHANGED <<input, diff_pc, at, current_old_line, current_new_line, deferred_old,
                   items, rows>>

SsAdded ==
    /\ difftype = "ssdiff" /\ NextLine("+")
    /\ deferred_new' = Append(deferred_new, [n |-> Head(todo).n, no |-> current_new_line])
    /\ current_new_line' = current_new_line + 1
    /\ UNCHANGED <<input, diff_pc, at, current_old_line, deferred_old, items, rows>>

\* cgit_ssdiff_footer
EndPair ==
    /\ diff_pc = "lines" /\ todo = <<>>
    /\ rows' = rows \o Deferred
    /\ deferred_old' = <<>> /\ deferred_new' = <<>>
    /\ diff_pc' = "pairs" /\ at' = at + 1
    /\ UNCHANGED <<input, todo, current_old_line, current_new_line, items>>

Finish ==
    /\ diff_pc = "pairs" /\ at > Len(pairs)
    /\ diff_pc' = "done"
    /\ UNCHANGED <<input, at, todo, current_old_line, current_new_line, queues, items,
                   rows>>

DiffNext ==
    \/ Inspect \/ StatDone \/ BeginPair \/ UnifiedLine \/ SsHunk \/ SsContext
    \/ SsDeleted \/ SsAdded \/ EndPair \/ Finish

DiffSpec == DiffInit /\ [][DiffNext]_diffvars

-----------------------------------------------------------------------------
(* Properties *)

\* The lines of pair k that have been handed over
Received(k) ==
    IF Shown(pairs[k]) /\ diff_pc # "stat" /\ (k < at \/ (k = at /\ diff_pc = "lines"))
    THEN LET lines == LinesOf(pairs[k])
         IN  SubSeq(lines, 1, Len(lines) - (IF k = at THEN Len(todo) ELSE 0))
    ELSE <<>>

Texts(q) == [i \in DOMAIN q |-> q[i].n]

\* The texts of the lines of s that are not of kind t, hunk headers among them
TextsBut(s, t) == FlattenSeq([j \in DOMAIN s |-> IF s[j].t # t THEN <<s[j].n>> ELSE <<>>])

\* What the rows rs that are about pair k show on each side
OldCells(rs, k) ==
    FlattenSeq([i \in DOMAIN rs |->
        IF rs[i].file = k /\ (rs[i].class = "hunk" \/ rs[i].old # 0)
        THEN <<rs[i].old>> ELSE <<>>])
NewCells(rs, k) ==
    FlattenSeq([i \in DOMAIN rs |->
        IF rs[i].file = k /\ (rs[i].class = "hunk" \/ rs[i].new # 0)
        THEN <<rs[i].new>> ELSE <<>>])

\* Each side shows the lines of its file in their order, headers of the hunks where
\* they belong, and what is not shown yet waits in the queue: no line is lost,
\* shown twice, or moved into another hunk or file.
NothingLost ==
    difftype = "ssdiff" =>
        \A k \in DOMAIN pairs :
            LET waiting(q) == IF k = at THEN Texts(q) ELSE <<>>
            IN  /\ OldCells(rows, k) \o waiting(deferred_old) = TextsBut(Received(k), "+")
                /\ NewCells(rows, k) \o waiting(deferred_new) = TextsBut(Received(k), "-")

\* The headers of the hunk that line n of a pair belongs to
HunksOf(p, n) ==
    LET lines == LinesOf(p)
    IN  {lines[j] : j \in {j \in DOMAIN lines :
            /\ lines[j].t = "@"
            /\ \E i \in DOMAIN lines :
                  i > j /\ lines[i].n = n /\ \A m \in j + 1 .. i : lines[m].t # "@"}}

\* A number that is printed is the line's own in its file.  It is missing only for
\* a submodule, and where the hunk has a single line on that side and no comma
\* comes later in its header.
NumbersTrue ==
    difftype = "ssdiff" =>
        \A i \in DOMAIN rows :
            LET r == rows[i]
                p == pairs[r.file]
            IN  /\ r.oldno >= 1 => r.oldno = OldNo(p.script, r.old)
                /\ r.newno >= 1 => r.newno = NewNo(p.script, r.new)
                /\ r.old # 0 /\ r.oldno < 1 =>
                       \/ p.kind = "gitlink"
                       \/ ~comma /\ \E h \in HunksOf(p, r.old) : h.oldCount = 1
                /\ r.new # 0 /\ r.newno < 1 =>
                       \/ p.kind = "gitlink"
                       \/ ~comma /\ \E h \in HunksOf(p, r.new) : h.newCount = 1

\* Lines stand side by side only when they are the same line, or when one was
\* replaced by the other: no common line lies between them.
PairsAligned ==
    \A i \in DOMAIN rows :
        LET r == rows[i]
            s == pairs[r.file].script
        IN  r.old # 0 /\ r.new # 0 /\ r.old # r.new =>
                /\ r.class = "changed"
                /\ \A j \in Between(r.old, r.new) : s[j] # "="

\* The statistic counts what the diff then shows, whatever its mode and its context;
\* a submodule is shown as changed lines but counted as none.
StatMatchesDiff ==
    diff_pc = "done" /\ difftype # "statonly" =>
        /\ \A k \in DOMAIN pairs :
               (\E i \in DOMAIN rows : rows[i].file = k)
                   => \E i \in DOMAIN items : items[i].file = k
        /\ \A i \in DOMAIN items :
               LET mine == {rows[n] : n \in {m \in DOMAIN rows : rows[m].file = items[i].file}}
                   has(t) == Cardinality({n \in 1 .. Len(pairs[items[i].file].script) :
                       /\ pairs[items[i].file].script[n] = t
                       /\ \E r \in mine : n \in {r.old, r.new}})
               IN  pairs[items[i].file].kind = "text" =>
                       /\ mine # {} \/ pairs[items[i].file].script \in Seq({"="})
                       /\ items[i].added = has("+")
                       /\ items[i].removed = has("-")
=============================================================================
