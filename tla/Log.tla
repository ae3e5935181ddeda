-------------------------------- MODULE Log --------------------------------
(***************************************************************************)
(* The pages of the log (ui-log.c, ui-log-commit.c) and the links from one *)
(* to the next.  git walks the history; in follow mode it hands over every *)
(* commit, and cgit decides from the diff of each whether it is about the  *)
(* file, which changes its name on the way back.                           *)
(*                                                                         *)
(* The history is one file's: names are counted from 0, its name now, to   *)
(* the names it had before each rename.                                    *)
(***************************************************************************)
EXTENDS NoValue, Integers, Sequences, FiniteSets

CONSTANTS
    Histories,      \* sequences of commits, newest first; the last is the root
    FirstPaths,     \* the names that the first request may be about
    Offsets,        \* the ofs of the first request, any number
    PageSize        \* max-commit-count, or summary-log

\* match: the search that may be made finds the commit
Commit == [kind : {"modify", "rename", "other", "merge"}, match : BOOLEAN]

\* What a link to the log carries
Request == [path : Nat \cup {None}, ofs : Int, follow : BOOLEAN, search : BOOLEAN,
            pager : BOOLEAN]

ASSUME HistoryAssumption == Histories \subseteq Seq(Commit) \ {<<>>}
ASSUME PathAssumption == FirstPaths \subseteq Nat
ASSUME OffsetAssumption == Offsets \subseteq Int /\ PageSize \in Nat
ASSUME NoRequestAssumption == None \notin Nat /\ None \notin Request

VARIABLES
    history,
    qry,            \* the request: path, ofs, follow, search; pager: the log page
    log_pc,         \* "skip", "show", "done"
    vpath,          \* ctx.qry.vpath, which handle_rename changes
    pathspec,       \* the name git follows
    left,           \* the commits get_revision has yet to return
    count,          \* i of the two loops
    counted,        \* the commit whose files and lines have been counted
    lines_counted,
    shown,          \* the rows of this page
    links,          \* the requests that the pager links to, or None
    seen,           \* history: the commits shown since the first request
    strayed         \* history: a link was followed whose path is not the request's

logvars == <<history, qry, log_pc, vpath, pathspec, left, count, counted, lines_counted,
             shown, links, seen, strayed>>

-----------------------------------------------------------------------------
(* What git knows of the history h *)

Renames(h, i, j) == Cardinality({k \in i .. j : h[k].kind = "rename"})

\* The name of the file in commit i
NameAt(h, i) == Renames(h, 1, i - 1)

Root(h, i) == i = Len(h)

\* The commit changes, creates or deletes something of that name
Touches(h, i, name) ==
    \/ h[i].kind = "modify" /\ name = NameAt(h, i)
    \/ h[i].kind = "rename" /\ name \in {NameAt(h, i), NameAt(h, i) + 1}
    \/ Root(h, i) /\ name = NameAt(h, i)

\* setup_revisions and get_revision: the commits the walk returns.  The path is
\* left to cgit in follow mode.
Revisions(h, q) ==
    {i \in DOMAIN h : /\ q.search => h[i].match
                      /\ q.path # None /\ ~q.follow => Touches(h, i, q.path)}

\* get_revision: the walk goes back in the history
Newest(commits) == CHOOSE i \in commits : \A j \in commits : i <= j

-----------------------------------------------------------------------------
(* cgit_print_log *)

NoLinks == [prev |-> None, next |-> None, more |-> None]

\* The request begins; without a path there is nothing to follow
BeginPage(q) ==
    /\ qry' = [q EXCEPT !.follow = q.follow /\ q.path # None]
    /\ vpath' = q.path
    /\ pathspec' = q.path
    /\ left' = Revisions(history, qry')
    /\ log_pc' = "skip" /\ count' = 0
    /\ counted' = 0 /\ lines_counted' = FALSE
    /\ shown' = <<>> /\ links' = NoLinks

LogInit ==
    /\ history \in Histories
    /\ \E p \in FirstPaths \cup {None}, o \in Offsets, f, s, g \in BOOLEAN :
          LET q == [path |-> p, ofs |-> o, follow |-> f /\ p # None,
                    search |-> s, pager |-> g]
          IN  qry = q /\ vpath = p /\ pathspec = p /\ left = Revisions(history, q)
    /\ log_pc = "skip" /\ count = 0 /\ counted = 0 /\ lines_counted = FALSE
    /\ shown = <<>> /\ links = NoLinks /\ seen = <<>> /\ strayed = FALSE

\* cgit_log_show_commit: a merge and the root are not shown in follow mode
ShowCommit(i) ==
    \/ ~qry.follow
    \/ /\ history[i].kind # "merge" /\ ~Root(history, i)
       /\ Touches(history, i, pathspec)

\* git's diff goes on with the old name once it has seen the rename
PathspecAfter(i) ==
    IF history[i].kind = "rename" /\ pathspec = NameAt(history, i) /\ ShowCommit(i)
    THEN pathspec + 1 ELSE pathspec

\* Mutant of VpathAfter: the links keep the path of the request
VpathKept(i) == vpath

\* handle_rename: the name the diff of commit i knows the file by
VpathAfter(i) == IF qry.follow /\ ShowCommit(i) THEN pathspec ELSE vpath

\* cgit_log_show_commit counts files and lines as it goes.  Its parent can be read, or
\* git's walk would have died before it came to commit i.
Diffed(i) == qry.follow /\ history[i].kind # "merge" /\ ~Root(history, i)
CountedBy(i) == IF Diffed(i) THEN i ELSE counted

Walk(i) ==
    /\ left' = left \ {i}
    /\ pathspec' = IF qry.follow THEN PathspecAfter(i) ELSE pathspec
    /\ vpath' = VpathAfter(i)

\* Mutant of Skip: every commit of the walk counts
SkipEvery ==
    /\ log_pc = "skip" /\ count < qry.ofs /\ left # {}
    /\ Walk(Newest(left))
    /\ count' = count + 1
    /\ counted' = CountedBy(Newest(left))
    /\ lines_counted' = (lines_counted \/ Diffed(Newest(left)))
    /\ UNCHANGED <<history, qry, log_pc, shown, links, seen, strayed>>

\* The commits of the pages before this one
Skip ==
    /\ log_pc = "skip" /\ count < qry.ofs /\ left # {}
    /\ Walk(Newest(left))
    /\ count' = IF ShowCommit(Newest(left)) THEN count + 1 ELSE count
    /\ counted' = CountedBy(Newest(left))
    /\ lines_counted' = (lines_counted \/ Diffed(Newest(left)))
    /\ UNCHANGED <<history, qry, log_pc, shown, links, seen, strayed>>

SkipDone ==
    /\ log_pc = "skip" /\ (count >= qry.ofs \/ left = {})
    /\ log_pc' = "show" /\ count' = 0
    /\ UNCHANGED <<history, qry, vpath, pathspec, left, counted, lines_counted, shown,
                   links, seen, strayed>>

\* cgit_log_reset_lines_counted, show_commit, and cgit_log_print_commit, which counts
\* unless that has just been done; the links of the row carry vpath
Show ==
    /\ log_pc = "show" /\ count < PageSize /\ left # {}
    /\ LET i == Newest(left) IN
       /\ Walk(i)
       /\ lines_counted' = Diffed(i)
       /\ counted' = IF ShowCommit(i) /\ ~lines_counted' THEN i ELSE CountedBy(i)
       /\ IF ShowCommit(i)
          THEN /\ shown' = Append(shown, [commit |-> i, path |-> VpathAfter(i),
                                          counted |-> counted'])
               /\ seen' = Append(seen, i)
               /\ count' = count + 1
          ELSE UNCHANGED <<shown, seen, count>>
    /\ UNCHANGED <<history, qry, log_pc, links, strayed>>

\* Mutant of Pager: [next] on every page that is full
PagerFull ==
    LET from == IF qry.ofs < 0 THEN 0 ELSE qry.ofs
        to(o) == [qry EXCEPT !.path = vpath, !.ofs = IF o > 0 THEN o ELSE 0]
    IN  [prev |-> IF qry.pager /\ from > 0 THEN to(from - PageSize) ELSE None,
         next |-> IF qry.pager /\ count = PageSize THEN to(from + PageSize) ELSE None,
         more |-> IF ~qry.pager /\ left # {}
                  THEN [to(0) EXCEPT !.search = FALSE] ELSE None]

\* The links below the list, with the path the walk has come to.  The one from the
\* summary goes to the first page of the whole log.
Pager ==
    LET from == IF qry.ofs < 0 THEN 0 ELSE qry.ofs
        to(o) == [qry EXCEPT !.path = vpath, !.ofs = IF o > 0 THEN o ELSE 0]
    IN  [prev |-> IF qry.pager /\ from > 0 THEN to(from - PageSize) ELSE None,
         next |-> IF qry.pager /\ left # {} THEN to(from + PageSize) ELSE None,
         more |-> IF ~qry.pager /\ left # {}
                  THEN [to(0) EXCEPT !.search = FALSE] ELSE None]

EndPage ==
    /\ log_pc = "show" /\ (count >= PageSize \/ left = {})
    /\ links' = Pager
    /\ log_pc' = "done"
    /\ UNCHANGED <<history, qry, vpath, pathspec, left, count, counted, lines_counted,
                   shown, seen, strayed>>

\* The reader goes on to the next page ...
GoNext ==
    /\ log_pc = "done" /\ links.next # None
    /\ BeginPage(links.next)
    /\ strayed' = (strayed \/ links.next.path # qry.path)
    /\ UNCHANGED <<history, seen>>

\* ... or back, or from the summary to the log: what was seen before is forgotten
GoElsewhere ==
    /\ log_pc = "done"
    /\ \E l \in {"prev", "more"} :
          links[l] # None /\ BeginPage([links[l] EXCEPT !.pager = TRUE])
    /\ strayed' = (strayed \/ qry'.path # qry.path)
    /\ seen' = <<>>
    /\ UNCHANGED history

LogNext == Skip \/ SkipDone \/ Show \/ EndPage \/ GoNext \/ GoElsewhere

LogSpec == LogInit /\ [][LogNext]_logvars

-----------------------------------------------------------------------------
(* Properties *)

First == IF qry.ofs < 0 THEN 0 ELSE qry.ofs

\* In follow mode a search that does not find a rename loses the file there: its
\* older name is not seen.
Lost(h, q, i) ==
    \E k \in 1 .. i - 1 :
        h[k].kind = "rename" /\ NameAt(h, k) >= q.path /\ k \notin Revisions(h, q)

\* A followed file is the one that had the name path at some time: its commits are
\* those under that name and under its earlier names.
About(h, q, i) ==
    /\ ~Root(h, i) /\ ~Lost(h, q, i)
    /\ \/ h[i].kind = "modify" /\ NameAt(h, i) >= q.path
       \/ h[i].kind = "rename" /\ NameAt(h, i) + 1 >= q.path

\* The log without pages, and the number of a commit in it
WholeLog(h, q) == {i \in Revisions(h, q) : q.follow => About(h, q, i)}
Rank(log, i) == Cardinality({j \in log : j < i})

\* Going from page to page shows every commit of the log once and in order, merges
\* and commits about other files skipped - until a page goes back beyond a rename:
\* its links ask for the old name from the tip, whose log is another one.
PagesInOrder ==
    log_pc = "done" /\ ~strayed =>
        /\ \A m, n \in DOMAIN seen : m < n => seen[m] < seen[n]
        /\ {seen[n] : n \in DOMAIN seen} =
               {i \in WholeLog(history, qry) :
                   Rank(WholeLog(history, qry), i)
                       \in First - (Len(seen) - Len(shown)) .. First + PageSize - 1}

\* [next] is there as long as there is more to see, and without follow only then:
\* in follow mode the last page may be empty.
NextMeansMore ==
    log_pc = "done" /\ qry.pager =>
        /\ First + PageSize < Cardinality(WholeLog(history, qry)) => links.next # None
        /\ links.next # None /\ ~qry.follow =>
               First + PageSize < Cardinality(WholeLog(history, qry))

\* ui-log-commit.c:101: the links of a row carry the path that is right for the
\* commit they show, and its counts are its own.
RowsOwnCommit ==
    \A k \in DOMAIN shown :
        /\ shown[k].counted = shown[k].commit
        /\ shown[k].path # None => Touches(history, shown[k].commit, shown[k].path)
=============================================================================
