------------------------------- MODULE Stats -------------------------------
(***************************************************************************)
(* The statistics (ui-stats.c, ui-stats-periods.c, ui-stats-render.c): the *)
(* commits of each author in the last days, weeks, months, quarters or     *)
(* years.  The columns are found by stepping a date back from today and    *)
(* forth again, and a commit belongs to the column of the same name.       *)
(*                                                                         *)
(* A time is [y, m, d, t], the date and the time of day.  The clock, which *)
(* the code reads anew for each part of a table, does not go on meanwhile. *)
(***************************************************************************)
EXTENDS Integers, Sequences, FiniteSets, FiniteSetsExt, SequencesExt

CONSTANT None

-----------------------------------------------------------------------------
(* gmtime_r and timegm *)

Leap(y) == y % 4 = 0 /\ (y % 100 # 0 \/ y % 400 = 0)
DaysIn(y, m) == CASE m = 2 -> IF Leap(y) THEN 29 ELSE 28
                  [] m \in {4, 6, 9, 11} -> 30
                  [] OTHER -> 31

\* Days since the Monday 1 January of the year 1
DayNumber(x) ==
    365 * (x.y - 1) + (x.y - 1) \div 4 - (x.y - 1) \div 100 + (x.y - 1) \div 400
        + MapThenSumSet(LAMBDA m : DaysIn(x.y, m), 1 .. x.m - 1) + x.d - 1

DayBefore(x) ==
    IF x.d > 1 THEN [x EXCEPT !.d = @ - 1]
    ELSE IF x.m > 1 THEN [x EXCEPT !.m = @ - 1, !.d = DaysIn(x.y, x.m - 1)]
    ELSE [x EXCEPT !.y = @ - 1, !.m = 12, !.d = 31]

DayAfter(x) ==
    IF x.d < DaysIn(x.y, x.m) THEN [x EXCEPT !.d = @ + 1]
    ELSE IF x.m < 12 THEN [x EXCEPT !.m = @ + 1, !.d = 1]
    ELSE [x EXCEPT !.y = @ + 1, !.m = 1, !.d = 1]

Times(n, Op(_), x) ==
    LET after[i \in 0 .. n] == IF i = 0 THEN x ELSE Op(after[i - 1]) IN  after[n]

\* At least as late
NotBefore(a, b) ==
    DayNumber(a) > DayNumber(b) \/ (DayNumber(a) = DayNumber(b) /\ a.t >= b.t)

\* The time 0, which the code takes for none
Epoch == [y |-> 1970, m |-> 1, d |-> 1, t |-> 0]

-----------------------------------------------------------------------------
(* cgit_periods *)

Periods == <<"day", "week", "month", "year", "quarter">>
Count(p) == IF p = "day" THEN 7 ELSE 4
MaxPeriods(p) == IF p = "year" THEN 64 ELSE 12

\* Mutant of DecMonth: the year stays
DecMonthInYear(x) == IF x.m = 1 THEN [x EXCEPT !.m = 12] ELSE [x EXCEPT !.m = @ - 1]

DecMonth(x) == IF x.m = 1 THEN [x EXCEPT !.y = @ - 1, !.m = 12] ELSE [x EXCEPT !.m = @ - 1]
IncMonth(x) == IF x.m = 12 THEN [x EXCEPT !.y = @ + 1, !.m = 1] ELSE [x EXCEPT !.m = @ + 1]

Trunc(p, x) ==
    CASE p = "day" -> x
      [] p = "week" -> Times(DayNumber(x) % 7, DayBefore, x)
      [] p = "month" -> [x EXCEPT !.d = 1]
      [] p = "quarter" -> Times((x.m - 1) % 3, DecMonth, [x EXCEPT !.d = 1])
      [] p = "year" -> [x EXCEPT !.m = 1, !.d = 1]

\* dec and inc of a period, n times
Dec(p, n, x) ==
    CASE p = "day" -> Times(n, DayBefore, x)
      [] p = "week" -> Times(7 * n, DayBefore, x)
      [] p = "month" -> Times(n, DecMonth, x)
      [] p = "quarter" -> Times(3 * n, DecMonth, x)
      [] p = "year" -> [x EXCEPT !.y = @ - n]

Inc(p, n, x) ==
    CASE p = "day" -> Times(n, DayAfter, x)
      [] p = "week" -> Times(7 * n, DayAfter, x)
      [] p = "month" -> Times(n, IncMonth, x)
      [] p = "quarter" -> Times(3 * n, IncMonth, x)
      [] p = "year" -> [x EXCEPT !.y = @ + n]

\* The name of the column; that of a day does not say the year, and of a week it is
\* the day it begins with that the number of the week stands for
Pretty(p, x) ==
    CASE p = "day" -> <<x.m, x.d>>
      [] p = "week" -> <<DayNumber(Trunc("week", x)) \div 7>>
      [] p = "month" -> <<x.y, x.m>>
      [] p = "quarter" -> <<x.y, (x.m - 1) \div 3 + 1>>
      [] p = "year" -> <<x.y>>

-----------------------------------------------------------------------------
(* cgit_show_stats *)

\* cgit_find_stats_period
FindPeriod(name) ==
    IF \E i \in DOMAIN Periods : Periods[i] = name
    THEN CHOOSE i \in DOMAIN Periods : Periods[i] = name ELSE 0

\* Periods come after one another, and up to the largest they are all shown: the
\* answer is an error or the tables
Tables(max_stats, period) ==
    IF period = None THEN SubSeq(Periods, 1, max_stats)
    ELSE IF FindPeriod(period) = 0 THEN <<"not found">>
    ELSE IF FindPeriod(period) > max_stats THEN <<"bad request">> ELSE <<period>>

\* The earlier of two times, the first of which may be none
Earlier(oldest, x) == IF oldest = Epoch \/ ~NotBefore(x, oldest) THEN x ELSE oldest

\* get_oldest_commit_time
OldestTime(commits) == FoldLeft(LAMBDA oldest, c : Earlier(oldest, c.time), Epoch, commits)

\* Of the years all are shown that have commits, back from this one
CountShown(p, now, commits) ==
    IF p # "year" \/ OldestTime(commits) = Epoch THEN Count(p)
    ELSE LET span == now.y - OldestTime(commits).y + 1
         IN  IF span <= 0 THEN Count(p)
             ELSE IF span > MaxPeriods(p) THEN MaxPeriods(p) ELSE span

\* The loop before every use of the columns
First(p, now, n) == Dec(p, n - 1, Trunc(p, now))

\* period_start_time
Since(p, now, n) == [First(p, now, n) EXCEPT !.t = 0]

\* git takes a date without a time for that day at the present time of day
WalkedSince(commits, date, now) ==
    SelectSeq(commits, LAMBDA c : NotBefore(c.time, [date EXCEPT !.t = now.t]))

\* collect_multi_stats, or collect_stats for one table: the commits that are counted.
\* One walk serves all tables and begins with the earliest, but where that is 0 with
\* the earliest of those behind it; behind the last it begins with all commits.
CollectedFrom(starts, p, now, commits) ==
    LET since  == FoldLeft(Earlier, Epoch, starts)
        walked == IF Len(starts) > 1 /\ since = Epoch THEN commits
                  ELSE WalkedSince(commits, since, now)
    IN  IF Len(starts) = 1 THEN walked
        ELSE SelectSeq(walked, LAMBDA c : NotBefore(c.time, starts[p]))

Collected(tables, p, now, commits) ==
    CollectedFrom([i \in DOMAIN tables |-> Since(tables[i], now, CountShown(tables[i], now, commits))],
                  CHOOSE i \in DOMAIN tables : tables[i] = p, now, commits)

\* add_author_commit
CommitsOf(collected, p, author, name) ==
    Len(SelectSeq(collected, LAMBDA c : c.author = author /\ Pretty(p, c.time) = name))

\* The names of n columns from x on, and the date after them
Columns(p, x, n) ==
    [names |-> [j \in 1 .. n |-> Pretty(p, Inc(p, j - 1, x))], date |-> Inc(p, n, x)]

\* A row goes back from where the header, or the row before it, has ended
RowColumns(p, now, n) ==
    Columns(p, Dec(p, n, Columns(p, First(p, now, n), n).date), n)

\* print_period_stats: the authors by the number of their commits
Authors(collected) ==
    LET total(a) == Len(SelectSeq(collected, LAMBDA c : c.author = a))
    IN  SetToSortSeq({c.author : c \in ToSet(collected)}, LAMBDA a, b : total(a) > total(b))

\* cgit_print_authors_table: a row for each of the first authors, one for the others
\* and one for all (print_combined_authorrow)
TableOf(p, now, n, collected, authors, columns, top) ==
    LET shown == IF top <= 0 \/ top > Len(authors) THEN Len(authors) ELSE top
        row(as) == [j \in 1 .. n |->
            MapThenSumSet(LAMBDA i : CommitsOf(collected, p, authors[i], columns[j]), as)]
    IN  [header |-> Columns(p, First(p, now, n), n).names,
         names |-> SubSeq(authors, 1, shown),
         authors |-> [i \in 1 .. shown |-> row({i})],
         others |-> row(shown + 1 .. Len(authors)),
         total |-> row(DOMAIN authors)]

Table(p, now, n, collected, top) ==
    TableOf(p, now, n, collected, Authors(collected), RowColumns(p, now, n).names, top)

-----------------------------------------------------------------------------

\* The periods of the calendar, counted
PeriodNumber(p, x) ==
    CASE p = "day" -> DayNumber(x)
      [] p = "week" -> DayNumber(x) \div 7
      [] p = "month" -> 12 * x.y + x.m - 1
      [] p = "quarter" -> 4 * x.y + (x.m - 1) \div 3
      [] p = "year" -> x.y

\* t: the table of n periods; first: the time from which the walk may take commits
AddsUp(p, now, commits, n, t, first) ==
    LET in(j) == {i \in DOMAIN commits :
                     PeriodNumber(p, commits[i].time) = PeriodNumber(p, now) - n + j}
        walked(j) == {i \in in(j) : NotBefore(commits[i].time, first)}
    IN  /\ \A j \in 1 .. n : \A i \in in(j) : t.header[j] = Pretty(p, commits[i].time)
        /\ \A j \in 1 .. n : Cardinality(walked(j)) <= t.total[j]
                           /\ t.total[j] <= Cardinality(in(j))
        /\ \A j \in 1 .. n : t.total[j] = t.others[j]
                 + MapThenSumSet(LAMBDA i : t.authors[i][j], DOMAIN t.authors)
        /\ \A i \in DOMAIN t.authors : \A j \in 1 .. n :
               LET own(set) == Cardinality({k \in set : commits[k].author = t.names[i]})
               IN  own(walked(j)) <= t.authors[i][j] /\ t.authors[i][j] <= own(in(j))

(***************************************************************************)
(* The columns are the last periods of the calendar, the present one last, *)
(* whatever day it is: a commit made in a column's period bears its name   *)
(* and is counted there, for its author and in the total, and the rows add *)
(* up.  A walk leaves out what the first day of the first column saw       *)
(* before the present time of day, and the years that begin with 1970 are  *)
(* counted only from the first of the quarters where those are shown too.  *)
(***************************************************************************)
StatsAddUp(max_stats, period, now, commits, top) ==
    \A tables \in {Tables(max_stats, period)} :
    \A p \in ToSet(tables) \cap ToSet(Periods) :
    \A n \in {CountShown(p, now, commits)} :
    \A t \in {Table(p, now, n, Collected(tables, p, now, commits), top)} :
        LET cut == Since(p, now, n) = Epoch /\ "quarter" \in ToSet(tables)
            first == IF cut THEN Since("quarter", now, Count("quarter")) ELSE Since(p, now, n)
        IN  AddsUp(p, now, commits, n, t, [first EXCEPT !.t = now.t])
=============================================================================
