------------------------------- MODULE Index -------------------------------
(***************************************************************************)
(* The index of the repositories (ui-repolist.c): filtered, sorted, cut    *)
(* into pages by another request each, with a heading where the section    *)
(* changes.                                                                *)
(*                                                                         *)
(* Texts and times are numbers, None for one that is missing; the section  *)
(* 0 is the empty one.                                                     *)
(***************************************************************************)
EXTENDS Integers, Sequences, FiniteSets, SequencesExt, TLC

CONSTANTS
    None,
    IntMax      \* the largest int

\* int arithmetic as the compilers do it
Plus(a, b) == IF a + b > IntMax THEN a + b - 2 * (IntMax + 1) ELSE a + b

-----------------------------------------------------------------------------

\* get_repo_modtime: the agefile if it holds a date, the default branch's file,
\* packed-refs, or 0
Modtime(r) ==
    IF r.agefile \notin {None, 0} THEN r.agefile
    ELSE IF r.branch # None THEN r.branch
    ELSE IF r.packed # None THEN r.packed ELSE 0

\* is_match and is_in_url
IsVisible(q, r) ==
    /\ ~r.hide /\ ~r.ignore
    /\ q.search = None \/ q.search \in {r.url, r.name, r.desc, r.owner}
    /\ q.url = None \/ q.url = r.dir

\* cmp: what is missing comes last
Cmp(a, b) ==
    CASE a = b -> 0
      [] a = None -> 1
      [] b = None -> -1
      [] OTHER -> IF a < b THEN -1 ELSE 1

\* sort_idle returns the difference of two times as an int
CmpIdle(a, b) ==
    LET d == (Modtime(b) - Modtime(a)) % (2 * (IntMax + 1))
    IN  IF d > IntMax THEN d - 2 * (IntMax + 1) ELSE d

FirstOf(results) ==
    LET decided == SelectSeq(results, LAMBDA c : c # 0)
    IN  IF decided = <<>> THEN 0 ELSE Head(decided)

\* The functions of sortcolumn
Compare(cfg, field, a, b) ==
    CASE field = "section" ->
             FirstOf(<<Cmp(a.section, b.section),
                       IF cfg.repository_sort = "age" THEN CmpIdle(a, b) ELSE 0,
                       Cmp(a.name, b.name)>>)
      [] field = "idle" -> CmpIdle(a, b)
      [] OTHER -> Cmp(a[field], b[field])

Columns == {"section", "name", "desc", "owner", "idle"}

\* sort_repolist, which returns FALSE for a column that it does not know
SortRepolist(cfg, field, repos) ==
    IF field \in Columns
    THEN SortSeq(repos, LAMBDA a, b : Compare(cfg, field, a, b) < 0) ELSE repos

Ordered(cfg, q, repos) ==
    IF q.sort # None THEN SortRepolist(cfg, q.sort, repos)
    ELSE IF cfg.section_sort THEN SortRepolist(cfg, "section", repos) ELSE repos

Visible(cfg, q, repos) == SelectSeq(Ordered(cfg, q, repos), LAMBDA r : IsVisible(q, r))

\* Mutant of Rows: the page ends one later
RowsOneMore(cfg, q, repos) ==
    LET all == Visible(cfg, q, repos)
        here == {h \in DOMAIN all : h > q.ofs /\ h <= Plus(q.ofs, cfg.max_repo_count + 1)}
    IN  [i \in 1 .. Cardinality(here) |-> all[(CHOOSE h \in here : \A k \in here : h <= k) + i - 1]]

\* The rows of one page of cgit_print_repolist
Rows(cfg, q, repos) ==
    LET all == Visible(cfg, q, repos)
        here == {h \in DOMAIN all : h > q.ofs /\ h <= Plus(q.ofs, cfg.max_repo_count)}
    IN  [i \in 1 .. Cardinality(here) |-> all[(CHOOSE h \in here : \A k \in here : h <= k) + i - 1]]

Section(r) == IF r.section = 0 THEN None ELSE r.section

\* The headings before the rows: <<>> for none, else the section, which may be None
Headings(cfg, q, rows) ==
    LET sorted == q.sort \in Columns
        last(i) == IF i = 1 THEN None ELSE Section(rows[i - 1])
    IN  [i \in DOMAIN rows |->
            IF sorted \/ last(i) = Section(rows[i]) THEN <<>> ELSE <<Section(rows[i])>>]

\* print_pager: the offsets of the pages it links to; each link keeps the search, the
\* order and the url
Pager(cfg, q, repos) ==
    LET items == Len(Visible(cfg, q, repos))
    IN  IF items <= cfg.max_repo_count THEN <<>>
        ELSE [i \in 1 .. (items + cfg.max_repo_count - 1) \div cfg.max_repo_count |->
                 (i - 1) * cfg.max_repo_count]

\* config_cb: no limit is the largest int
MaxRepoCount(n) == IF n <= 0 THEN IntMax ELSE n

-----------------------------------------------------------------------------
(* Properties *)

\* The pages that the pager leads to show every repository that is to be seen, once
\* and in the order asked for; within a page a row stands under the heading of its
\* own section, and when the list is sorted by section no heading comes twice.
IndexShowsAll(cfg, q, repos) ==
    LET pager == Pager(cfg, q, repos)
        page(ofs) == Rows(cfg, [q EXCEPT !.ofs = ofs], repos)
        pages == IF pager = <<>> THEN <<page(0)>> ELSE [i \in DOMAIN pager |-> page(pager[i])]
        seen == FlattenSeq(pages)
        by == IF q.sort # None THEN q.sort
              ELSE IF cfg.section_sort THEN "section" ELSE None
    IN  /\ ToSet(seen) = {r \in ToSet(repos) : IsVisible(q, r)}
        /\ Len(seen) = Cardinality(ToSet(seen))
        /\ by \in Columns =>
               \A i, j \in DOMAIN seen : i < j => Compare(cfg, by, seen[i], seen[j]) <= 0
        /\ \A p \in DOMAIN pages :
               LET h == Headings(cfg, q, pages[p])
                   above(i) == {k \in 1 .. i : h[k] # <<>>}
                   heading(i) == IF above(i) = {} THEN None
                                 ELSE h[CHOOSE k \in above(i) : \A m \in above(i) : k >= m][1]
               IN  q.sort \notin Columns =>
                       /\ \A i \in DOMAIN pages[p] : heading(i) = Section(pages[p][i])
                       /\ by = "section" =>
                              \A i, j \in DOMAIN h : i # j /\ h[i] # <<>> => h[i] # h[j]
=============================================================================
