------------------------------- MODULE Links -------------------------------
(***************************************************************************)
(* The links on a page and the requests that come of them                  *)
(* (ui-shared-links-nav.c, ui-shared-links-url.c, ui-shared-forms.c,       *)
(* parsing.c, cgit-config.c).  A link leaves out what the next request     *)
(* would assume anyway, and the url is the repository's, the page and the  *)
(* path in one, which the request has to take apart.                       *)
(*                                                                         *)
(* An url is a sequence of segments, [n, git] for a name that may end in   *)
(* ".git"; what the escaping and its reversal do to it is left out.  The   *)
(* parameters are a set of names with their values.                        *)
(***************************************************************************)
EXTENDS Integers, Sequences, FiniteSets, SequencesExt, NoValue

\* site: the repositories in the order of the list, the one of the page, its branches
\* and other names that git knows, the configuration of the diffs
Site(repos, repo, branches, ssdiff) ==
    [repos |-> repos, repo |-> repo, branches |-> branches, ssdiff |-> ssdiff]

-----------------------------------------------------------------------------
(* The request *)

\* cgit_get_repoinfo, None or a place in the list: with or without ".git", but the
\* url itself first
Alternate(url) == Front(url) \o <<[Last(url) EXCEPT !.git = ~@]>>

GetRepoinfo(site, url) ==
    LET at(u) == {i \in DOMAIN site.repos : site.repos[i].url = u /\ ~site.repos[i].ignore}
        first(s) == CHOOSE i \in s : \A j \in s : i <= j
    IN  IF at(url) # {} THEN first(at(url))
        ELSE IF at(Alternate(url)) # {} THEN first(at(Alternate(url))) ELSE None

\* cgit_parse_url: the longest part of the url that is a repository's
ParseUrl(site, url) ==
    LET fits == {k \in 1 .. Len(url) : GetRepoinfo(site, SubSeq(url, 1, k)) # None}
        k == CHOOSE i \in fits : \A j \in fits : i >= j
    IN  IF fits = {} THEN [repo |-> None, page |-> None, path |-> <<>>]
        ELSE [repo |-> GetRepoinfo(site, SubSeq(url, 1, k)),
              page |-> IF k < Len(url) THEN url[k + 1].n ELSE None,
              path |-> SubSeq(url, k + 2, Len(url))]

\* find_default_branch: the default if it is a branch, or else the first branch
DefaultHead(site) ==
    LET def == site.repos[site.repo].defbranch
    IN  IF def \in Range(site.branches) THEN def ELSE Head(site.branches)

\* querystring_cb, for one parameter
Given(params, n, default) ==
    IF \E p \in params : p[1] = n THEN (CHOOSE p \in params : p[1] = n)[2] ELSE default

\* querystring_cb and cgit_repo_prepare_cmd
RequestOf(site, link) ==
    LET u == ParseUrl(site, link.url)
        given(n, default) == Given(link.params, n, default)
    IN  [repo |-> u.repo,
         page |-> IF u.page = None /\ u.repo # None THEN "summary" ELSE u.page,
         path |-> u.path,
         head |-> given("h", IF u.repo = site.repo THEN DefaultHead(site) ELSE None),
         oid |-> given("id", None), oid2 |-> given("id2", None),
         difftype |-> given("dt", None), context |-> given("context", 0),
         ignorews |-> given("ignorews", 0), follow |-> given("follow", 0),
         ofs |-> given("ofs", 0), grep |-> given("qt", None), search |-> given("q", None),
         showmsg |-> given("showmsg", 0)]

-----------------------------------------------------------------------------
(* The links of a page that was asked for with q *)

ParamIf(cond, n, v) == IF cond THEN {<<n, v>>} ELSE {}
Seg(n) == [n |-> n, git |-> FALSE]

\* Mutant of Repolink: the branch is always the default one
RepolinkNoHead(site, page, head, path) ==
    [url |-> site.repos[site.repo].url \o (IF page = None THEN <<>> ELSE <<Seg(page)>> \o path),
     params |-> {}]

\* repolink
Repolink(site, page, head, path) ==
    [url |-> site.repos[site.repo].url \o (IF page = None THEN <<>> ELSE <<Seg(page)>> \o path),
     params |-> ParamIf(head # None /\ head # site.repos[site.repo].defbranch, "h", head)]

With(link, params) == [link EXCEPT !.params = @ \cup params]

\* A revision that is the branch on the page is left out
IdParam(q, rev) == ParamIf(rev # None /\ q.head # None /\ rev # q.head, "id", rev)

Reporevlink(site, q, page, head, rev, path) ==
    With(Repolink(site, page, head, path), IdParam(q, rev))

LogLink(site, q, head, rev, path, ofs, grep, pattern, showmsg, follow) ==
    With(Repolink(site, "log", head, path),
         IdParam(q, rev)
         \cup ParamIf(grep # None /\ pattern # None, "qt", grep)
         \cup ParamIf(grep # None /\ pattern # None, "q", pattern)
         \cup ParamIf(ofs > 0, "ofs", ofs)
         \cup ParamIf(showmsg # 0, "showmsg", 1) \cup ParamIf(follow # 0, "follow", 1))

\* What the links to a commit and to a diff add from the query
DiffParams(q) ==
    ParamIf(q.difftype \notin {None, 0}, "dt", q.difftype)
    \cup ParamIf(q.context > 0 /\ q.context # 3, "context", q.context)
    \cup ParamIf(q.ignorews # 0, "ignorews", 1) \cup ParamIf(q.follow # 0, "follow", 1)

CommitLink(site, q, head, rev, path) ==
    With(Repolink(site, "commit", head, path), IdParam(q, rev) \cup DiffParams(q))

DiffLink(site, q, head, new_rev, old_rev, path) ==
    With(Repolink(site, "diff", head, path),
         IdParam(q, new_rev) \cup ParamIf(old_rev # None, "id2", old_rev) \cup DiffParams(q))

CompareLink(site, head, new_rev, old_rev) ==
    With(Repolink(site, "compare", head, <<>>),
         ParamIf(new_rev # None /\ old_rev # None, "id", old_rev)
         \cup ParamIf(new_rev # None /\ old_rev # None, "id2", new_rev))

\* cgit_self_link: the page again, with another path or, for the log, another follow
SelfLink(site, q, path) ==
    CASE q.page = "summary" -> Reporevlink(site, q, None, q.head, None, <<>>)
      [] q.page = "tag" ->
             Reporevlink(site, q, "tag", IF q.oid # None THEN q.oid ELSE q.head, None, <<>>)
      [] q.page \in {"tree", "plain", "blame", "patch", "refs", "snapshot"} ->
             Reporevlink(site, q, q.page, q.head, q.oid, path)
      [] q.page = "log" ->
             LogLink(site, q, q.head, q.oid, path, q.ofs, q.grep, q.search, q.showmsg, q.follow)
      [] q.page = "commit" -> CommitLink(site, q, q.head, q.oid, path)
      [] q.page = "compare" -> CompareLink(site, q.head, q.oid, q.oid2)
      [] q.page = "diff" -> DiffLink(site, q, q.head, q.oid, q.oid2, path)
      [] q.page \in {"stats", "search"} -> Reporevlink(site, q, q.page, q.head, None, path)
      [] OTHER -> Repolink(site, q.page, q.head, path)

\* cgit_add_hidden_formfields and the url that the form is for (print_header,
\* cgit_print_pageheader): the other fields of the query are not taken along
FormRequest(site, q, page, incl_head, incl_search, fields) ==
    RequestOf(site,
        [url |-> site.repos[site.repo].url \o <<Seg(page)>> \o q.path,
         params |-> fields
            \cup ParamIf(incl_head /\ q.head # site.repos[site.repo].defbranch, "h", q.head)
            \cup ParamIf(q.oid # None, "id", q.oid) \cup ParamIf(q.oid2 # None, "id2", q.oid2)
            \cup ParamIf(q.showmsg # 0, "showmsg", 1)
            \cup ParamIf(incl_search /\ q.grep # None, "qt", q.grep)
            \cup ParamIf(incl_search /\ q.search # None, "q", q.search)])

-----------------------------------------------------------------------------
(* Properties *)

\* What a page makes of its query
Shows(site, q) ==
    LET diffs == q.page \in {"commit", "diff"}
    IN  [repo |-> q.repo, page |-> q.page, path |-> q.path, head |-> q.head,
         rev |-> IF q.page = "stats" \/ q.oid = None THEN q.head ELSE q.oid,
         old |-> IF q.page = "diff" THEN q.oid2 ELSE None,
         ssdiff |-> IF ~diffs THEN FALSE
                    ELSE IF q.difftype = None THEN site.ssdiff ELSE q.difftype = 1,
         context |-> IF ~diffs THEN 0 ELSE IF q.context > 0 THEN q.context ELSE 3,
         ignorews |-> diffs /\ q.ignorews # 0,
         follow |-> (diffs \/ q.page = "log") /\ q.follow # 0,
         log |-> IF q.page = "log"
                 THEN <<q.ofs, q.showmsg, q.search # None /\ q.grep # None,
                        IF q.search # None THEN q.grep ELSE None,
                        IF q.grep # None THEN q.search ELSE None>> ELSE <<>>]

\* A longer part of the link is the url of a repository too
Shadowed(site, url) ==
    \E k \in Len(site.repos[site.repo].url) + 1 .. Len(url) :
        GetRepoinfo(site, SubSeq(url, 1, k)) # None

\* The links of the path above a page and the form for another branch show what the
\* page shows, but for the path and the branch: each parameter that is left out is
\* the one that the next request assumes.  That fails only where the url is also
\* another repository's, where the default branch is no branch, and for a text diff
\* where the diffs are side by side by default: dt=0 is left out.
SelfLinkShowsPage(site, q) ==
    \A path \in {SubSeq(q.path, 1, k) : k \in 0 .. Len(q.path)} :
        LET link == SelfLink(site, q, path)
            text == q.page \in {"commit", "diff"} /\ q.difftype = 0 /\ site.ssdiff
        IN  /\ site.repos[site.repo].defbranch \in Range(site.branches)
            /\ ~Shadowed(site, link.url)
            /\ ~text
            => Shows(site, RequestOf(site, link)) = Shows(site, [q EXCEPT !.path = path])

\* The form for another branch takes the page, the path, and the fields that it hides
SwitchKeepsPage(site, q, branch) ==
    LET next == FormRequest(site, q, q.page, FALSE, TRUE, {<<"h", branch>>})
    IN  ~Shadowed(site, site.repos[site.repo].url \o <<Seg(q.page)>> \o q.path) =>
            /\ <<next.repo, next.page, next.path, next.head>>
                   = <<q.repo, q.page, q.path, branch>>
            /\ <<next.oid, next.oid2, next.showmsg, next.grep, next.search>>
                   = <<q.oid, q.oid2, q.showmsg, q.grep, q.search>>

=============================================================================
