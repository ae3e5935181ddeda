------------------------------- MODULE MCSite -------------------------------
(***************************************************************************)
(* What outlasts a request: the list of repositories between two requests, *)
(* a link and the request that it leads to, the pages of the index, the    *)
(* statistics, the name of a snapshot.  An initial state asks one question *)
(* of a pure algorithm, or begins one of the views of MCViews.             *)
(***************************************************************************)
EXTENDS MCViews, BetweenRequests

VARIABLE question

RC == INSTANCE RepoConfig
Ix == INSTANCE Index WITH IntMax <- 100
St == INSTANCE Stats

-----------------------------------------------------------------------------
(* RepoConfig: cgitrc with up to two options before scan-path, a directory with up to *)
(* one option in its git config and one, or a readme and one, in its cgitrc           *)

C(n) == [n |-> n, git |-> FALSE, hidden |-> FALSE]
G(n) == [n |-> n, git |-> TRUE, hidden |-> FALSE]
H(n) == [n |-> n, git |-> FALSE, hidden |-> TRUE]
S(n, v) == [repo |-> FALSE, n |-> n, v |-> v]
O(n, v) == [n |-> n, v |-> v]

Options ==
    {O("snapshots", {"gz"}), O("snapshots", {}), O("branch-sort", "age"),
     O("branch-sort", "name"), O("commit-sort", "topo"), O("max-stats", "week"),
     O("max-stats", "none"), O("readme", "README"), O("about-filter", "G"),
     O("about-filter", ""), O("module-link.sub", "l"), O("desc", <<"l1", "l2">>),
     O("section", <<C("s")>>), O("name", <<C("n")>>), O("enable-blame", 1), O("hide", 1)}

Globals ==
    {<<>>, <<S("section_from_path", 1)>>, <<S("section_from_path", -1), S("remove_suffix", TRUE)>>,
     <<S("remove_suffix", TRUE)>>, <<S("scan_hidden_path", TRUE)>>, <<S("strict_export", TRUE)>>,
     <<S("enable_git_config", TRUE), S("overrides", TRUE), S("about-filter", "F")>>,
     <<S("enable_git_config", TRUE), S("snapshots", {"gz", "xz"})>>,
     <<S("branch-sort", "age"), S("commit-sort", "date"), S("max-stats", "month")>>,
     <<S("readme", "DEFAULT"), S("enable-blame", 1)>>,
     <<S("project_list", <<<<C("a"), C("d")>>, <<C("a"), G("b")>>>>)>>,
     <<S("include", "more")>>, <<S("include", "loop"), S("section", <<C("top")>>)>>}

Dir(path, worktree, config, cgitrc, export) ==
    [path |-> path, worktree |-> worktree, config |-> config, cgitrc |-> cgitrc,
     user |-> "me", description |-> None, noweb |-> FALSE, export |-> export]

Own(url, desc) == <<[repo |-> TRUE, n |-> "url", v |-> url],
                    [repo |-> TRUE, n |-> "desc", v |-> desc]>>

\* Lines behind scan-path: none of a repository; some of the last one, whichever that
\* is; a repository of their own
Section == <<S("section", <<C("late")>>)>>
Tails ==
    {<<[repo |-> TRUE, n |-> "enable-blame", v |-> 1], [repo |-> TRUE, n |-> "desc", v |-> <<"t">>],
       [repo |-> TRUE, n |-> "path", v |-> <<C("t")>>]>>,
     Own(<<C("y")>>, <<"y">>)}

\* cgitrc, or the file that it leads to through depth others
Cgitrc(globals, own, tail) ==
    <<S("cache_size", TRUE)>> \o globals \o own \o <<S("scan-path", "root")>> \o tail
Chain == <<"cgitrc", "f1", "f2", "f3", "f4", "f5", "f6", "f7", "f8">>

DeepWorld(g, c, r, own, tail, depth) ==
    [rc |-> None,
     dirs |-> {Dir(<<C("a"), G("b")>>, FALSE, c, r, TRUE), Dir(<<C("a"), C("d")>>, TRUE, <<>>, <<>>, TRUE),
               Dir(<<H("h")>>, FALSE, <<>>, <<>>, FALSE)},
     files |-> [f \in {"loop", "more"} \cup {Chain[i] : i \in DOMAIN Chain} |->
        CASE f = "loop" -> <<S("include", "loop"), S("enable-blame", 1)>>
          [] f = "more" -> <<S("enable-blame", 1), S(None, None), S("snapshots", {"gz"})>>
          [] f = Chain[depth + 1] -> Cgitrc(g, own, tail)
          [] OTHER ->
                <<S("include", Chain[1 + ((CHOOSE i \in DOMAIN Chain : Chain[i] = f) % 9)])>>]]

\* Every option in its place; lines behind scan-path, with and without a repository
\* before it; cgitrc in the first, eighth and ninth file
World(g, c, r) == DeepWorld(g, c, r, Own(<<C("z")>>, <<"d">>), Section, 0)
Worlds ==
    {World(g, c, r) : g \in Globals, c \in {<<>>} \cup {<<o>> : o \in Options},
        r \in {<<>>} \cup {<<o>> : o \in Options} \cup {<<O("readme", "R"), o>> : o \in Options}}
    \cup {DeepWorld(g, <<>>, <<O("desc", <<"r">>)>>, own, tail, depth) :
             g \in Globals, own \in {<<>>, Own(<<C("z")>>, <<"d">>)},
             tail \in Tails \cup {Section}, depth \in {0, 7, 8}}

-----------------------------------------------------------------------------
(* Links: lists in which the url of one repository begins like a page of another *)

RepoOf(url, ignore) == [url |-> url, ignore |-> ignore, defbranch |-> "main"]
RepoLists ==
    {<<RepoOf(<<C("a")>>, FALSE)>>,
     <<RepoOf(<<C("a")>>, FALSE), RepoOf(<<C("a"), C("tree")>>, FALSE)>>,
     <<RepoOf(<<C("a"), G("tree")>>, FALSE), RepoOf(<<C("a")>>, FALSE)>>,
     <<RepoOf(<<G("a")>>, FALSE), RepoOf(<<C("a")>>, FALSE)>>,
     <<RepoOf(<<C("a")>>, TRUE), RepoOf(<<G("a")>>, FALSE),
       RepoOf(<<C("a"), C("log"), G("x")>>, FALSE)>>}

Sites ==
    {Site(repos, i, branches, ssdiff) :
        repos \in RepoLists, i \in 1 .. 3, branches \in {<<"dev", "main">>, <<"dev">>},
        ssdiff \in BOOLEAN}

Q0(i, view, head, path) ==
    [repo |-> i, page |-> view, path |-> path, head |-> head, oid |-> None, oid2 |-> None,
     difftype |-> None, context |-> 0, ignorews |-> 0, follow |-> 0, ofs |-> 0,
     grep |-> None, search |-> None, showmsg |-> 0]

Queries(i) ==
    {[Q0(i, p, h, path) EXCEPT !.oid = id] :
        p \in {"tree", "blame", "stats"}, h \in {"main", "dev"},
        path \in {<<>>, <<C("x")>>, <<G("x"), C("y")>>}, id \in {None, "dev", "1234"}}
    \cup {[Q0(i, "log", h, path) EXCEPT !.oid = id, !.ofs = ofs, !.grep = g, !.search = s,
              !.showmsg = m, !.follow = f] :
        h \in {"main", "dev"}, path \in {<<>>, <<C("x")>>}, id \in {None, "1234"},
        ofs \in {0, 50}, g \in {None, "author"}, s \in {None, "me"}, m \in {0, 1}, f \in {0, 1}}
    \cup {[Q0(i, p, h, path) EXCEPT !.oid = id, !.oid2 = id2, !.difftype = d, !.context = c,
              !.ignorews = w, !.follow = w] :
        p \in {"commit", "diff"}, h \in {"main", "dev"}, path \in {<<>>, <<C("x")>>},
        id \in {None, "main", "1234"}, id2 \in {None, "5678"}, d \in {None, 0, 1},
        c \in {0, 5}, w \in {0, 1}}

-----------------------------------------------------------------------------
(* Index: three or four repositories, two of them alike but for one column *)

Listed(url, section, name, desc, agefile, hide) ==
    [url |-> url, name |-> name, desc |-> desc, owner |-> 1, section |-> section,
     agefile |-> agefile, branch |-> None, packed |-> 10 * url, hide |-> hide,
     ignore |-> FALSE, dir |-> url % 2]

IndexRepos ==
    {<<Listed(1, s1, 2, None, a1, FALSE), Listed(2, s2, n2, 1, 90, h2),
       Listed(3, s1, 1, 2, None, FALSE), Listed(4, s2, 3, 1, 0, FALSE)>> :
        s1 \in {0, 1, None}, s2 \in {0, 2}, n2 \in {1, 2}, a1 \in {None, 5, 95}, h2 \in BOOLEAN}

IndexQuestions ==
    {<<[max_repo_count |-> Ix!MaxRepoCount(m), section_sort |-> ss, repository_sort |-> rs],
       [search |-> s, url |-> u, sort |-> by, ofs |-> 0], repos>> :
        m \in {0, 1, 2, 3}, ss \in BOOLEAN, rs \in {"name", "age"}, s \in {None, 1},
        u \in {None, 1}, by \in Ix!Columns \cup {None, "size"}, repos \in IndexRepos}

-----------------------------------------------------------------------------
(* Stats: the days on which a step back has to change the month or the year *)

Day(y, m, d) == [y |-> y, m |-> m, d |-> d, t |-> 1]
Nows == {Day(2024, 3, 1), Day(2023, 1, 1), Day(2024, 12, 31), Day(2021, 1, 3), Day(2036, 2, 29)}

Past(now) ==
    {St!Times(k, St!DayBefore, now) : k \in {0, 1, 6, 7, 27, 31}}
    \cup {[St!Times(k, St!DecMonth, now) EXCEPT !.d = d] : k \in {2, 9, 12, 47}, d \in {1, 28}}

CommitOf(a, x) == [author |-> a, time |-> x]
CommitsBefore(now) ==
    {<<>>, <<CommitOf("a", St!Epoch)>>, <<CommitOf("b", now), CommitOf("a", St!Epoch)>>,
     <<CommitOf("b", St!Epoch), CommitOf("a", Day(1970, 1, 1)), CommitOf("b", St!DayBefore(now))>>,
     <<CommitOf("a", now), CommitOf("b", Day(1970, 6, 1)), CommitOf("a", Day(2019, 6, 1))>>,
     <<CommitOf("a", Day(1971, 1, 1))>>}
    \cup {<<CommitOf("a", [x EXCEPT !.t = 0])>> : x \in Past(now)}
    \cup {<<CommitOf("a", x), CommitOf("b", now), CommitOf("b", St!DayBefore(x))>> : x \in Past(now)}

\* max-stats and the period asked for
Asked ==
    {<<5, None>>, <<1, None>>, <<4, "day">>, <<4, "week">>, <<4, "month">>, <<5, "quarter">>,
     <<4, "year">>, <<4, "quarter">>, <<4, "decade">>}

StatsQuestions ==
    UNION {{<<m[1], m[2], now, commits, top>> :
              m \in Asked, commits \in CommitsBefore(now), top \in {-1, 1}} : now \in Nows}

-----------------------------------------------------------------------------
(* Snapshot: up to three refs with names that are alike, or up to two and names that git *)
(* takes for ids                                                                          *)

RefNames == {<<"v", "1">>, <<"V", "1">>, <<"1">>, <<"p", "-", "1">>, <<"p", "-", "v", "1">>,
             <<"x">>, <<"v", "x">>, <<"_", "x">>}
RefSets == {r \in SUBSET ({"tag", "head"} \X RefNames) : Cardinality(r) \in 1 .. 3}

Refs(kind, refs) == [n \in {r[2] : r \in {s \in refs : s[1] = kind}} |-> <<kind, n>>]

\* The ids: none; whole ones, of which one is like a tag; abbreviations, also of what is
\* no commit; and whatever ends like what git describe says
NoIds == [full |-> <<>>, described |-> <<>>, short |-> <<>>]
IdNames == {<<"1">>, <<"x">>, <<"v", "x">>, <<"p", "-", "1">>}
Described == {<<"1">>, <<"v", "1">>, <<"V", "1">>, <<"p", "-", "1">>, <<"p", "-", "v", "1">>}
Id(name) == <<"id", name>>
Ids ==
    {[NoIds EXCEPT !.full = [n \in {name} |-> Id(n)]] : name \in IdNames}
    \cup {[NoIds EXCEPT !.short = [n \in names |-> Id(n)]] :
             names \in {{<<"1">>}, {<<"1">>, <<"x">>}, {<<"v", "x">>}, {<<"p", "-", "1">>}}}
    \cup {[NoIds EXCEPT !.described = [n \in Described |-> Id(<<"g">>)]]}

\* The repositories; a few objects may lead to no commit.  Any name may be asked for, and
\* its archive or the tar of it may be signed.
SnapshotRepos(refs) ==
    {Repo(<<"p">>, Refs("tag", refs), Refs("head", refs), i,
          (refs \cup {Id(n) : n \in IdNames \cup {<<"g">>}}) \ other, formats, {}) :
        i \in IF Cardinality(refs) = 3 THEN {NoIds} ELSE Ids \cup {NoIds},
        other \in IF Cardinality(refs) = 3 THEN {{}} ELSE {{}, {Id(<<"1">>), <<"tag", <<"v", "1">>>>}},
        formats \in {{"tar"}, {"tar.gz", "zip"}}}

Named(repo) ==
    UNION {DOMAIN repo.tags, DOMAIN repo.heads, DOMAIN repo.full, DOMAIN repo.described,
           DOMAIN repo.short}

Signed(repo, name) ==
    {[repo EXCEPT !.sigs = sigs] :
        sigs \in {{}, {<<"tar", GetOid(repo, name)>>}, {<<"tar.gz", GetOid(repo, name)>>}}}

-----------------------------------------------------------------------------

NoView == NoDiff /\ NoLog /\ NoFilters /\ NoAuth

\* The page of an initial state, or the ref that it links to the snapshots of
Leaves ==
    \/ /\ topic = "links" /\ download = None
       /\ \E site \in Sites : \E q \in Queries(site.repo) :
             /\ site.repo \in DOMAIN site.repos /\ ~site.repos[site.repo].ignore
             /\ visit = <<site, q>>
    \/ /\ topic = "snapshot" /\ visit = None
       /\ \E refs \in RefSets : \E repo \in SnapshotRepos(refs) :
          \E name \in Named(repo) : \E signed \in Signed(repo, name) :
             download = <<signed, <<"main">>, name>>

Question ==
    \/ topic = "config" /\ question \in Worlds
    \/ topic = "index" /\ question \in IndexQuestions
    \/ topic = "stats" /\ question \in StatsQuestions

Init ==
    \/ InitView /\ question = None /\ visit = None /\ download = None
    \/ Question /\ NoView /\ visit = None /\ download = None
    \/ Leaves /\ NoView /\ question = None

Next == NextView /\ UNCHANGED <<question, visit, download>>

Spec ==
    Init /\ [][Next]_<<topic, diffvars, logvars, filtervars, authvars, question, visit, download>>

-----------------------------------------------------------------------------
\* A list from the cache is the list of the scan (cgit-repolist.c)
CachedListSame == topic = "config" => RC!CachedListSame(question)
\* The pages of the index show every repository once, in order (ui-repolist.c)
IndexShowsAll == topic = "index" => Ix!IndexShowsAll(question[1], question[2], question[3])
\* Every commit is counted in the column of its day, once (ui-stats.c)
StatsAddUp ==
    topic = "stats" => St!StatsAddUp(question[1], question[2], question[3], question[4], question[5])
=============================================================================
