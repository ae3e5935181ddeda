----------------------------- MODULE RepoConfig -----------------------------
(***************************************************************************)
(* The list of repositories (cgit-config.c, configfile.c, shared.c,        *)
(* scan-tree.c, cgit-repolist.c): cgitrc is read line by line, scan-path   *)
(* looks for repositories with the settings made so far, and what it finds *)
(* is printed as a file of the same language, which later requests read in *)
(* the place of the scan.                                                  *)
(*                                                                         *)
(* Of the options that are handled alike, a few stand for all.  A name, an *)
(* url, a path and a section is a sequence of components, each a name that *)
(* may be followed by ".git"; ".git" alone has the name "".                *)
(***************************************************************************)
EXTENDS Integers, Sequences, FiniteSets, SequencesExt, TLC

CONSTANT None

Component == [n : STRING, git : BOOLEAN, hidden : BOOLEAN]

Texts == {"owner", "section", "homepage"}       \* xstrdup(value)
Flags == {"enable-blame", "hide"}               \* atoi(value)
Periods == {"week", "month", "year"}

-----------------------------------------------------------------------------
(* The options of a repository *)

\* cgit_add_repo: what the repository takes over from the settings made so far.
\* The name is the url until another is given.
AddRepo(cfg, url) ==
    [url |-> url, name |-> None, path |-> None, desc |-> None, owner |-> None,
     homepage |-> None, readme |-> cfg.readme, own |-> FALSE, submodules |-> <<>>, hide |-> 0]
    @@ [n \in {"section", "snapshots", "enable-blame", "max-stats", "branch-sort",
               "commit-sort", "about-filter"} |-> cfg[n]]

NewFilter(v) == IF v = "" THEN None ELSE v

\* Mutant of RepoConfig: the readmes of the repository are added to the default
RepoConfigAppends(cfg, r, n, v) ==
    CASE n \in Texts \cup Flags \cup {"name", "desc"} -> [r EXCEPT ![n] = v]
      [] n = "snapshots" -> [r EXCEPT ![n] = cfg.snapshots \cap v]
      [] n = "branch-sort" /\ v \in {"age", "name"} -> [r EXCEPT ![n] = v]
      [] n = "commit-sort" /\ v \in {"date", "topo"} -> [r EXCEPT ![n] = v]
      [] n = "max-stats" /\ v \in Periods -> [r EXCEPT ![n] = v]
      [] n = "module-link.sub" -> [r EXCEPT !.submodules = Append(@, v)]
      [] n = "readme" -> [r EXCEPT !.readme = Append(@, v), !.own = TRUE]
      [] n = "about-filter" /\ cfg.overrides -> [r EXCEPT ![n] = NewFilter(v)]
      [] OTHER -> r

\* cgit_repo_config; the first readme takes the place of the defaults
RepoConfig(cfg, r, n, v) ==
    CASE n \in Texts \cup Flags \cup {"name", "desc"} -> [r EXCEPT ![n] = v]
      [] n = "snapshots" -> [r EXCEPT ![n] = cfg.snapshots \cap v]
      [] n = "branch-sort" /\ v \in {"age", "name"} -> [r EXCEPT ![n] = v]
      [] n = "commit-sort" /\ v \in {"date", "topo"} -> [r EXCEPT ![n] = v]
      [] n = "max-stats" /\ v \in Periods -> [r EXCEPT ![n] = v]
      [] n = "module-link.sub" -> [r EXCEPT !.submodules = Append(@, v)]
      [] n = "readme" -> [r EXCEPT !.readme = Append(IF r.own THEN @ ELSE <<>>, v),
                                   !.own = TRUE]
      [] n = "about-filter" /\ cfg.overrides -> [r EXCEPT ![n] = NewFilter(v)]
      [] OTHER -> r

ApplyAll(cfg, r, options) ==
    FoldLeft(LAMBDA acc, o : RepoConfig(cfg, acc, o.n, o.v), r, options)

-----------------------------------------------------------------------------
(* scan-path *)

\* remove-suffix: ".git" and then the slash that a directory .git leaves
StripSuffix(url) ==
    IF ~Last(url).git THEN url
    ELSE IF Last(url).n = "" THEN Front(url)
    ELSE Front(url) \o <<[Last(url) EXCEPT !.git = FALSE]>>

\* section-from-path: n components from the front, or all but n at the back
PathSection(cfg, rel) ==
    LET n == IF cfg.section_from_path > 0 THEN cfg.section_from_path
             ELSE Len(rel) + cfg.section_from_path
    IN  IF cfg.section_from_path # 0 /\ n \in 1 .. Len(rel) - 1
        THEN SubSeq(rel, 1, n) ELSE None

\* add_repo for the directory d, in the order of the code.  The path ends in "/", so
\* that its test for "/.git" never holds: the url of a work tree ends in /.git.
ScanRepo(cfg, d) ==
    LET rel == d.path \o (IF d.worktree THEN <<[n |-> "", git |-> TRUE, hidden |-> FALSE]>>
                          ELSE <<>>)
        added == AddRepo(cfg, rel)
        config == IF cfg.enable_git_config THEN ApplyAll(cfg, added, d.config) ELSE added
        suffix == IF cfg.remove_suffix THEN [config EXCEPT !.url = StripSuffix(@)]
                  ELSE config
        facts == [suffix EXCEPT
                    !.path = rel,
                    !.name = IF @ = None THEN suffix.url ELSE @,
                    !.owner = IF @ = None THEN d.user ELSE @,
                    !.desc = IF @ = None THEN d.description ELSE @]
        section == PathSection(cfg, rel)
        moved == IF section = None THEN facts
                 ELSE [facts EXCEPT
                    !.section = section,
                    !.name = IF IsPrefix(section, @)
                             THEN SubSeq(@, Len(section) + 1, Len(@)) ELSE @]
    IN  ApplyAll(cfg, moved, d.cgitrc)

\* scan_path does not look into a repository, nor into hidden directories unless
\* told to; what is not exported is found but not added
ScanPath(cfg, dirs, root) ==
    LET found == {d \in dirs :
            /\ IsPrefix(root, d.path)
            /\ \A e \in dirs : IsPrefix(root, e.path) => ~IsStrictPrefix(e.path, d.path)
            /\ cfg.scan_hidden_path
               \/ \A i \in Len(root) + 1 .. Len(d.path) : ~d.path[i].hidden}
        added == {d \in found : ~d.noweb /\ (cfg.strict_export => d.export)}
        order == SetToSeq(added)
    IN  [i \in DOMAIN order |-> ScanRepo(cfg, order[i])]

\* scan_projects or scan_tree
Scan(cfg, dirs) ==
    IF cfg.project_list = None THEN ScanPath(cfg, dirs, <<>>)
    ELSE FlattenSeq([i \in DOMAIN cfg.project_list |->
                        ScanPath(cfg, dirs, cfg.project_list[i])])

-----------------------------------------------------------------------------
(* The cached list *)

Line(n, v) == [repo |-> TRUE, n |-> n, v |-> v]
LineIf(cond, n, v) == IF cond THEN <<Line(n, v)>> ELSE <<>>

\* Mutant of PrintRepo: an option that equals nothing special is left out
PrintRepoShort(cfg, r) ==
    <<Line("url", r.url), Line("name", r.name), Line("path", r.path)>>
    \o LineIf(r.owner # None, "owner", r.owner)
    \o LineIf(r.desc # None, "desc", <<Head(r.desc)>>)
    \o [i \in DOMAIN r.readme |-> Line("readme", r.readme[i])]
    \o <<Line("section", r.section)>>
    \o LineIf(r.homepage # None, "homepage", r.homepage)
    \o LineIf(r["enable-blame"] # 0, "enable-blame", r["enable-blame"])
    \o LineIf(r.snapshots # cfg.snapshots, "snapshots", r.snapshots)
    \o LineIf(r["max-stats"] # cfg["max-stats"], "max-stats", r["max-stats"])
    \o LineIf(r["branch-sort"] = "age", "branch-sort", "age")
    \o LineIf(r["commit-sort"] # None, "commit-sort", r["commit-sort"])
    \o <<Line("hide", r.hide)>>

\* print_repo: what equals the global setting is left out, and so are the links of
\* the submodules and all but the first line of the description
PrintRepo(cfg, r) ==
    <<Line("url", r.url), Line("name", r.name), Line("path", r.path)>>
    \o LineIf(r.owner # None, "owner", r.owner)
    \o LineIf(r.desc # None, "desc", <<Head(r.desc)>>)
    \o [i \in DOMAIN r.readme |-> Line("readme", r.readme[i])]
    \o <<Line("section", r.section)>>
    \o LineIf(r.homepage # None, "homepage", r.homepage)
    \o <<Line("enable-blame", r["enable-blame"])>>
    \o LineIf(r["about-filter"] \notin {None, cfg["about-filter"]},
              "about-filter", r["about-filter"])
    \o LineIf(r.snapshots # cfg.snapshots, "snapshots", r.snapshots)
    \o LineIf(r["max-stats"] # cfg["max-stats"], "max-stats", r["max-stats"])
    \o LineIf(r["branch-sort"] = "age", "branch-sort", "age")
    \o LineIf(r["commit-sort"] # None, "commit-sort", r["commit-sort"])
    \o <<Line("hide", r.hide)>>

\* generate_cached_repolist after the scan
PrintRepolist(cfg, repos) == FlattenSeq([i \in DOMAIN repos |-> PrintRepo(cfg, repos[i])])

-----------------------------------------------------------------------------
(* cgitrc *)

\* The settings before the first line (cgit_prepare_context)
Prepared ==
    [n \in {"about-filter", "commit-sort", "project_list"} |-> None]
    @@ [n \in {"strict_export", "scan_hidden_path", "enable_git_config", "remove_suffix",
               "overrides", "cache_size"} |-> FALSE]
    @@ [section |-> <<>>, snapshots |-> {}, readme |-> <<>>, section_from_path |-> 0]
    @@ ("enable-blame" :> 0 @@ "max-stats" :> "year" @@ "branch-sort" :> "name")

\* st.repo is ctx.repo, as a place in the list.  For the properties: is this a line
\* behind scan-path, before another repository; which options of which repository were
\* set there; was scan-path in the ninth file?
Start == [cfg |-> Prepared, repos |-> <<>>, repo |-> 0, scanned |-> <<>>,
          behind |-> FALSE, stray |-> {}, ninth |-> FALSE]

Strayed(st, l) ==
    IF st.behind THEN [st EXCEPT !.stray = @ \cup {<<st.repo, l.n>>}] ELSE st

\* config_cb for all but scan-path and include
ConfigCb(st, l) ==
    IF l.repo THEN
        CASE l.n = "url" -> [st EXCEPT !.repos = Append(@, AddRepo(st.cfg, l.v)),
                                       !.repo = Len(st.repos) + 1,
                                       !.behind = FALSE]
          [] l.n = "path" /\ st.repo # 0 -> [Strayed(st, l) EXCEPT !.repos[st.repo].path = l.v]
          [] l.n \notin {"url", "path"} /\ st.repo # 0 ->
                 [Strayed(st, l) EXCEPT !.repos[st.repo] = RepoConfig(st.cfg, @, l.n, l.v)]
          [] OTHER -> st
    ELSE IF l.n = "readme" THEN [st EXCEPT !.cfg.readme = Append(@, l.v)]
    ELSE IF l.n = "about-filter" THEN [st EXCEPT !.cfg[l.n] = NewFilter(l.v)]
    ELSE IF \/ l.n = "branch-sort" /\ l.v \notin {"age", "name"}
            \/ l.n = "commit-sort" /\ l.v \notin {"date", "topo"}
            \/ l.n = "max-stats" /\ l.v \notin Periods
         THEN st
    ELSE [st EXCEPT !.cfg[l.n] = l.v]

\* cgit_process_cached_repolist, or the scan itself where nothing is cached.  In the
\* ninth of nested files neither the cached list nor the cgitrc of a repository can be
\* opened.  A scan leaves ctx.repo where it is; the lines of a cached list move it.
ScanPathLine(world, st, nesting) ==
    LET ninth == nesting > 8
        rc    == IF ninth THEN <<>> ELSE world.rc
        dirs  == IF ninth THEN {[d EXCEPT !.cgitrc = <<>>] : d \in world.dirs} ELSE world.dirs
        found == Scan(st.cfg, dirs)
        after == IF st.cfg.cache_size /\ world.rc # None
                 THEN FoldLeft(ConfigCb, st, rc)
                 ELSE [st EXCEPT !.repos = @ \o found,
                                 !.scanned = PrintRepolist(st.cfg, found)]
    IN  [after EXCEPT !.behind = TRUE, !.ninth = ninth]

\* parse_configfile: a line without "=" is the last, nine files are open at most
RECURSIVE ParseConfigfile(_, _, _, _)
ParseConfigfile(world, st, lines, nesting) ==
    IF nesting > 8 THEN st
    ELSE LET ends == {i \in DOMAIN lines : lines[i].n = None}
             end == IF ends = {} THEN Len(lines)
                    ELSE (CHOOSE i \in ends : \A j \in ends : i <= j) - 1
             step(acc, l) ==
                CASE ~l.repo /\ l.n = "scan-path" -> ScanPathLine(world, acc, nesting + 1)
                  [] ~l.repo /\ l.n = "include" ->
                         ParseConfigfile(world, acc, world.files[l.v], nesting + 1)
                  [] OTHER -> ConfigCb(acc, l)
         IN  FoldLeft(step, st, SubSeq(lines, 1, end))

Load(world) == ParseConfigfile(world, Start, world.files["cgitrc"], 0)

-----------------------------------------------------------------------------
(* Properties *)

\* The repository b is the repository a read back: the same but for what print_repo
\* leaves out, and an option that was set to turn a global one off comes back on
\* where the value that turns it off is not printed.  The options in but are not compared.
ReadBack(cfg, a, b, but) ==
    /\ \A n \in {"url", "name", "path", "owner", "section", "homepage", "readme", "snapshots",
                 "max-stats", "commit-sort", "enable-blame", "hide"} \ but : a[n] = b[n]
    /\ "desc" \in but \/ b.desc = (IF a.desc = None THEN None ELSE <<Head(a.desc)>>)
    /\ "about-filter" \in but \/ b["about-filter"] =
           (IF a["about-filter"] = None THEN cfg["about-filter"] ELSE a["about-filter"])
    /\ "branch-sort" \in but \/ b["branch-sort"] =
           (IF a["branch-sort"] = "name" THEN cfg["branch-sort"] ELSE "age")

\* The list read back, where the repositories are not those of cgitrc itself.  Options
\* behind scan-path are those of the repository before them, which is another one.
SameList(first, second) ==
    /\ second.cfg = first.cfg
    /\ Len(second.repos) = Len(first.repos)
    /\ \A i \in DOMAIN first.repos :
           LET but == {n \in DOMAIN first.repos[i] : <<i, n>> \in first.stray \cup second.stray}
           IN  IF \E l \in Range(first.scanned) : l.n = "url" /\ l.v = first.repos[i].url
               THEN ReadBack(first.cfg, first.repos[i], second.repos[i], but)
               ELSE \A n \in DOMAIN first.repos[i] \ but :
                        first.repos[i][n] = second.repos[i][n]

\* cgitrc.5.txt:385: what scan-path finds is cached as an include-file.  A request that
\* reads the list from the cache knows the same repositories, in the same order and
\* with the same options, as the one that scanned for them, but for options that cgitrc
\* sets behind scan-path without a repo.url, and unless scan-path is in the ninth file.
CachedListSame(world) ==
    \A first \in {Load([world EXCEPT !.rc = None])} :
    \A second \in {Load([world EXCEPT !.rc = first.scanned])} :
        first.ninth \/ SameList(first, second)
=============================================================================
