------------------------------- MODULE Pages -------------------------------
(***************************************************************************)
(* What the commands of cmd.c put on standard output, as functions of the  *)
(* repository at the moment of the call.  A response is a sequence of      *)
(* tokens: an HTTP header, the beginning and the end of the HTML layout,   *)
(* an error message, what is shown of which object, and what is said of    *)
(* the refs.  Markup and the relative ages of commits are left out; the    *)
(* order of the calls that print, and every early return, is in.           *)
(*                                                                         *)
(* A command whose data no property looks at returns the set of responses  *)
(* it may give.                                                            *)
(***************************************************************************)
EXTENDS Naturals, Sequences, FiniteSets

CONSTANTS
    Object,     \* git objects; as the id of a query, their full SHA1
    Branch,
    Tag,
    Path,
    None,
    Kind,       \* "commit", "tag", "tree" or "blob"
    Tagged,     \* the object an annotated tag is about
    Parents,    \* the parents of a commit, in order
    Entry,      \* Entry[c][p]: the object at path p of commit c, or None; a
                \* commit where the path is a submodule
    Unblamable, \* blobs that are binary or exceed max-blob-size
    EnableBlame

ASSUME NoneAssumption == None \notin Object \cup Branch \cup Tag \cup Path
ASSUME FlagAssumption == EnableBlame \in BOOLEAN

Commit == {o \in Object : Kind[o] = "commit"}

\* What git takes from an object without looking at others
ASSUME ObjectAssumption ==
    /\ Kind \in [Object -> {"commit", "tag", "tree", "blob"}]
    /\ \A o \in Object : Kind[o] = "tag" => Tagged[o] \in Object
    /\ \A c \in Commit : /\ c \in DOMAIN Entry
                         /\ Parents[c] \in Seq(Commit)
                         /\ Entry[c] \in [Path -> Object \cup {None}]

Ref == Branch \cup Tag
Name == Object \cup Ref

\* None is no diff below a page either
ASSUME BelowAssumption == None \notin [new : Name, old : Object \cup {None}]

\* git reads a full SHA1 as such, whatever refs there are
ASSUME NameAssumption == Object \cap Ref = {}

\* A request for a page: the parameters of the query string the pages use
Query == [page : STRING, repo : BOOLEAN, head : Branch \cup {None},
          id : Name \cup {None}, id2 : Name \cup {None},
          path : Path \cup {None}, statonly : BOOLEAN]

-----------------------------------------------------------------------------
(* The repository: refs says where a ref points, have which objects git    *)
(* can read.  Trees are always there.                                      *)

\* repo_get_oid: a full SHA1 is its own answer, whether the object exists or
\* not; a ref is looked up
Resolve(r, n) == IF n \in Object THEN n ELSE r.refs[n]

\* lookup_commit_reference: the commit an object id leads to, if git has it
CommitAt(r, o) ==
    LET c == IF o # None /\ Kind[o] = "tag" THEN Tagged[o] ELSE o
    IN  IF c # None /\ {o, c} \subseteq r.have /\ Kind[c] = "commit"
        THEN c ELSE None

\* The commit that a name leads to
CommitOf(r, n) == CommitAt(r, Resolve(r, n))

FirstParent(c) == IF Parents[c] = <<>> THEN None ELSE Parents[c][1]

\* The default revision of a page is the branch it is about
Rev(q, head) == IF q.id = None THEN head ELSE q.id

-----------------------------------------------------------------------------
(* Responses *)

\* "log" stands for the commits that a walk from its object meets, "stat" for the
\* statistics of a diff
TokenName == {"header", "redirect", "open", "close", "error", "body", "login",
              "commit", "log", "stat", "diff", "tag", "tree", "blob", "refs", "die"}

\* What shows the refs: the start of the layout lists the branches to choose from,
\* "refs" stands for lists of refs and for the refs shown next to commits (not for
\* notes, which refs/notes has).  Whoever prints fills in where the refs point.
RefsShown == {"open", "refs"}

Token == [t : TokenName, of : Object \cup {None} \cup [Ref -> Object \cup {None}]]

Tok(t) == [t |-> t, of |-> None]
Shows(t, o) == [t |-> t, of |-> o]

\* cgit_print_layout_start and cgit_print_layout_end around a page
Layout(body) == <<Tok("header"), Tok("open")>> \o body \o <<Tok("close")>>

\* cgit_print_error_page
ErrorPage == Layout(<<Tok("error")>>)

\* A page that is no HTML of cgit's: header and content
Raw(body) == <<Tok("header")>> \o body

-----------------------------------------------------------------------------
(* Pages about one commit *)

\* cgit_print_diff: with the layout around it when the page is the diff,
\* without when it is part of another page.  A page with statistics only
\* returns before the layout ends.
Diff(r, new, old, ctrls, raw, statonly) ==
    LET c    == CommitAt(r, Resolve(r, new))
        base == IF old # None THEN Resolve(r, old) ELSE FirstParent(c)
    IN  IF \/ c = None
           \/ old # None /\ base = None
           \/ base # None /\ CommitAt(r, base) = None
        THEN ErrorPage
        ELSE IF raw THEN Raw(<<Shows("diff", c)>>)
        ELSE IF ~ctrls THEN <<Shows("diff", c)>>
        ELSE IF statonly
             THEN <<Tok("header"), Tok("open"), Shows("diff", c)>>
        ELSE Layout(<<Shows("diff", c)>>)

\* A parent that cannot be read is not counted
ReadParents(r, c) == {i \in DOMAIN Parents[c] : Parents[c][i] \in r.have}

\* cgit_print_commit up to the diff, which a merge of three or more does not have
CommitStart(r, q, head) ==
    LET c == CommitAt(r, Resolve(r, Rev(q, head)))
    IN  IF c = None THEN ErrorPage
        ELSE IF Cardinality(ReadParents(r, c)) > 2
             THEN Layout(<<Shows("commit", c), Tok("refs")>>)
        ELSE <<Tok("header"), Tok("open"), Shows("commit", c), Tok("refs")>>

\* cgit_print_compare up to the statistics: errors stay within the layout, below the
\* form, which offers the branches
Comparable(r, q) ==
    /\ q.id # None
    /\ q.id2 # None
    /\ \A n \in {q.id, q.id2} : CommitAt(r, Resolve(r, n)) # None

CompareStart(r, q) ==
    IF {q.id, q.id2} = {None} THEN Layout(<<Tok("refs")>>)
    ELSE IF ~Comparable(r, q) THEN Layout(<<Tok("refs"), Tok("error")>>)
    ELSE <<Tok("header"), Tok("open"), Tok("refs"),
           Shows("stat", CommitOf(r, q.id2))>>

\* print_commit_list looks the names up again, and ignores them when one is gone.
\* Where a commit cannot be read the walk fails or dies.
CompareList(r, q) ==
    {IF Comparable(r, q)
     THEN <<Shows("log", CommitOf(r, q.id2)), Tok("refs")>> ELSE <<>>}
    \cup IF r.lost = {} THEN {} ELSE {<<Tok("error")>>, <<Tok("die")>>}

\* Not the code: the diff of what the names to compare lead to by then
DiffBelowOfNames(r, q, head) ==
    IF q.page = "compare" /\ Comparable(r, q)
    THEN [new |-> q.id2, old |-> Resolve(r, q.id)] ELSE None

\* The diff cgit_print_commit and cgit_print_compare go on with, or None.
\* cgit_print_diff looks the revision up again, which is a name in cgit_print_commit
\* and an object id in cgit_print_compare.
DiffBelow(r, q, head) ==
    LET c == CommitAt(r, Resolve(r, Rev(q, head)))
    IN  CASE q.page = "commit" /\ c # None /\ Cardinality(ReadParents(r, c)) < 3
               -> [new |-> Rev(q, head),
                   old |-> IF ReadParents(r, c) = {} THEN None ELSE FirstParent(c)]
          [] q.page = "compare" /\ Comparable(r, q)
               -> [new |-> Resolve(r, q.id2), old |-> Resolve(r, q.id)]
          [] OTHER -> None

\* cgit_print_patch: the commits up to c, as patches; the walk over them dies
\* on a missing parent
Patch(r, q, head) ==
    LET c == CommitAt(r, Resolve(r, Rev(q, head)))
    IN  IF \/ c = None
           \/ q.id2 # None /\ CommitAt(r, Resolve(r, q.id2)) = None
        THEN ErrorPage
        ELSE IF q.id2 = None /\ FirstParent(c) \notin r.have \cup {None}
             THEN <<Tok("header"), Tok("die")>>
        ELSE Raw(<<Shows("commit", c)>>)

\* Not the code: without the jump to cleanup when the object cannot be read
TagPageGoesOn(r, q, head) ==
    (IF Rev(q, head) \in Tag /\ r.refs[Rev(q, head)] # None THEN <<>> ELSE ErrorPage)
        \o Layout(<<Shows("tag", None)>>)

\* cgit_print_tag: refs/tags/ is put in front of the name
TagPage(r, q, head) ==
    LET o == IF Rev(q, head) \in Tag THEN r.refs[Rev(q, head)] ELSE None
    IN  IF o = None \/ o \notin r.have THEN ErrorPage
        ELSE Layout(<<Shows("tag", o)>>)

-----------------------------------------------------------------------------
(* Pages about a path *)

\* Not the code: print_object ends the layout of a blob, and so does its caller
TreePageEndsTwice(r, q, head) ==
    LET c == CommitAt(r, Resolve(r, Rev(q, head)))
    IN  IF c = None \/ q.path = None \/ Entry[c][q.path] = None THEN ErrorPage
        ELSE Layout(<<Shows("blob", Entry[c][q.path])>>) \o <<Tok("close")>>

\* print_object of ui-tree.c: the page but for its end, or an error page
TreeObject(r, o) ==
    IF o \notin r.have THEN ErrorPage
    ELSE <<Tok("header"), Tok("open"), Shows("blob", o)>>

\* walk_tree and cgit_print_tree, which ends the layout whatever print_object has
\* printed: a second time for a submodule, whose commit git does not have
TreePage(r, q, head) ==
    LET c == CommitAt(r, Resolve(r, Rev(q, head)))
        o == IF q.path = None THEN None ELSE Entry[c][q.path]
    IN  IF c = None THEN ErrorPage
        ELSE IF q.path = None THEN Layout(<<Shows("tree", c)>>)
        ELSE IF o = None THEN ErrorPage
        ELSE IF Kind[o] = "tree" THEN Layout(<<Shows("tree", o)>>)
        ELSE TreeObject(r, o) \o <<Tok("close")>>

\* print_object of ui-plain.c; match is set unless it has printed an error page
PlainObject(r, o) ==
    IF o \notin r.have THEN [printed |-> ErrorPage, match |-> FALSE]
    ELSE [printed |-> Raw(<<Shows("blob", o)>>), match |-> TRUE]

\* walk_tree and cgit_print_plain, where an error page follows without a match
PlainPage(r, q, head) ==
    LET c == CommitAt(r, Resolve(r, Rev(q, head)))
        o == IF q.path = None THEN None ELSE Entry[c][q.path]
        found == PlainObject(r, o)
    IN  IF c = None THEN ErrorPage
        ELSE IF q.path = None THEN Raw(<<Shows("tree", c)>>)
        ELSE IF o = None \/ Kind[o] = "commit" THEN ErrorPage
        ELSE IF Kind[o] = "tree" THEN Raw(<<Shows("tree", o)>>)
        ELSE found.printed \o IF found.match THEN <<>> ELSE ErrorPage

\* print_object of ui-blame.c: for a blob that is binary or too large the layout
\* is not ended
BlameObject(r, o) ==
    IF o \notin r.have THEN ErrorPage
    ELSE IF o \in Unblamable THEN <<Tok("header"), Tok("open"), Tok("error")>>
    ELSE Layout(<<Shows("blob", o)>>)

\* blame_fn and cgit_print_blame: directories and submodules have no blame
BlamePage(r, q, head) ==
    LET c == CommitAt(r, Resolve(r, Rev(q, head)))
        o == IF q.path = None THEN None ELSE Entry[c][q.path]
    IN  IF ~EnableBlame \/ c = None \/ o = None \/ Kind[o] # "blob"
        THEN ErrorPage
        ELSE BlameObject(r, o)

\* cgit_print_blob: an id must be a full SHA1, and then the path is not looked
\* at; a path that is not there leaves the commit's id, whose content is shown
BlobPage(r, q, head) ==
    LET o == IF q.id # None THEN q.id ELSE Resolve(r, head)
        at == IF q.id = None /\ o \in r.have /\ Kind[o] = "commit"
                 /\ q.path # None /\ Entry[o][q.path] # None
              THEN Entry[o][q.path] ELSE o
    IN  IF q.id \in Ref \/ o = None \/ at \notin r.have THEN ErrorPage
        ELSE Raw(<<Shows("blob", at)>>)

\* cgit_print_snapshot: the revision is the id, or guessed from the file name,
\* or the branch; what is printed is an archive, or a signature
SnapshotPage(r, q, head) ==
    LET guesses == {n \in Ref : r.refs[n] # None}
        revs    == IF q.id # None THEN {q.id}
                   ELSE IF q.head = None THEN guesses ELSE {head}
        commits == {CommitAt(r, Resolve(r, n)) : n \in revs} \ {None}
        signed  == \E n \in revs : Resolve(r, n) # None
    IN  {ErrorPage} \cup
            IF q.path = None THEN {}
            ELSE {Raw(<<Shows("commit", c)>>) : c \in commits}
                     \cup (IF signed THEN {Raw(<<Tok("body")>>)} ELSE {})

-----------------------------------------------------------------------------
(* Pages about the repository or the site *)

\* cgit_print_repo_readme: an image or a video is sent as it is
ReadmePage(r, q, head) ==
    {Layout(<<Tok("body")>>)} \cup IF q.path = None THEN {} ELSE {PlainPage(r, q, head)}

\* about_fn: the readme, or a redirect to it or to somewhere else
AboutPage(r, q, head) ==
    IF ~q.repo THEN {Layout(<<Tok("body")>>)}
    ELSE {<<Tok("redirect")>>} \cup ReadmePage(r, q, head)

\* A page whose walk over the revisions dies when a commit cannot be read
Walk(r, s, started) ==
    {s} \cup IF r.lost = {} THEN {} ELSE {started \o <<Tok("die")>>}

\* Not the code: the log of the branch, whatever the id
LogPageOfHead(r, q, head) ==
    Walk(r, Layout(<<Shows("log", CommitOf(r, head)), Tok("refs")>>),
         <<Tok("header"), Tok("open")>>)

\* cgit_print_log: a revision that does not exist is ignored, and no commit listed
LogPage(r, q, head) ==
    Walk(r, Layout(<<Shows("log", CommitOf(r, Rev(q, head))), Tok("refs")>>),
         <<Tok("header"), Tok("open")>>)

\* cgit_print_summary: the commits of the branch are counted and listed, after the
\* branches and the tags, whatever the id
SummaryPage(r, head) ==
    Walk(r, Layout(<<Tok("refs"), Shows("log", CommitOf(r, head))>>),
         <<Tok("header"), Tok("open")>>)

\* cgit_print_refs
RefsPage == {Layout(<<Tok("refs")>>)}

\* cgit_show_stats: of the branch, whatever the id
StatsPage(r, head) ==
    {ErrorPage} \cup Walk(r, Layout(<<Shows("log", CommitOf(r, head))>>),
                         <<Tok("header"), Tok("open")>>)

\* cgit_print_atom: the commits of the branch, whatever the id; setup_revisions dies
\* when the branch has gone meanwhile
AtomPage(r, head) ==
    IF Resolve(r, head) = None THEN {<<Tok("die")>>}
    ELSE Walk(r, Raw(<<Shows("log", CommitOf(r, head))>>), <<Tok("header")>>)

\* cgit_print_search in the branch, whatever the id: the form, and what is found;
\* errors stay within the layout
SearchPage(r, head) ==
    LET c == CommitOf(r, head)
    IN  {Layout(<<Tok("body")>>),
         Layout(<<Tok("body"), IF c = None THEN Tok("error") ELSE Shows("tree", c)>>)}

\* cgit_print_repolist
RepolistPage == {ErrorPage, Layout(<<Tok("body")>>)}

\* cgit_clone_info, which lists the refs, cgit_clone_objects, cgit_clone_head
ClonePage == {ErrorPage, Raw(<<Tok("refs")>>), Raw(<<Tok("body")>>)}

\* def_cmd: the commands, those that want a repository, those of http clones
Command == {"HEAD", "atom", "about", "blame", "blob", "commit", "compare",
            "diff", "info", "log", "ls_cache", "objects", "patch", "plain",
            "rawdiff", "refs", "repolist", "search", "snapshot", "stats",
            "summary", "tag", "tree"}
WantRepo == Command \ {"about", "ls_cache", "repolist"}
IsClone == {"HEAD", "info", "objects"}

\* cgit_get_cmd: the page that is asked for, or the default
CommandOf(q) ==
    IF q.page # "" THEN q.page ELSE IF q.repo THEN "summary" ELSE "repolist"

\* The pages that show the branch, whatever the id
IgnoresId == {"HEAD", "atom", "info", "objects", "refs", "search", "stats", "summary"}

\* cmd->fn(): the responses a command may give, up to what PrintDiffBelow prints
Responses(r, q, head) ==
    LET page == CommandOf(q)
    IN  CASE page = "commit"   -> {CommitStart(r, q, head)}
          [] page = "compare"  -> {CompareStart(r, q)}
          [] page = "diff"     -> {Diff(r, Rev(q, head), q.id2, TRUE, FALSE, q.statonly)}
          [] page = "rawdiff"  -> {Diff(r, Rev(q, head), q.id2, TRUE, TRUE, q.statonly)}
          [] page = "patch"    -> {Patch(r, q, head)}
          [] page = "tag"      -> {TagPage(r, q, head)}
          [] page = "tree"     -> {TreePage(r, q, head)}
          [] page = "plain"    -> {PlainPage(r, q, head)}
          [] page = "blame"    -> {BlamePage(r, q, head)}
          [] page = "blob"     -> {BlobPage(r, q, head)}
          [] page = "snapshot" -> SnapshotPage(r, q, head)
          [] page = "about"    -> AboutPage(r, q, head)
          [] page = "search"   -> SearchPage(r, head)
          [] page = "atom"     -> AtomPage(r, head)
          [] page = "stats"    -> StatsPage(r, head)
          [] page = "repolist" -> RepolistPage
          [] page = "refs"     -> RefsPage
          [] page = "log"      -> LogPage(r, q, head)
          [] page = "summary"  -> SummaryPage(r, head)
          [] page = "ls_cache" -> {Raw(<<Tok("body")>>)}
          [] page \in IsClone  -> ClonePage
=============================================================================
