-------------------------- MODULE RequestLifecycle --------------------------
(***************************************************************************)
(* What happens to a request between cmd_main (cgit.c) and the end of the  *)
(* process: authentication, the choice of a ttl, the page cache, the       *)
(* preparation of the repository and the command (module Pages).           *)
(*                                                                         *)
(* Requests come one after the other, by different visitors and with       *)
(* different methods, all for the same query string, which is the key of   *)
(* the page cache.  The repository belongs to somebody else: refs move and *)
(* objects appear between any two looks a request takes at it.  The cache  *)
(* is reduced to what PageCache shows of it: nothing, or one whole page.   *)
(***************************************************************************)
EXTENDS Pages

CONSTANTS
    Queries,    \* the queries that are tried
    DefBranch,  \* repo.defbranch, or what HEAD points to
    Target,     \* Target[n]: the objects ref n may point to
    Reach,      \* Reach[o]: the objects that come with o in a push
    Starts,     \* the refs a repository may have to begin with
    Fragile,    \* the objects that may go missing
    MaxChanges, \* bound: changes of the repository in a behaviour
    AuthFilter, \* there is an auth-filter
    EnableHttpClone,
    Ttl         \* class of pages -> "never" expires, "minutes", "zero"

Method == {"GET", "HEAD", "POST"}
TtlClass == {"root", "repo", "about", "snapshot", "static", "dynamic"}

ASSUME QueryAssumption == Queries \subseteq Query
ASSUME BranchAssumption == DefBranch \in Branch
ASSUME AuthAssumption == AuthFilter \in BOOLEAN
ASSUME RepoAssumption ==
    /\ Target \in [Ref -> SUBSET Object]
    /\ Reach \in [Object -> SUBSET Object]
    /\ Starts \subseteq [Ref -> Object \cup {None}]
    /\ Fragile \subseteq Object
    /\ MaxChanges \in Nat

\* Whatever is in S comes with what git needs to read it.  A submodule's commit is
\* not needed.
Whole(S) ==
    \A o \in S :
        /\ Kind[o] = "tag" => Tagged[o] \in S
        /\ o \in Commit => /\ \A i \in DOMAIN Parents[o] : Parents[o][i] \in S
                          /\ \A p \in Path : Entry[o][p] \in S \cup Commit \cup {None}

\* git takes a push when all that belongs to it has come, and a branch only where
\* it is at a commit.  A tag of a blob or a tree is not considered.
ASSUME PushAssumption ==
    \A n \in Ref : \A o \in Target[n] \cup ({refs[n] : refs \in Starts} \ {None}) :
        /\ o \in Reach[o]
        /\ Whole(Reach[o])
        /\ (IF Kind[o] = "tag" THEN Tagged[o] ELSE o) \in Commit

ASSUME TtlAssumption == Ttl \in [TtlClass -> {"never", "minutes", "zero"}]

VARIABLES
    query,      \* the query of every request
    repo,       \* git: is there a repository?  refs, have: as in Pages
                \* lost: objects that went missing
    changes,    \* how often the repository has changed
    cached,     \* the page in the cache, or None
    pc,
    method,
    authenticated,
    caching,    \* stdout is the lock file of the cache
    head,       \* ctx.qry.head
    below,      \* the diff that the page goes on with, or None
    out,        \* what has been printed
    moved,      \* has a ref been pushed that the page, half printed, looks up again,
    gone,       \* and was one deleted since the request came?
    answer      \* what the last request got, or None

request == <<method, authenticated, caching, head, below, out, moved, gone>>
world == <<query, repo, changes>>
vars == <<world, cached, pc, request, answer>>

\* Between two requests
NoRequest ==
    /\ method' = "GET" /\ authenticated' = FALSE /\ caching' = FALSE
    /\ head' = None /\ below' = None /\ out' = <<>>
    /\ moved' = FALSE /\ gone' = FALSE

\* A complete repository
Complete(refs) ==
    [git |-> TRUE, refs |-> refs, lost |-> {},
     have |-> UNION {Reach[refs[n]] : n \in {m \in Ref : refs[m] # None}}]

NoRefs == [n \in Ref |-> None]

Init ==
    /\ query \in Queries
    /\ \/ \E refs \in Starts : repo = Complete(refs)
       \/ repo = [Complete(NoRefs) EXCEPT !.git = FALSE]
    /\ changes = 0
    /\ cached = None
    /\ pc = "idle"
    /\ method = "GET" /\ authenticated = FALSE /\ caching = FALSE
    /\ head = None /\ below = None /\ out = <<>>
    /\ moved = FALSE /\ gone = FALSE
    /\ answer = None

-----------------------------------------------------------------------------
(* The repository and the clock *)

Change ==
    /\ repo.git
    /\ changes < MaxChanges
    /\ changes' = changes + 1
    /\ UNCHANGED <<query, cached, pc, method, authenticated, caching, head, below,
                   out, answer>>

\* The names that a page looks up once more in its second half
LookedUpAgain == IF query.page = "compare" THEN {query.id, query.id2} ELSE {Rev(query, head)}

\* Somebody pushes: the ref moves, and the objects are there before it does
Push(n, o) ==
    /\ Change
    /\ o \in Target[n] \ {repo.refs[n]}
    /\ repo' = [repo EXCEPT !.refs[n] = o,
                            !.have = @ \cup (Reach[o] \ repo.lost)]
    /\ moved' = (moved \/ (pc = "below" /\ n \in LookedUpAgain))
    /\ UNCHANGED gone

DeleteRef(n) ==
    /\ Change
    /\ repo.refs[n] # None
    /\ repo' = [repo EXCEPT !.refs[n] = None]
    /\ gone' = (pc # "idle")
    /\ UNCHANGED moved

\* One object goes missing: a disk, a shallow or a partial clone
Lose(o) ==
    /\ Change
    /\ repo.lost = {}
    /\ o \in repo.have \cap Fragile
    /\ repo' = [repo EXCEPT !.have = @ \ {o}, !.lost = {o}]
    /\ UNCHANGED <<moved, gone>>

\* The cached page becomes older than any positive ttl
Expire ==
    /\ cached # None
    /\ ~cached.old
    /\ cached' = [cached EXCEPT !.old = TRUE]
    /\ UNCHANGED <<world, pc, request, answer>>

-----------------------------------------------------------------------------
(* cmd_main up to the page *)

Receive(m) ==
    /\ pc = "idle"
    /\ method' = m
    /\ head' = query.head
    /\ answer' = None
    /\ pc' = "arrived"
    /\ UNCHANGED <<world, cached, authenticated, caching, below, out,
                   moved, gone>>

\* The process ends; the client has got s
Reply(s, old, m, g) ==
    /\ answer' = [out |-> s, old |-> old, moved |-> m, gone |-> g,
                  method |-> method, authenticated |-> authenticated]
    /\ pc' = "idle"
    /\ NoRequest
    /\ UNCHANGED world

IsLoginPost == AuthFilter /\ method = "POST" /\ query.page = "login" /\ ~query.repo

\* authenticate_post: the filter answers, with all headers, and the process exits
LoginPost ==
    /\ pc = "arrived"
    /\ IsLoginPost
    /\ Reply(<<Tok("header"), Tok("login")>>, FALSE, moved, gone)
    /\ UNCHANGED cached

\* cgit_authenticate_cookie: every cookie is valid without a filter, otherwise
\* the filter's exit status tells
Authenticate ==
    /\ pc = "arrived"
    /\ ~IsLoginPost
    /\ authenticated' \in IF AuthFilter THEN BOOLEAN ELSE {TRUE}
    /\ pc' = "authorised"
    /\ UNCHANGED <<world, cached, method, caching, head, below, out,
                   moved, gone, answer>>

CalcTtl(q) ==
    IF ~q.repo THEN "root"
    ELSE IF q.page = "" THEN "repo"
    ELSE IF q.page \in {"about", "snapshot"} THEN q.page
    ELSE IF q.id # None \/ q.id2 # None THEN "static"
    ELSE IF q.head # None THEN "dynamic"
    ELSE "repo"

\* Not the code: without one of the two tests before the cache
CacheableAnonymous == method # "HEAD" /\ Ttl[CalcTtl(query)] # "zero"
CacheableHead == authenticated /\ Ttl[CalcTtl(query)] # "zero"

\* cache-size is set to 0 for some requests, and cache_process does not cache
\* with a ttl of 0
Cacheable == authenticated /\ method # "HEAD" /\ Ttl[CalcTtl(query)] # "zero"

\* The page in the cache, if it has not expired
CachedPage ==
    IF Cacheable /\ cached # None /\ (cached.old => Ttl[CalcTtl(query)] = "never")
    THEN cached ELSE None

\* cache_process finds the page ...
Hit ==
    /\ pc = "authorised"
    /\ CachedPage # None
    /\ Reply(CachedPage.out, CachedPage.old, CachedPage.moved, CachedPage.gone)
    /\ UNCHANGED cached

\* ... or calls process_request
Miss ==
    /\ pc = "authorised"
    /\ CachedPage = None
    /\ caching' = Cacheable
    /\ pc' = "process"
    /\ UNCHANGED <<world, cached, method, authenticated, head, below, out,
                   moved, gone, answer>>

-----------------------------------------------------------------------------
(* process_request *)

\* The tokens after which the process exits: cgit_print_http_headers ends a HEAD
\* request, and git may die
ExitsAt(s) ==
    {i \in DOMAIN s : s[i].t = "die" \/ (method = "HEAD" /\ s[i].t = "header")}

Prints(s, next) ==
    \/ /\ ExitsAt(s) = {}
       /\ out' = out \o s
       /\ pc' = next
    \/ \E i \in ExitsAt(s) :
         /\ \A j \in ExitsAt(s) : i <= j
         /\ out' = out \o SubSeq(s, 1, i)
         /\ pc' = "exited"

\* The header of a repository's pages lists the branches, and commits are shown with
\* the refs that point at them, as they are now
Printed(s) ==
    [i \in DOMAIN s |-> IF query.repo /\ s[i].t \in RefsShown
                       THEN Shows(s[i].t, repo.refs) ELSE s[i]]

\* Whoever is not authenticated gets the body of the auth-filter on every page
LoginPage ==
    /\ pc = "process"
    /\ ~authenticated
    /\ Prints(Layout(<<Tok("login")>>), "finish")
    /\ UNCHANGED <<world, cached, method, authenticated, caching, head,
                   below, moved, gone, answer>>

Refused ==
    \/ CommandOf(query) \notin Command
    \/ ~EnableHttpClone /\ CommandOf(query) \in IsClone
    \/ CommandOf(query) \in WantRepo /\ ~query.repo

\* find_default_branch: repo.defbranch, or the first branch git can read
DefaultBranches ==
    LET branches == {b \in Branch : repo.refs[b] \in repo.have}
    IN  IF DefBranch \in branches THEN {DefBranch} ELSE branches

Heads == IF head # None THEN {head} ELSE DefaultBranches

\* cgit_repo_prepare_cmd gives up: no repository, no branch, no such branch
Unusable ==
    \/ ~repo.git
    \/ Heads = {}
    \/ \E h \in Heads : Resolve(repo, h) = None

RefuseRequest ==
    /\ pc = "process"
    /\ authenticated
    /\ Refused \/ (query.repo /\ Unusable)
    /\ Prints(Printed(ErrorPage), "finish")
    /\ UNCHANGED <<world, cached, method, authenticated, caching, head,
                   below, moved, gone, answer>>

PrepareCommand ==
    /\ pc = "process"
    /\ authenticated
    /\ ~Refused
    /\ IF query.repo THEN ~Unusable /\ head' \in Heads ELSE head' = head
    /\ pc' = "command"
    /\ UNCHANGED <<world, cached, method, authenticated, caching, below,
                   out, moved, gone, answer>>

\* cmd->fn()
RunCommand ==
    /\ pc = "command"
    /\ below' = DiffBelow(repo, query, head)
    /\ \E s \in Responses(repo, query, head) :
         Prints(Printed(s), IF below' = None THEN "finish" ELSE "below")
    /\ UNCHANGED <<world, cached, method, authenticated, caching, head,
                   moved, gone, answer>>

\* The rest of cgit_print_commit or cgit_print_compare
SecondHalves(d) ==
    {list \o Diff(repo, d.new, d.old, FALSE, FALSE, query.statonly) \o <<Tok("close")>>
       : list \in IF query.page = "compare" THEN CompareList(repo, query) ELSE {<<>>}}

PrintDiffBelow ==
    /\ pc = "below"
    /\ \E s \in SecondHalves(below) : Prints(Printed(s), "finish")
    /\ UNCHANGED <<world, cached, method, authenticated, caching, head,
                   below, moved, gone, answer>>

\* Back in cache_process, which publishes and prints what went to the lock file.
\* PageCache has the calls of it that may fail; that cmd_main then adds an error
\* message to whatever has been sent is in neither.
Finish ==
    /\ pc = "finish"
    /\ cached' = IF caching
               THEN [out |-> out, old |-> FALSE, moved |-> moved, gone |-> gone]
               ELSE cached
    /\ Reply(out, FALSE, moved, gone)

\* The process has exited within the page.  If stdout was the lock file then
\* nobody gets what is in it.
Exit ==
    /\ pc = "exited"
    /\ Reply(IF caching THEN <<>> ELSE out, FALSE, moved, gone)
    /\ UNCHANGED cached

-----------------------------------------------------------------------------
Environment ==
    \/ \E n \in Ref : DeleteRef(n) \/ \E o \in Target[n] : Push(n, o)
    \/ \E o \in Fragile : Lose(o)
    \/ Expire

Process ==
    \/ \E m \in Method : Receive(m)
    \/ LoginPost \/ Authenticate \/ Hit \/ Miss
    \/ LoginPage \/ RefuseRequest \/ PrepareCommand \/ RunCommand
    \/ PrintDiffBelow \/ Finish \/ Exit

Next == Environment \/ Process

Spec == Init /\ [][Next]_vars

-----------------------------------------------------------------------------
(* Properties *)

Once(s, S) == \E i \in DOMAIN s : \A j \in DOMAIN s : s[j].t \in S <=> j = i
TokensOf(s, S) == {x \in {s[i] : i \in DOMAIN s} : x.t \in S}

\* No object was missing and no ref was deleted under way
Undisturbed == repo.lost = {} /\ ~answer.gone

\* A response has one header, whatever the page, the errors on the way, the
\* method and the cache: an error page is a whole response of its own, so that a
\* missing return, or an error page within a page, gives two headers, and a HEAD
\* request that exits while stdout is the lock file gives none.
OneHeader ==
    answer # None /\ Undisturbed => Once(answer.out, {"header", "redirect"})

\* A page that opens the HTML layout closes it, once (to a HEAD request neither
\* is sent), except for three pages where cgit returns before or after it should:
\* statistics only, the blame of a blob that is not shown, the tree at a submodule.
PathLeadsTo(S) ==
    query.path # None /\ \E c \in DOMAIN Entry : Entry[c][query.path] \in S
LayoutClosed ==
    answer # None /\ Undisturbed =>
        \/ TokensOf(answer.out, {"open", "close"}) = {}
        \/ Once(answer.out, {"open"}) /\ Once(answer.out, {"close"})
        \/ query.page = "diff" /\ query.statonly
        \/ query.page = "blame" /\ PathLeadsTo(Unblamable)
        \/ query.page = "tree" /\ PathLeadsTo({o \in Object : Kind[o] = "commit"})

\* "We're not yet authenticated, no matter what page we're on, display the
\* authentication body": not even a page that is in the cache because somebody
\* else has seen it is sent to such a visitor.
AnonymousSeesLogin ==
    answer # None /\ ~answer.authenticated =>
        TokensOf(answer.out, TokenName \ {"header", "open", "login", "close"}) = {}

\* "This should never be cached": what is in the cache is a whole page that was
\* made for a visitor who was let in, not the start of one that went wrong.
LoginNeverCached ==
    cached # None =>
        /\ TokensOf(cached.out, {"login", "die"}) = {}
        /\ Len(cached.out) > 1 \/ cached.out = <<Tok("redirect")>>

\* A HEAD request gets the header and no more, whoever sends it and although the
\* page may be in the cache, and what it gets is not what others get later.
HeadHasNoBody ==
    answer # None /\ answer.method = "HEAD" =>
        TokensOf(answer.out, TokenName \ {"header", "redirect", "die"}) = {}

\* What a request would get now, but for what it is told of the refs
PagesNow(h) ==
    LET d == DiffBelow(repo, query, h)
    IN  IF d = None THEN Responses(repo, query, h)
        ELSE {s \o t : s \in Responses(repo, query, h), t \in SecondHalves(d)}

\* What an answer shows besides the refs
ButRefs(s) ==
    [i \in DOMAIN s |-> IF s[i].t \in RefsShown THEN Tok(s[i].t) ELSE s[i]]

\* What a page for full SHA1s shows of objects cannot become wrong: one that comes
\* from the cache after any time shows what a request would get now, whatever was
\* pushed since.  This is not so for the refs it tells of, for the pages that show
\* the branch although they have an id, for error pages, and for the empty log of a
\* commit that was not there yet.
StaticPageStaysTrue ==
    /\ answer # None
    /\ answer.old
    /\ query.id \in Object
    /\ query.id2 \in Object \cup {None}
    /\ CommandOf(query) \notin IgnoresId
    /\ repo.lost = {}
    /\ TokensOf(answer.out, {"error"}) = {}
    /\ Shows("log", None) \notin TokensOf(answer.out, {"log"})
    /\ \E h \in Branch : repo.refs[h] # None
    => \E h \in Branch : repo.refs[h] # None /\ ButRefs(answer.out) \in PagesNow(h)

\* The two halves of a page are about the same commit.  On a comparison the diff
\* belongs to the statistics above it, whatever is pushed in between; the list of
\* commits does, and the diff of a commit page to the commit, unless the very ref
\* moved that is looked up again.
Halves == {<<"stat", "diff">>, <<"stat", "log">>, <<"commit", "diff">>}

DiffOfShownCommit ==
    answer # None =>
        \A k \in Halves :
            \A x \in TokensOf(answer.out, {k[1]}), y \in TokensOf(answer.out, {k[2]}) :
                x.of = y.of \/ (answer.moved /\ k # <<"stat", "diff">>)

\* cgitrc.5.txt: cache-static-ttl is for "pages accessed with a fixed SHA1",
\* cache-dynamic-ttl for those "accessed without a fixed SHA1".  A page that is
\* named by a ref is therefore not served when it is older than that, or it still
\* is what a request would get now.
NamedPagesExpire ==
    answer # None /\ answer.old /\ TokensOf(answer.out, {"error"}) = {} =>
        query.id \in Object \/ \E h \in Branch : ButRefs(answer.out) \in PagesNow(h)
=============================================================================
