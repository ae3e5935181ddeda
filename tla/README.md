# A TLA+ model of cgit

cgit is a CGI program: the web server starts one process per request, the
process reads its configuration, looks at the query, prints a page about a git
repository on its standard output and exits. The processes share no memory. They
meet in a directory, the cache, and that is where the program is concurrent. The
rest is sequential code with a good deal of state in global variables.

This directory holds TLA+ modules that model parts of that program, the
configurations that check them with TLC, and proofs for TLAPS. `PROJECT.json`
lists the components, the runs, the line of the source every definition stands
for, the places where the code and what is written about it disagree
("findings"), and the places where the code is hard to test ("hazards").

## 1. Inventory

| component | source | state | operations | what is hard | correct when |
|---|---|---|---|---|---|
| page cache | `core/cache.c`, `core/cache-processing.c` | two names per slot in the file system, fcntl locks, `struct cache_slot`, where stdout goes | open, lock, fill, rename, print, prune | every system call interleaves with other requests; processes die; calls fail | a request gets one page, its own; a published file does not change; the lock never outlives the generation |
| cached repository list | `core/cgit-repolist.c` | `rc-<hash>` and its lock file | stat, parse, age, fork, create, scan, print, rename, close | two processes at once, stdio buffering, death in between | one generator; what is parsed is what one scan found; an old list is replaced |
| request life cycle | `core/cgit.c`, `cgit-auth.c`, `cgit-repo.c`, `cmd.c`, `cgit-context.c` | `ctx`: configuration, query, page, authenticated | parse, authenticate, choose ttl, choose command, prepare the repository, print | the order of decisions, error pages, what of it is cached | no page for the unauthenticated is cached; one header per response |
| filters | `core/filter*.c` | descriptors, child processes, the Lua write hook | open, write, close, clean up | nesting, descriptors in a changed order, children that die | stdout restored, children reaped, everything written reaches the filter |
| configuration | `core/configfile.c`, `core/cgit-config.c` | `ctx.cfg`, the current repository | one call per line, includes | order of lines, defaults copied when a repository begins, nesting limit | an option reaches the repository it was written for; the cached list reads back as it was |
| request parsing | `core/parsing.c`, `core/shared.c`, `core/html.c` | `ctx.qry`, `ctx.repo` | url to repository, page, path | repositories below repositories; ignored ones | the longest matching repository is chosen |
| scan | `core/scan-tree.c` | list of repositories, a static current one | walk, add | hidden directories, `noweb`, `strict-export`, section from path | each repository once |
| diffs | `core/shared-diff.c`, `ui/ui-diff*.c`, `ui/ui-ssdiff.c` | queues of deferred lines, line numbers | a call per line of the diff | when to flush | every line once, in order, with its number |
| log, statistics, index, snapshots | `ui/ui-log*.c`, `ui/ui-stats*.c`, `ui/ui-repolist.c`, `ui/ui-snapshot.c` | offsets, periods, counters | paging, sorting, grouping | first and last page, calendar edges | nothing lost between two pages |
| authentication filters | `filters/*authentication*.lua` | a secret in a file, signed cookies and redirects | make or load the secret, sign, validate | processes that make the secret at the same time, and die meanwhile | one secret, for good |
| links and forms | `ui/ui-shared-links-nav.c`, `ui-shared-links-url.c`, `ui-shared-forms.c` | `ctx.qry` | write a link or hidden fields | what is left out has to be what the next request assumes | the request shows what the link stands for |
| other pages, layout, browser side, example filters | `ui/*`, `cgit.js`, `filters/*` | none of their own | rendering | - | - |

How they interact: `cmd_main` (cgit.c) reads the configuration, which may fill
the list of repositories from the cached list (a call into cgit-repolist.c for
every `scan-path` line); parses the query; lets the authentication filter
decide; and calls `cache_process` with `process_request` as the callback that
prints the page. `cache_process` calls back with stdout pointing at the lock file or
at the client. The callback may open filters, which move stdout again. So the
page cache, the filters and the life cycle share descriptor 1, and the two caches
share the directory but no file.

## 2. Modules

| module | models | used by |
|---|---|---|
| `PageCache`, `PageCacheInv` | the page cache, system call by system call, and its invariant | `PageCacheRefinement`, `MCPageCache`, `PageCache_proofs` |
| `PageStore`, `PageCacheRefinement` | what the cache promises, and the mapping under which PageCache implements it | `MCPageCache`, `PageCache_proofs` |
| `RepolistCache` | the file of the cached list and its lock | `MCRepolistCache`, `RepolistCache_proofs` |
| `Pages`, `RequestLifecycle` | what every command prints; a request from its arrival to its end, over the repository and the cache | `MCRequestLifecycle`, `RequestLifecycle_proofs` |
| `NoValue` | `None`, the value of what is not there | `Log`, `Filters`, `AuthSecret` |
| `Filters` | a page written through exec and Lua filters | `MCViews`, `Filters_proofs` |
| `SSDiff` | the statistic and the lines of a diff, as text or side by side | `MCViews`, `SSDiff_proofs` |
| `Log` | the pages of a log, following renames | `MCViews`, `Log_proofs` |
| `AuthSecret` | the secret of the authentication filters, between processes | `MCViews`, `AuthSecret_proofs` |
| `RepoConfig` | cgitrc, the scan and the text of the cached list | `MCSite` |
| `Links` | links, forms and the requests they become | `BetweenRequests` |
| `Index` | the index: visible repositories, order, pages, headings | `MCSite` |
| `Stats` | periods, columns and tables of the statistics | `MCSite` |
| `Snapshot` | file names of snapshots and the refs they stand for | `BetweenRequests` |
| `BetweenRequests` | a page that was visited, a ref whose snapshots are linked to, and what is promised of both | `MCSite`, `BetweenRequests_proofs` |

`MCPageCache`, `MCRepolistCache`, `MCRequestLifecycle` and `MCSite` with `MCViews` give
the constants their values for TLC. A module `..._proofs` extends the module it is about.
`SSDiff`, `Log`, `Filters` and `AuthSecret` name their specifications `DiffSpec`,
`LogSpec`, `FilterSpec` and `AuthSpec`, so that `MCViews` can extend them all: the
properties that `site` checks are then the ones the theorems state.

The order was: what processes share (PageCache, RepolistCache, RequestLifecycle),
the abstract specification of the cache, the state machines within a page
(Filters, SSDiff, Log), then the algorithms that two requests have to agree on
(RepoConfig, Links, Index, Stats, Snapshot) and the secret of the filters.

Left of the plan: proofs about the index, the statistics and the configuration; in the
models, the escaping of urls and the matching of words within two lines of a diff.

## 3. The page cache (`PageCache`)

### State

| module | code |
|---|---|
| `cache_name`, `lock_name` | the two names of a slot in cache-root; a name is linked to an inode or to nothing |
| `file` | content and mtime of an inode: the key in the header, the chunks of the page, their number |
| `owner` | who holds the fcntl write lock of an inode |
| `pc` | where the process is in `process_slot` |
| `cache_fd`, `lock_fd`, `cache_st`, `match` | the members of `struct cache_slot` of that name |
| `stdout` | what descriptor 1 refers to, from `dup2` in `cache_fill_slot` to `dup2` in `cache_unlock_slot` |
| `page`, `written` | the page the callback generates and how much of it has been written |
| `out`, `sent` | what the client has received |

A chunk carries who generated it, for which key, and how long its page is. That
is all that is needed to tell a page from a mixture of two, so the content is
left out. Files are written in place: writing a chunk replaces what is at
its position and truncates nothing, as `write` does.

### Actions

One action is one system call with the local computation after it, because two
processes can interleave exactly there. `Open`, `Fstat`, `ReadHit`, `ReadMiss`
are `cache_open_slot` and the decision after it; `LockOpen`, `LockSet`,
`LockBusy`, `LockKey` are `cache_lock_slot`; `CheckModified` is
`cache_is_modified`; `Redirect`, `Fill`, `FillDone` are `cache_fill_slot`;
`Publish` and `RestoreNew` are `cache_unlock_slot(slot, 1)`; `Prune` and
`RestoreOld` are `cache_unlock_slot(slot, 0)` and `cache_close_lock`; `Send` and
`SendDone` are `cache_print_slot` with sendfile or with read and write; `Direct`
is the callback with stdout at the client. The actions named `...Fails` are the
same calls returning an error; `Crash` is a process that dies, by a signal, the
web server's timeout or `die()`.

The kernel is modelled as far as the code depends on it: a lock belongs to a
process and an inode; closing *any* descriptor of the inode releases it, `dup2`
over such a descriptor included; exit closes everything; an inode without
a name and without descriptors is used for the next new file.

### The three mishaps

The lock file can stop being its owner's alone in three ways, and each of them is a
step of the model that the history variable `mishaps` remembers:

- `late`: a process opened the lock file, its owner then renamed or unlinked it and
  gave up the lock, and now the first process locks an inode that is published;
- `dropped`: an exec filter's `dup2` closed a descriptor of the lock file;
- `stranded`: a rename failed, so that a file somebody sends from is still at the lock
  file's name.

The violation runs show what the first two lead to. The safety properties are
stated for executions in which none has happened (`Clean`); everything else,
crashes, failing calls, lost races, is in them. `StdoutRestored`,
`LockNotHeldWhileSending`, `TypeOK` and `Termination` need no such condition, and
`WriterExclusion` only that no lock was dropped.

### Properties

`WriterExclusion`, `SlotHoldsPage`, `ServesOwnPage`, `ServesWholePage`,
`PublishedImmutable`, `PublishesOwnFile`, `RemovesOwnLock`, `StdoutRestored`,
`LockNotHeldWhileSending`, `Termination`: the comments above them in the module
say what each states and why it could be false.

### The page store

`PageStore` is the cache without files, locks and descriptors: a slot holds one page
or none, a request finds a page of its key, stores one of its own in one step, over
the page it has found and no later one, and is answered with a page it has found,
stored, or that is stored nowhere. `PageCacheRefinement` reads a slot as the page its
published file begins with, what a process has found as the page in the file it has
open, and its answer as what has been sent. `ImplementsPageStore` is PageStore's
specification under this mapping, checked with crashes and failing calls. It promises
nothing once a lock did not hold (`Unsound`): those executions are the mishaps above.
A page may disappear between being found and being sent only as `Forget` says, when
its process dies or fails; that an answer comes at all is `Termination`.

### Fairness

`FairSpec` assumes weak fairness of every process's steps, `Fail` excluded: the
operating system runs every process, and nothing makes a call fail or a process
die. The code never waits for another process (`F_SETLK` does not block), so no
fairness of a particular other process is needed.

## 4. The cached repository list (`RepolistCache`)

`rc` and `lock` are the two names, `file` the files: what the scan found, the
part of it that has left the stdio buffer, and whether the file is older than
`cache-scanrc-ttl`. Only that comparison looks at the time, so there is no clock:
`Age` makes a file old. `Stat`, `ParseOpen`, `ParseEnd`, `StillGood`, `Fork`,
`ForkFails` are `cgit_process_cached_repolist`; `Lock`, `LockExists`, `Scan`,
`Flush`, `Rename`, `RenameFails`, `Close` are `generate_cached_repolist`, for a
request that finds nothing cached and for the child it forks alike. A process
that is done is `idle` again and stands for the next request.

`FairSpec`: every process runs, and requests keep coming (weak fairness of
`Start`); `Flush` has none, because the buffer may be large enough.
Without processes that die, `OldIsReplaced` follows; with them it does not: the lock
file of `repolist_stale_lock`'s counterexample stays for good.

## 5. A request (`RequestLifecycle`, `Pages`)

`Pages` holds one operator per page of `ui/`. Given the repository, the query and
the branch, it returns the response as a sequence of tokens: the HTTP header, the
begin and the end of the layout, an error message, which object is shown, which
commit a list of commits begins with, and where the refs are told of: the start of the
layout lists the branches, and commits are shown with the refs that point at them. An
operator follows its function from early return to early return; what it leaves
out is markup, relative ages, the notes of `refs/notes`, and walks within a page that
always end in the same tokens. A page that depends on data no property looks at (search,
snapshots) gives the set of its possible responses. `cgit_print_error_page` prints a whole page of
its own, which is why the order matters: called too late, or not followed by a
return, it gives a second header in the middle of a page.

`RequestLifecycle` is `cmd_main` from the arrival of a request on. Its actions are
the authentication (`LoginPost`, `Authenticate`), the cache (`Hit`, `Miss`),
`process_request` (`LoginPage`, `RefuseRequest`, `PrepareCommand`, `RunCommand`; what
they print of the refs is filled in by `Printed`), and the end (`Finish`, back in `cache_process`; `Exit`, from within the page, for a
HEAD request or when git dies). `PrintDiffBelow` is the second half of the
commit and compare pages, which look up their revisions again, so a push may come in
between: `cgit_print_commit` gives `cgit_print_diff` a name, `cgit_print_compare` two
object ids, after a list of commits that goes by the names. Every other command is one
step.

All requests of a behaviour have one query, which is the key of the cache; they
differ in their method and in whether the visitor is let in. The cache is what
PageCache shows of it, nothing or a whole page; two requests at once on one slot
are PageCache's subject. `Push`, `DeleteRef` and `Lose` change the repository between
any two steps, at most `MaxChanges` times. A page is `old` once it is older than any
positive ttl in minutes; only a negative one still serves it.

Properties: `OneHeader`, `LayoutClosed`, `AnonymousSeesLogin`, `LoginNeverCached`,
`HeadHasNoBody`, `StaticPageStaysTrue`, `DiffOfShownCommit`. `OneHeader` and
`LayoutClosed` are stated for repositories from which no object is missing and
when no ref is deleted meanwhile: in the other cases the code prints an error
page within a page (a parent that cannot be read in `ui-diff.c:117`, a blob in
`ui-plain.c:205`). `LayoutClosed` names three further cases in which the code opens
the layout without closing it or closes it twice: `dt=2` (statistics only) of the
diff page, the blame of a binary file, and the tree page at a submodule.
`StaticPageStaysTrue` is about what a page for full SHA1s shows of objects, however old
it is. Such a page does go stale in what it says of refs: the branches in its header and
the refs next to its commits are those of the time when it was made (the manual says so
of the ttl, `cgitrc.5.txt:780`). The property names what else it leaves out, each of
which the code keeps without limit as well: the pages that show the branch although the
query has an id (`IgnoresId`), error pages, and the empty log of a commit that has not
been pushed yet (`ui-log.c:144` lets git ignore it). `DiffOfShownCommit` holds the diff of
a comparison to the statistics above it whatever is pushed; the diff of a commit page and
a comparison's list of commits are looked up by name, and may be of another commit when
that very ref moves in between (`moved`).

## 6. Within a page (`SSDiff`, `Log`, `Filters`)

`SSDiff` gets the lines of a file pair as xdiff hands them over and prints rows. A file
pair is its edit script; hunks, their headers and the context are what git makes of it
(external). `Inspect` is the pass for the statistic, `BeginPair` to `EndPair` the pass for
the lines; `deferred_old` and `deferred_new` are the queues of ui-ssdiff.c, emptied by
`SsContext` and `EndPair` only. That a new hunk does not empty them is right because a
hunk ends with a common line or with the file, which the default context of three sees to
(the mutant of `PairsAligned` drops it). `NothingLost`, `NumbersTrue`, `PairsAligned`,
`StatMatchesDiff`.

`Log` walks the commits that git returns. `Skip` and `Show` are the two loops of
`cgit_print_log`, each with `cgit_log_show_commit` and, in follow mode, `handle_rename`;
`vpath` is the global the links are made from, `pathspec` the name git follows, and
`left` the commits that git has yet to return, newest first; `lines_counted` and
`counted` are the flag and the counters that `cgit_log_show_commit` leaves to the row. After the last row the
reader follows a link (`GoNext`, `GoElsewhere`) and the next request begins, with
nothing but what the link carries. The properties compare the pages with `WholeLog`, the
log without pages: the commits that match the search and, in follow mode, are about the
file under the name asked for or an earlier one. `Lost` is its exception: a search that
does not find the commit of a rename keeps `handle_rename` from seeing it, and what is
older is missing from the log.
`PagesInOrder`, `NextMeansMore`, `RowsOwnCommit`.

`Filters` is cgit and the process of an exec filter, which starts while cgit goes on, reads
the pipe at its own pace and may exit early, be killed, or write only at the end. `fds` are
cgit's descriptors and `child_fds` that process's, so that it can be seen whether one of
them still holds the pipe open when cgit waits. A Lua filter is the
hook in the place of `write`. `FilteredInPlace`, `WaitedFilterCanEnd`.

## 7. Between two requests (`RepoConfig`, `Links`, `Index`, `Stats`, `Snapshot`, `AuthSecret`)

Most of these modules have no state of their own: they hold the functions of the code as
operators, and the property compares two requests.

`RepoConfig` folds `ConfigCb` over the lines of cgitrc, `ScanPathLine` in its place, and
gives the list of repositories, the settings and what `print_repo` writes. `CachedListSame`
loads a configuration twice, by scanning and from what the scan has written, and compares
the lists. `ReadBack` names what does not survive: submodule links, further lines of the
description, and settings whose default value is not written. A `repo.` option behind
`scan-path` belongs to the last repository before it. A scan leaves `ctx.repo` alone
(`scan-tree.c:123` keeps its own), while the lines of a cached list move it
(`cgit-config.c:117`), so that on the second request the option goes to another
repository: `stray` remembers these options, and `CachedListSame` does not compare them.
The manual wants `repo.url` before them (`cgitrc.5.txt:616`), so this is no
disagreement. Nor does it compare anything when `scan-path` is in the ninth of nested
files (`ninth`), where neither the list nor the `cgitrc` of a repository can be opened.

`Links` writes a link (`SelfLink`, `FormRequest`) and reads it (`RequestOf`); `Shows` is what
a page makes of its query. `LinkShowsPage` is the agreement of the three files: what a link
leaves out is what the next request assumes. It and `SnapshotRoundTrip` are stated in
`BetweenRequests`, about the page that was visited and the ref that was linked to.

`Index`: `Rows` and `Headings` of a page, `Pager` for the offsets it links to;
`IndexShowsAll` puts the pages together. Numbers are `int`s of a small width.

`Stats`: the columns step back from today and forth again, `Collected` is what the walk of
git returns for the date it is asked for; `StatsAddUp` compares them with the periods of
the calendar, counted independently (`PeriodNumber`). The code takes the time 0 for none
(`Earlier`): where the table of years begins with 1970 and there is one of quarters, the
walk for all tables begins with the quarters, and the older years are empty (`cut`). A
commit of that time counts as none, so that the table of years may end before it.

`Snapshot`: `Links` composes file names, `PrintSnapshot` takes them apart. A name may be
that of a tag or a branch, the id of an object, whole or abbreviated, or end in one, as
git describe writes it (`GetOid`). `SnapshotRoundTrip` says that a link is answered with
the object it was made for, or refused where that leads to no commit; `Taken` lists the
refs whose name leads elsewhere.

`AuthSecret` has a state: the secret file, and processes in `get_secret`, one action per
system call, which can be killed at any point. Tokens go from one process to another
through the browser. `OneSecret`.

## 8. Runs

Everything passes within the bounds given, and the violation runs each end in a
short counterexample.

| run | question | instance |
|---|---|---|
| `cache_fair` | whole pages, immutable files, every request answered | 2 processes, 3 keys in one slot (expiring, never expiring, not cached), 3 inodes, pages of 1 or 2 chunks, fairness |
| `cache_fail` | locks, names and pages with death at any point, every failing call, no sendfile, a filter; the page store | 2 processes, 2 keys, 3 inodes, pages of 1 or 2 chunks |
| `repolist_fair` | the lock file, the incomplete list, an old list is replaced | 2 request processes, 1 child, 1 repository, 3 files, fairness |
| `repolist_crash` | the same with death and failing calls | 2 repositories |
| `cache_late_lock`, `cache_dead_writer`, `cache_filter` | what comments in cache.c and cache-processing.c say | 2 processes |
| `repolist_stale_lock`, `repolist_partial` | what comments in cgit-repolist.c and the manual say | 2 request processes, 1 child |
| `request_safe` | every answer is one response, the right one, for the right visitor | 45 queries over all commands, 2 commits, 2 branches, a tag, a file, a binary file, a directory, a submodule; 2 changes |
| `request_static` | what the manual says of the ttls | the page of a branch's commit |
| `site` | diffs, log, filters, configuration, links, index, statistics, snapshots, the secret | see below |

Why the bounds are enough. Two processes are what a race on a slot needs, and
the proofs do the rest for any number. All keys are in one slot, as with `cache-size=1` in
`tests/t0020-validate-cache.sh`: slots do not interact. Two chunks distinguish a
long page from a short one and let a process stop in the middle of it. In
the violation runs the clock goes from 0 to 2, so that a page of
the process before is fresh, then expired, and one written at 0 in the run expires
as well. In `cache_fair` and `cache_fail` it stands still at 0 or at 2 (the action
constraint `Timeless`), which keeps the page fresh or expired throughout. A process holds at most two
inodes and two are linked to a slot; more inodes than are listed were tried and give
the same states up to renaming. Processes and inodes are symmetric (not under
fairness). In the cached list, an exhausted set of files only delays a creation.
For a request two changes are enough for a ref to move while a page is made and once
more when it is cached; the static ttl never expires, that of snapshots is 0 and the
others are positive, so that each case of `cache_process` occurs; the queries
reach every alternative of `Pages`.

The run `site` is one state space with a part for each of its modules: `topic`
says which part an initial state belongs to, and the variables of the others keep
one value. Its parts and why they are enough:

- diffs: every edit script of up to five lines and every pair of short file pairs,
  with 0 or 1 as the context asked for (0 is three lines in the code). Five lines
  hold two changes with a common line between them and a queue of two lines on each
  side; a second file pair shows whether anything is left over from the first.
- log: histories of up to three commits (a change, a rename, another file, a merge, a
  change or a rename the search does not find) and of four without merges, pages of two,
  offsets -1, 0 and 1. Three commits that are shown make two pages; the fourth is the
  root, which a followed log leaves out.
- filters: pages of up to three segments with or without an exec or a Lua filter, a
  pipe for two texts, filters that write at once or at the end, and that fail.
- configuration: thirteen sets of global options, each repository with no, one or two
  options of its own from each kind, before and behind `scan-path`, with and without a
  repository that cgitrc names itself; files that include another or themselves, up to
  `scan-path` in the ninth.
- links: lists in which a repository's url is the beginning of another's or of its
  pages, and queries that set each parameter, alone or with others.
- index: four repositories, two of them alike but for one column, and pages of one to
  three or without limit; the largest `int` is 100.
- statistics: today on the first or the last day of a year, a month and a week, in a
  leap year and before 1 January belongs to the first week, in years from which 1970 can
  still be shown and in 2036, from which it cannot; commits around each border, and at the
  time 0.
- snapshots: up to three tags or branches out of eight names that are alike, and objects
  whose ids, whole or abbreviated, or names by git describe are like these.
- the secret: three processes, which are symmetric, and three secrets, so that all of
  them may draw one at once.

A property of such a part that has no steps is checked in its initial states: the
operators of the module are the whole computation, and the property relates what one
request writes to what the next makes of it.

Disagreements that need no run, or that a property excepts by name. `cache.h:24` gives the ttl in seconds, while
`cache_is_expired` and the manual count minutes. The manual says that negative ttl
values never expire, but `age <= cache-scanrc-ttl * 60` is then false for every
age, so that every request forks a child which scans again. Links: `dt=0` is not
written (`ui-shared-links-nav.c:234` and `:319`), so that a text diff turns into one
side by side on the next link where that is the default; the link of the compare
page to itself exchanges its two ids (`:401`); the link of the statistics to
themselves drops the period. Snapshots: `ui-shared-snapshot.c:50` says that a tag whose
`v` is left out can be found again "without ambiguities", having looked at the tags alone;
a branch or an object whose id begins like the rest is found before it, and so is a ref or
an id that is the whole name of the file (`Taken` lists the cases). A request for an archive looks the name up a second time. `cgit_ssdiff_line_cb`
prints `\ No newline at end of file` at once, ahead of the lines it belongs to when these
wait; no input of `SSDiff` has that line. `print_ssdiff_line` prints no numbers for a hunk of a single line, because git
leaves out the count and `line_from_hunk` looks for its comma. `get_secret` does not
look at the result of its write: a secret file that was cut short makes every later
process end with 177. The statistics ask git for commits since a date, which git
takes for the present time of that day, so that the first column misses the
morning of its first day when a single period is shown. `ui-stats.c:253` wants all years
that have commits to be shown; one whose only commit has the time 0 is not (`:140`), as 0
stands for no commits. In follow mode the last page
of a log may be empty, and the pager behind a rename asks for the old name from the
tip, where it may not exist.

Deadlock is not checked for PageCache: a process serves one request and ends, as
a CGI process does, so the system stops when all of them have. It is checked for
RepolistCache and RequestLifecycle, whose processes begin again. RequestLifecycle
has no liveness property: nothing in it waits. In `site` a page ends, so deadlock is
not checked; that a filter cgit waits for can end is `WaitedFilterCanEnd`.

## 9. Proofs

Every theorem holds for every value of the constants that satisfies the assumptions, and
for behaviours of any length. The invariants were checked with TLC on the instances of
section 8 before they were proved.

### The page cache

`PageCacheInv` states the inductive invariant `IInv`, `PageCache_proofs` proves it
and derives the theorems, for every set of processes, keys, slots and inodes,
every ttl and every bound. The properties about pages are not inductive because a name
says nothing about who may write to the file behind it. `IInv` adds that:

- `FdOK`: a descriptor that the code is about to use is open, and `match` is set
  only between the comparison of the keys and the end;
- `OwnerOK`: whoever is between lock and release owns the inode it locked, unless a
  lock was dropped;
- `NamesOK`: an inode has one name at most;
- `SendOK`: outside the steps between lock and release nobody holds a lock (without
  failing calls) and nobody's stdout is redirected;
- `CleanInv`, under `Clean`: the lock file of a process is linked at its slot's
  lock name until it is renamed or unlinked (`LockLinked`); a file somebody reads
  is never a lock file (`ReadNotLocked`); what is published or open for
  reading begins with a whole page (`SlotPages`, `ReaderPages`), and the size in
  `cache_st` is its size (`ReaderStat`); a lock file begins with what its owner has
  written (`WriterPages`); a slot found unmodified stays so (`RefreshOK`); and what
  a client has received is what the file holds (`SentOK`).

`IInvStep` has one step per action and below it one per conjunct the action can
disturb. From `IInv` follow `TypeCorrect`, `Exclusion`, `SlotSafety`,
`ResponseSafety`, `StdoutSafety`, `LockReleased` and the action properties
`PublishedStays`, `PublishesOwn` and `RemovesOwn`.

`WholeResponse` (`ServesWholePage`: one page and nothing after it) needs more. Lock files
are not truncated, so a page has the tail of a longer one whenever a lock file is written
a second time. `WholeInv` says why that does not happen while nothing dies and no call
fails: a lock file without an owner is one nobody has written to yet (`EmptyLocks`), which
holds because whoever gives up a lock has unlinked or renamed its file before
(`Unlinked`); so a file starts empty when it is locked and grows with what its owner
writes (`WholeWrites`), and is a whole page when it is published (`WholeSlots`), read
(`WholeReads`) and sent (`WholeAnswers`).

The last part of the module proves `Implements`: under the mapping of section 3 every
initial state is one of `PageStore`, and every system call, failing or not, is a step of
it or leaves it alone. The mapping takes what a process has found from the file it has
open as the slot, and `ReadsClosed`, proved with `IInv`, says when that descriptor is
closed. Most calls change nothing the mapping sees; the steps that do are `ReadHit` and
`Open` (found), `Publish` (stored, over the page that was found or an equal one:
`RefreshOK`), `SendDone` and the end of `Direct` (answered), and the failures that forget.

### The cached list

`RepolistCache_proofs` proves `OneGeneratorAlways`: at most one process generates
the list, although processes die at any point and lock files are left behind. The
strengthening is that a generator has a file open, which is the one at the lock
file's name: `Lock` requires that there is none, and only a generator's `Rename`
removes it. `FilesInv` goes on to the contents: what is in a file comes from its scan, a
file that is in use is not given to anybody else, and a new one is empty. From it follow
`TypeCorrect`, `OneScan` (what is parsed is what one scan has found, or its beginning),
`IncompleteBriefly` (an incomplete list is at its name only between rename and fclose) and
`LockIsConcurrent`.

### A request

`RequestLifecycle_proofs` proves `OnlyLogin`: a visitor who is not let in gets
nothing but the login page, for every query, repository and ttl. The invariant
`LoginInv` follows the order of the code: nothing is printed before
`process_request`; stdout is the lock file, and a cached page is used, only for
those who are let in; so are the steps that run a command. `PageInv` adds what is in a
response: for somebody who is let in it is the beginning of a whole page while the process
goes on, and the process of a HEAD request ends with the header and does not write to the
cache. `OnlyPagesCached` and `HeadOnly` follow. `DiffInv` adds, for the commit page, that
the diff it is about to print, or has printed, is named by what the commit above it was
named by, and for a comparison that it is given object ids, which name the commits of the
statistics above it whatever is pushed (`ShownCommitsDiff`; both halves, with the list of
commits, agree as long as no ref moves that is looked up again). The attempt to prove it found that the model had counted all
parents of a merge: `cgit_print_commit` leaves out the diff of a merge of three or more, but
counts only the parents that can be read (`ReadParents`), so that such a merge has a diff
when objects are missing.

The second half of the module compares a response with the repository of a later time. `Sound`: as
long as nothing is lost, the repository has with every object what belongs to it, and refs
lead to commits; a push only adds to it (`Grows`). So what full SHA1s name is found again
and means the same (`PageStays`, page by page), which gives `StaticPagesLast`: what a page
that is kept without limit shows of objects is what the repository still gives. The refs
it tells of are taken out on both sides (`ButRefs`), since they may have moved. `FineInv` says, of every step
while nothing is lost and no branch deleted, that what it prints has one header and one
layout: `HeaderOnce`, `LayoutOnce`.

### The diff

`SSDiff_proofs` proves all four properties, for any number of file pairs of any length and
for every context. It begins with what git hands over: `XdlDiffLaid` says of the lines of
a text pair that they are those of the hunks, each once and in order, that every hunk but
the first follows a common line (`Parted`), and that each has the header of its first line
(`Headed`). `FlattenSeq` and `Cardinality` are defined by recursion; the lemmas of the
first sections say what they make of a sequence with one more member, by induction over
the members of a set of numbers (`SetInduction`), which needs no operator as a parameter.

`DiffInv` says where the program is: what has come of the current pair is the beginning of
its lines (`InPhase`), rows are about pairs that are shown and not later ones
(`RowsFrom`), and between a line that waits and the last one that came there is no common
line (`SinceCommon`). Only with `Parted` does a hunk header find the queues empty
(`HunkFindsEmpty`), and this is why `cgit_ssdiff_line_cb` need not empty them there.
`RowsAlign` follows. Each of the others needs more:

- `NumbersAreTrue`: `Counting` says of the two counters that they are the numbers of the
  header and the lines that came after it; a header without numbers leaves them at 0,
  which is below every number as long as the hunk has one line on that side. What waits
  (`QueuesNumbered`) and what is printed (`RowsNumbered`) takes its number from there.
- `NoLineLost`: `Balanced`, for every pair: the cells of its rows and then the queue make
  the texts of what has come, on both sides. `Deferred` prints the shorter queue with
  empty cells, which add nothing (`DeferredCells`).
- `StatisticMatches`: `AllKept`, in the text form too: what has come is in a row or
  waits; and `Listed`: the statistic has the pairs that are shown, with the counts of
  their scripts. The two passes ask git with different contexts; a change is in a hunk
  whatever the context (`ShownFacts`), so both count the same (`CountsChanges`).

### Filters, log, secret

`Filters_proofs`: `InPlace` and `NobodyKeepsPipe`, for every page, every size of the pipe
and every pace of the filters. The strengthening `FilterInv` says where the texts are that
cgit has written and the page does not hold yet: in the pipe, or held by the filter, in
order and without a gap (`Underway`); and what the descriptors of cgit and of the filter
are at each place of the code (`Places`), which is why the end of the pipe reaches the
filter.

`Log_proofs`: `PagesComplete`, `NextIsThere` and `RowsAreOwn`, for every history, request
and number of rows. `WalkInv`: the walk has passed what is newer than what is left, and git
follows the name the file has there (`Follows`), unless a rename was missed. With it
`cgit_log_show_commit` shows exactly the commits of the log (`ShowsTheLog`). `CountInv`:
each loop counts the commits of the log it has passed, so that a page begins at the commit
with the number `ofs`. `SeenInv`: what has been seen are the commits from some number on;
`GoNext` continues it because a page with a link to the next one is full (`FullPage`). Two
findings about the model came from the proof: the loss of a file by a search (`Lost`),
which the instance had been too small to show, and that `NextMeansMore` needs no exception
for links that carry another name.

`AuthSecret_proofs` proves `OneSecretAlways`: for any number of processes and secrets,
what a process has in memory is the secret of the file, and every token was signed with
it. The strengthening says what the order of the calls gives: once there is a file
nothing replaces it (`link` fails), a process reads only when there is one, and it signs
only with what it has read.

### Links and snapshots

`BetweenRequests` has a variable for the page and one for the ref, and no steps: cgit keeps
nothing of a request. So the theorems of `BetweenRequests_proofs` have hypotheses on the two
in the place of a specification. `LinksKeepPage`: for every list of repositories and every query for one of
the ten pages in `Kept`, of a repository that its own url leads to (`PageOf`). The url comes
apart again because no longer part of it is a repository's (`Parsed`); the parameters do not
disturb each other (`GivenApart`); and each of them is what the query has or what the next
request assumes in its place (`GivenValues`), which the page shows alike (`LinkShows`). The
pages left out drop something on purpose: the summary its path, the page of a tag its branch.

`RoundTrip`: for every repository and ref. What makes a shortened name unambiguous is the
count in `cgit_compose_snapshot_prefix`: the ref is the one tag among the three names that
are tried (`OnlyTag`), so that the first of them which git can read is the ref
(`FindsRef`); `Taken` excepts the refs for which a branch or the id of an object comes
first.

### Assumptions

- That the values which stand for "none" are none (`NoneAssumption` and the like,
  `PastAssumption`, `PageAssumption`, `BelowAssumption`): a NULL pointer is not a pointer
  to something.
- That constants have their types: `SlotOf` maps keys to slots, flags are Booleans, bounds
  and sizes are numbers (a pipe has room for one text at least; a page of the log may have
  none, but `max-commit-count` is not negative), histories and pages are sequences,
  histories have a root, request processes and children are different.
- `ObjectAssumption`: a tag names an object, the parents of a commit are commits. This is
  the format of git's objects.
- `NameAssumption`: a ref is not named like a full SHA1; git reads 40 digits as an object
  name before it looks for a ref.
- `PushAssumption`: what is pushed comes with all that belongs to it, and branches are at
  commits. git refuses anything else; `Lose`, which takes objects away, is a step of its
  own, and the theorems say when they need that it is not taken.

### What is only model-checked

`Termination` and `OldIsReplaced`: liveness under fairness is out of the prover's reach.
`CachedListSame`, `IndexShowsAll` and `StatsAddUp` are about functions that TLC evaluates on
every input of the bounds. `RepoConfig` declares a RECURSIVE operator, as a file may include
a file; `Stats` counts with folds over the steps of the calendar, and `Index` sorts with an
operator that is defined by recursion. What such a definition computes for every input needs
induction over data.

## 10. Not modelled

Of the system calls: the `dup2` that restores stdout is taken to succeed
(`RestoreNew`, `RestoreOld`; the code does not look at its result, and between two open
descriptors nothing makes it fail). When a page cannot be sent, `cmd_main` adds an error
message to what the client has got (`cgit.c:167`); `SendFails` and `Finish` end
the response there.

The hash of a key beyond the slot it selects, keys longer than the buffer of 4096
bytes, short writes, `cache_ls` and the log of the cache. `cgit_parse_args`, with which
a command line sets options. Of the configuration, the options that are stored like
another that is modelled, and the characters of a line (quotes, comments, blanks). Of the
scan, files that cannot be read and the order of a directory. Of a request, the
escaping in its url, POST data, and several requests at once on one page (PageCache is
about those). Of the configuration, more than eight repositories with options behind
`scan-path`: `cgit_add_repo` then moves the list (`shared.c:42`) and `ctx.repo` points to
where it was. Of the diffs, the longest common subsequence within two lines, the line
about a missing newline, and the raw text that git prints itself. Of the log, the graph
and the expression of a range; that a parent cannot be read there (`ui-log-commit.c:141`),
as git's walk dies of it before. Of the statistics, commits dated after today, and a clock
that goes on within one table: `time` is called for the start, the header and the totals
anew, and a table made at midnight may take them from two periods. Of the
authentication filters, passwords, LDAP and the parsing of forms. The markup of pages,
`ui-blame.c`, `ui-refs.c`, `ui-tree.c` and others beyond the response they give (Pages),
the style sheet, the example formatting filters and `cgit.js` have no state worth a
model.
