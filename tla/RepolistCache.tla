---------------------------- MODULE RepolistCache ----------------------------
(***************************************************************************)
(* The cached repository list of cgit-repolist.c.  A scan-path in cgitrc   *)
(* is not scanned by every request: the first one writes the repositories  *)
(* it found to a cgitrc include-file (cached_rc), later ones parse that    *)
(* file, and when it is too old they fork a child that writes a new one.   *)
(* The file is written under the name of a lock file (locked_rc), created  *)
(* with fopen "wx", and renamed.                                           *)
(*                                                                         *)
(* Time is reduced to what cache-scanrc-ttl asks of it: a file is older    *)
(* than the ttl or not.  With a negative ttl it is from the start.         *)
(***************************************************************************)
EXTENDS FiniteSets

CONSTANTS
    Request,    \* processes that serve requests, one after the other
    Child,      \* processes that a request may fork
    Repo,       \* repositories there may be below scan-path
    Inode,      \* files
    None,
    Crashes     \* processes may die, and system calls fail

ASSUME ProcAssumption == Request \cap Child = {}
ASSUME NoneAssumption == None \notin Inode
ASSUME FlagAssumption == Crashes \in BOOLEAN

Proc == Request \cup Child

VARIABLES
    rc,         \* the file at cached_rc, or None
    lock,       \* the file at locked_rc, or None
    file,       \* scan: the result of the scan that is written to the file,
                \* data: the part of it that has left the stdio buffer,
                \* old: is the file older than cache-scanrc-ttl?
    pc,
    st,         \* the file whose mtime the process has seen
    fd,         \* the file the process has open or has parsed
    list        \* the repositories the process knows from the file it parsed

files == <<rc, lock, file>>
vars == <<rc, lock, file, pc, st, fd, list>>

EmptyFile == [scan |-> {}, data |-> {}, old |-> FALSE]

\* The file at f holds everything the scan found
Complete(f) == file[f].data = file[f].scan

\* The files that have a name or that a process has open or remembers
Used == {rc, lock} \cup {fd[p] : p \in Proc} \cup {st[p] : p \in Proc}

\* A file that is no longer used is gone
Release(g) ==
    \E used \in {Used'} :
        file' = [f \in Inode |-> IF f \in used THEN g[f] ELSE EmptyFile]

Init ==
    /\ rc = None
    /\ lock = None
    /\ file = [f \in Inode |-> EmptyFile]
    /\ pc = [p \in Proc |-> "idle"]
    /\ st = [p \in Proc |-> None]
    /\ fd = [p \in Proc |-> None]
    /\ list = [p \in Proc |-> {}]

\* Time passes for a file whose age somebody may look at
Age(f) ==
    /\ ~file[f].old
    /\ f = rc \/ \E p \in Proc : f = st[p]
    /\ file' = [file EXCEPT ![f].old = TRUE]
    /\ UNCHANGED <<rc, lock, pc, st, fd, list>>

Goto(p, l) == pc' = [pc EXCEPT ![p] = l]

-----------------------------------------------------------------------------
(* cgit_process_cached_repolist *)

\* The request leaves with the list it has, or the child exits
Leave(p) ==
    /\ Goto(p, "idle")
    /\ st' = [st EXCEPT ![p] = None]
    /\ fd' = [fd EXCEPT ![p] = None]
    /\ list' = [list EXCEPT ![p] = {}]

Start(p) ==
    /\ p \in Request
    /\ pc[p] = "idle"
    /\ Goto(p, "stat")
    /\ UNCHANGED <<files, st, fd, list>>

\* stat(cached_rc): nothing is cached, or remember its age and parse it
Stat(p) ==
    /\ pc[p] = "stat"
    /\ st' = [st EXCEPT ![p] = rc]
    /\ Goto(p, IF rc = None THEN "lock" ELSE "parse")
    /\ UNCHANGED <<files, fd, list>>

\* cgit_parse_config_file opens whatever is at cached_rc by now ...
ParseOpen(p) ==
    /\ pc[p] = "parse"
    /\ fd' = [fd EXCEPT ![p] = rc]
    /\ Goto(p, "read")
    /\ UNCHANGED <<files, st, list>>

\* ... and reads it to its end
ParseEnd(p) ==
    /\ pc[p] = "read"
    /\ list' = [list EXCEPT ![p] = file[fd[p]].data]
    /\ Goto(p, "age")
    /\ UNCHANGED <<files, st, fd>>

\* Not age <= ttl * 60: always, when the ttl is negative
TooOld(p) == file[st[p]].old

StillGood(p) ==
    /\ pc[p] = "age"
    /\ ~TooOld(p)
    /\ Leave(p)
    /\ UNCHANGED <<rc, lock>>
    /\ Release(file)

\* The child generates a new file, the request goes on with the old one
Fork(p) ==
    /\ pc[p] = "age"
    /\ TooOld(p)
    /\ \E c \in Child :
          /\ pc[c] = "idle"
          /\ pc' = [pc EXCEPT ![p] = "idle", ![c] = "lock"]
    /\ st' = [st EXCEPT ![p] = None]
    /\ fd' = [fd EXCEPT ![p] = None]
    /\ list' = [list EXCEPT ![p] = {}]
    /\ UNCHANGED <<rc, lock>>
    /\ Release(file)

\* fork() = -1 takes the way of the parent
ForkFails(p) ==
    /\ pc[p] = "age"
    /\ TooOld(p)
    /\ Crashes \/ \A c \in Child : pc[c] # "idle"
    /\ Leave(p)
    /\ UNCHANGED <<rc, lock>>
    /\ Release(file)

-----------------------------------------------------------------------------
(* generate_cached_repolist *)

\* Mutant of Lock: fopen "w", which empties the lock file that is there
LockTruncates(p) ==
    /\ pc[p] = "lock"
    /\ \E f \in Inode :
          /\ f \in Used => f = lock
          /\ lock' = f
          /\ fd' = [fd EXCEPT ![p] = f]
          /\ Goto(p, "scan")
          /\ UNCHANGED <<rc, st, list>>
          /\ Release([file EXCEPT ![f] = EmptyFile])

\* fopen(locked_rc, "wx")
Lock(p) ==
    /\ pc[p] = "lock"
    /\ lock = None
    /\ \E f \in Inode \ Used :
          /\ lock' = f
          /\ fd' = [fd EXCEPT ![p] = f]
    /\ Goto(p, "scan")
    /\ UNCHANGED <<rc, file, st, list>>

\* EEXIST, or another error: a request scans for itself, a child exits
LockExists(p) ==
    /\ pc[p] = "lock"
    /\ lock # None \/ Crashes
    /\ Leave(p)
    /\ UNCHANGED <<rc, lock>>
    /\ Release(file)

\* scan_tree or scan_projects finds what is there by now; print_repolist writes
\* it to the stdio buffer
Scan(p) ==
    /\ pc[p] = "scan"
    /\ \E repos \in SUBSET Repo : file' = [file EXCEPT ![fd[p]].scan = repos]
    /\ Goto(p, "print")
    /\ UNCHANGED <<rc, lock, st, fd, list>>

\* The buffer is full: a part of the output leaves it.  The last part stays in
\* the buffer until the file is closed.
Flush(p) ==
    /\ pc[p] = "print"
    /\ \E r \in file[fd[p]].scan \ file[fd[p]].data :
          /\ file[fd[p]].data \cup {r} # file[fd[p]].scan
          /\ file' = [file EXCEPT ![fd[p]].data = @ \cup {r}]
    /\ UNCHANGED <<rc, lock, pc, st, fd, list>>

\* Mutant of Rename: link instead of rename
RenameLinks(p) ==
    /\ pc[p] = "print"
    /\ rc' = lock
    /\ Goto(p, "close")
    /\ UNCHANGED <<lock, st, fd, list>>
    /\ Release(file)

\* rename(locked_rc, cached_rc), before fclose
Rename(p) ==
    /\ pc[p] = "print"
    /\ rc' = lock
    /\ lock' = None
    /\ Goto(p, "close")
    /\ UNCHANGED <<st, fd, list>>
    /\ Release(file)

\* ... which fails: the error is reported and the lock file stays
RenameFails(p) ==
    /\ Crashes
    /\ pc[p] = "print"
    /\ Goto(p, "close")
    /\ UNCHANGED <<files, st, fd, list>>

\* Mutant of Close: the file is not closed, and what the buffer holds is lost
CloseUnflushed(p) ==
    /\ pc[p] = "close"
    /\ Leave(p)
    /\ UNCHANGED <<rc, lock>>
    /\ Release(file)

\* fclose flushes the rest
Close(p) ==
    /\ pc[p] = "close"
    /\ Leave(p)
    /\ UNCHANGED <<rc, lock>>
    /\ Release([file EXCEPT ![fd[p]].data = file[fd[p]].scan])

\* A signal, die(), the web server's timeout: the names stay, the buffer is lost
Crash(p) ==
    /\ Crashes
    /\ pc[p] # "idle"
    /\ Leave(p)
    /\ UNCHANGED <<rc, lock>>
    /\ Release(file)

Step(p) ==
    \/ Start(p) \/ Stat(p) \/ ParseOpen(p) \/ ParseEnd(p) \/ StillGood(p)
    \/ Fork(p) \/ ForkFails(p) \/ Lock(p) \/ LockExists(p) \/ Scan(p)
    \/ Rename(p) \/ Close(p)

Next ==
    \/ \E f \in Inode : Age(f)
    \/ \E p \in Proc : Step(p) \/ Flush(p) \/ RenameFails(p) \/ Crash(p)

Spec == Init /\ [][Next]_vars

\* Requests keep coming and every process runs
FairSpec == Spec /\ \A p \in Proc : WF_vars(Step(p))

-----------------------------------------------------------------------------
(* Properties *)

TypeOK ==
    /\ rc \in Inode \cup {None}
    /\ lock \in Inode \cup {None}
    /\ file \in [Inode -> [scan : SUBSET Repo, data : SUBSET Repo, old : BOOLEAN]]
    /\ \A f \in Inode : file[f].data \subseteq file[f].scan
    /\ pc \in [Proc -> {"idle", "stat", "parse", "read", "age", "lock", "scan",
                       "print", "close"}]
    /\ st \in [Proc -> Inode \cup {None}]
    /\ fd \in [Proc -> Inode \cup {None}]
    /\ list \in [Proc -> SUBSET Repo]

Generating(p) == pc[p] \in {"scan", "print"}

\* One generator at a time, and what it will rename is the file it writes to:
\* a lock file that a dead process left stops the others, too.
OneGenerator ==
    \A p, q \in Proc :
        /\ Generating(p) => lock = fd[p]
        /\ Generating(p) /\ Generating(q) => p = q

\* A file at cached_rc lacks repositories of its scan only while the process that
\* renamed it there has yet to close it.
IncompleteOnlyUntilClose ==
    ~Crashes /\ rc # None /\ ~Complete(rc) =>
        \E p \in Proc : pc[p] = "close" /\ fd[p] = rc

\* As long as no process dies, the lock file means what the code takes it to
\* mean: that a process is generating the list at this moment.
LockMeansConcurrent ==
    ~Crashes /\ lock # None => \E p \in Proc : Generating(p) /\ fd[p] = lock

\* No request works with repositories of two scans at once.
ListFromOneScan ==
    \A p \in Proc : pc[p] = "age" => list[p] \subseteq file[fd[p]].scan

\* An old list is replaced in the end, although whoever notices its age may find
\* the lock taken or no process left to fork.
OldIsReplaced == \A f \in Inode : rc = f /\ file[f].old ~> rc # f

-----------------------------------------------------------------------------
(* What the comments and the manual promise and the code does not keep *)

\* cgit-repolist.c:143: an existing lock file only means concurrent requests.
ExistsMeansConcurrent ==
    lock # None => \E p \in Proc : fd[p] = lock

\* cgit-repolist.c:130, cgitrc.5.txt:386: the result of the scan is what cached_rc
\* holds when a request parses it.
ParsesWholeResult ==
    \A p \in Proc : pc[p] = "age" => list[p] = file[fd[p]].scan
=============================================================================
