------------------------------ MODULE PageCache ------------------------------
(***************************************************************************)
(* The page cache of cgit (cache.c, cache-processing.c): every request is  *)
(* a CGI process of its own, and the processes meet only in the file       *)
(* system.  A slot has two names, cache_name for the published page and    *)
(* lock_name for the page being generated; a name is linked to an inode or *)
(* to nothing.  A process locks the inode it opened under lock_name with   *)
(* fcntl, points its stdout at it, generates the page and renames          *)
(* lock_name to cache_name.  One action is one system call with the local  *)
(* computation that follows it.                                            *)
(*                                                                         *)
(* A page is a number of chunks, each of which carries the process that    *)
(* generated it, the key it was generated for and the length of its page,  *)
(* so that a mixture of two pages can be told from a page.                 *)
(***************************************************************************)
EXTENDS Integers, FiniteSets

CONSTANTS
    Proc,       \* CGI processes; each serves one request
    Past,       \* an earlier process, whose page may be in the cache already
    Key,        \* cache keys: the raw query string of a request
    Slot,       \* cache slots, 0 .. cache-size - 1 in the code
    SlotOf,     \* hash_str(key) % size
    Inode,      \* inodes of the file system that holds cache-root
    None,       \* no inode, no process, no key
    Ttl,        \* the time to live of a key's page, in minutes
    Minute,     \* clock ticks in a minute: 60 in the code
    CacheOn,    \* cache-size is positive and cache-root is set
    FilterKey,  \* keys whose page runs an exec filter while it is generated
    Sendfile,   \* HAVE_LINUX_SENDFILE
    Crashes,    \* processes may die: killed by the web server, or die()
    Faults,     \* system calls may fail
    MaxLen,     \* bound: chunks of a page
    MaxNow      \* bound: the clock

ASSUME PastAssumption == Past \notin Proc
ASSUME NoneAssumption == None \notin Inode /\ None \notin Proc /\ None \notin Key
ASSUME SlotAssumption == SlotOf \in [Key -> Slot]
ASSUME TtlAssumption == Ttl \in [Key -> Int] /\ Minute \in Nat
ASSUME FlagAssumption ==
    /\ CacheOn \in BOOLEAN
    /\ Sendfile \in BOOLEAN
    /\ Crashes \in BOOLEAN
    /\ Faults \in BOOLEAN
    /\ FilterKey \subseteq Key
ASSUME BoundAssumption == MaxLen \in Nat \ {0} /\ MaxNow \in Nat

VARIABLES
    \* The file system
    cache_name, \* slot -> the inode linked at cache_name, or None
    lock_name,  \* slot -> the inode linked at lock_name, or None
    file,       \* inode -> its content and modification time
    owner,      \* inode -> the process that holds the fcntl write lock, or None
    now,        \* time(NULL)
    \* The processes: their place in process_slot and their struct cache_slot
    pc,
    key,
    cache_fd,
    lock_fd,
    cache_st,
    match,
    stdout,     \* what file descriptor 1 refers to: "client" or "lock"
    page,       \* the length of the page fn() is generating
    written,    \* chunks of it that have reached the lock file
    out,        \* the response: the chunks the client has received
    sent,       \* their number
    \* History
    mishaps     \* which of the three events have happened, after which the lock
                \* file is not its owner's alone:
                \*   "late"     a process locked an inode no longer at lock_name
                \*   "dropped"  a process lost its lock while generating
                \*   "stranded" a rename failed, and the page stayed at lock_name

fs == <<cache_name, lock_name, file, owner, now>>
local == <<key, cache_fd, lock_fd, cache_st, match, stdout, page, written>>
response == <<out, sent>>
vars == <<cache_name, lock_name, file, owner, now, pc, key, cache_fd, lock_fd,
          cache_st, match, stdout, page, written, out, sent, mishaps>>

-----------------------------------------------------------------------------
(* Data *)

Pos == 1 .. MaxLen
Chunk == [by : Proc \cup {Past}, key : Key, of : Pos]

\* A position beyond the end of a file or of a response
Hole == [by |-> None, key |-> None, of |-> 0]
Cells == [Pos -> Chunk \cup {Hole}]
Blank == [j \in Pos |-> Hole]

\* The header of a file is the key it was written for; len counts body chunks
File == [key : Key \cup {None}, body : Cells, len : 0 .. MaxLen,
         mtime : 0 .. MaxNow]
EmptyFile(t) == [key |-> None, body |-> Blank, len |-> 0, mtime |-> t]

Size(f) == IF f.key = None THEN 0 ELSE 1 + f.len

\* The members of struct stat the code looks at
Stat == [ino : Inode \cup {None}, mtime : 0 .. MaxNow, size : 0 .. MaxLen + 1]
NoStat == [ino |-> None, mtime |-> 0, size |-> 0]
StatOf(i) == [ino |-> i, mtime |-> file[i].mtime, size |-> Size(file[i])]

\* write() replaces what is there and truncates nothing
WriteKey(f, k) == [key |-> k, body |-> f.body, len |-> f.len, mtime |-> now]
Overwrite(f, j, c) ==
    [key |-> f.key, body |-> [f.body EXCEPT ![j] = c],
     len |-> IF f.len < j THEN j ELSE f.len, mtime |-> now]

\* A page of n chunks: all of one generation, for one key, and no chunk missing
PageOf(p, k, n) ==
    [j \in Pos |-> IF j <= n THEN [by |-> p, key |-> k, of |-> n] ELSE Hole]

\* The n cells begin with every chunk of one generation of a page for k
StartsWithPage(cells, n, k) ==
    /\ n >= 1
    /\ cells[1] \in Chunk
    /\ cells[1].key = k
    /\ cells[1].of <= n
    /\ \A j \in 1 .. cells[1].of : cells[j] = cells[1]

\* The n cells are one generation of a page for k and nothing else
IsPage(cells, n, k) == StartsWithPage(cells, n, k) /\ cells[1].of = n

-----------------------------------------------------------------------------
(* The file system *)

\* No name and no open descriptor refers to i: a new file may get this inode
Unused(i) ==
    /\ \A s \in Slot : cache_name[s] # i /\ lock_name[s] # i
    /\ \A p \in Proc : cache_fd[p] # i /\ lock_fd[p] # i

\* The kernel drops every lock of p when p exits
ReleaseAll(p) == owner' = [i \in Inode |-> IF owner[i] = p THEN None ELSE owner[i]]

\* Closing any descriptor of an inode drops the process's lock on it
Release(p, i) == owner' = [owner EXCEPT ![i] = IF @ = p THEN None ELSE @]

\* The cache is empty, or holds the page an earlier process generated for k
InitCache ==
    \/ /\ cache_name = [s \in Slot |-> None]
       /\ file = [i \in Inode |-> EmptyFile(0)]
    \/ \E k \in Key, i \in Inode, n \in Pos :
          /\ cache_name = [s \in Slot |-> IF s = SlotOf[k] THEN i ELSE None]
          /\ file = [[j \in Inode |-> EmptyFile(0)] EXCEPT
                        ![i] = [key |-> k, body |-> PageOf(Past, k, n),
                                len |-> n, mtime |-> 0]]

Init ==
    /\ InitCache
    /\ lock_name = [s \in Slot |-> None]
    /\ owner = [i \in Inode |-> None]
    /\ now \in 0 .. MaxNow
    /\ pc = [p \in Proc |-> "idle"]
    /\ key \in [Proc -> Key]
    /\ cache_fd = [p \in Proc |-> None]
    /\ lock_fd = [p \in Proc |-> None]
    /\ cache_st = [p \in Proc |-> NoStat]
    /\ match = [p \in Proc |-> FALSE]
    /\ stdout = [p \in Proc |-> "client"]
    /\ page = [p \in Proc |-> 0]
    /\ written = [p \in Proc |-> 0]
    /\ out = [p \in Proc |-> Blank]
    /\ sent = [p \in Proc |-> 0]
    /\ mishaps = {}

Tick ==
    /\ now < MaxNow
    /\ now' = now + 1
    /\ UNCHANGED <<cache_name, lock_name, file, owner, pc, local, response, mishaps>>

-----------------------------------------------------------------------------
(* The steps of a process *)

Goto(p, l) == pc' = [pc EXCEPT ![p] = l]

MySlot(p) == SlotOf[key[p]]

\* Without the lock an expired page is served as it is; a missing one is
\* generated straight to the client.
NoLock(p) == IF match[p] THEN "print" ELSE "direct"

\* cache_is_expired, with the result of fstat in st
Expired(p, st) == Ttl[key[p]] >= 0 /\ st.mtime + Ttl[key[p]] * Minute < now

\* The early returns of cache_process: a page that is never cached
Request(p) ==
    /\ pc[p] = "idle"
    /\ Goto(p, IF CacheOn /\ Ttl[key[p]] # 0 THEN "open" ELSE "direct")
    /\ UNCHANGED <<fs, local, response, mishaps>>

\* cache_open_slot: open the published file
Open(p) ==
    /\ pc[p] = "open"
    /\ \/ /\ cache_name[MySlot(p)] # None
          /\ cache_fd' = [cache_fd EXCEPT ![p] = cache_name[MySlot(p)]]
          /\ Goto(p, "fstat")
       \/ /\ cache_name[MySlot(p)] = None \/ Faults
          /\ Goto(p, "lock_open")
          /\ UNCHANGED cache_fd
    /\ UNCHANGED <<fs, key, lock_fd, cache_st, match, stdout, page, written,
                   response, mishaps>>

\* A failing system call between open and the comparison of the keys: the
\* slot counts as missing, and process_slot closes it.
OpenFails(p) ==
    /\ Faults
    /\ pc[p] \in {"fstat", "read"}
    /\ cache_fd' = [cache_fd EXCEPT ![p] = None]
    /\ Release(p, cache_fd[p])
    /\ Goto(p, "lock_open")
    /\ UNCHANGED <<cache_name, lock_name, file, now, key, lock_fd, cache_st, match,
                   stdout, page, written, response, mishaps>>

\* cache_open_slot: stat the open file
Fstat(p) ==
    /\ pc[p] = "fstat"
    /\ cache_st' = [cache_st EXCEPT ![p] = StatOf(cache_fd[p])]
    /\ Goto(p, "read")
    /\ UNCHANGED <<fs, key, cache_fd, lock_fd, match, stdout, page, written,
                   response, mishaps>>

\* Mutant of ReadHit: the key in the file is not compared
ReadHitAnyKey(p) ==
    /\ pc[p] = "read"
    /\ match' = [match EXCEPT ![p] = TRUE]
    /\ Goto(p, IF Expired(p, cache_st[p]) THEN "lock_open" ELSE "print")
    /\ UNCHANGED <<fs, key, cache_fd, lock_fd, cache_st, stdout, page, written,
                   response, mishaps>>

\* cache_open_slot: read the header; process_slot: what to do with the slot
ReadHit(p) ==
    /\ pc[p] = "read"
    /\ file[cache_fd[p]].key = key[p]
    /\ match' = [match EXCEPT ![p] = TRUE]
    /\ Goto(p, IF Expired(p, cache_st[p]) THEN "lock_open" ELSE "print")
    /\ UNCHANGED <<fs, key, cache_fd, lock_fd, cache_st, stdout, page, written,
                   response, mishaps>>

\* Mutant of ReadMiss: another key in the slot is taken for a passing state
ReadMissRetries(p) ==
    /\ pc[p] = "read"
    /\ file[cache_fd[p]].key # key[p]
    /\ cache_fd' = [cache_fd EXCEPT ![p] = None]
    /\ Release(p, cache_fd[p])
    /\ Goto(p, "open")
    /\ UNCHANGED <<cache_name, lock_name, file, now, key, lock_fd, cache_st, match,
                   stdout, page, written, response, mishaps>>

ReadMiss(p) ==
    /\ pc[p] = "read"
    /\ file[cache_fd[p]].key # key[p]
    /\ cache_fd' = [cache_fd EXCEPT ![p] = None]
    /\ Release(p, cache_fd[p])
    /\ Goto(p, "lock_open")
    /\ UNCHANGED <<cache_name, lock_name, file, now, key, lock_fd, cache_st, match,
                   stdout, page, written, response, mishaps>>

\* cache_lock_slot: open(lock_name, O_RDWR | O_CREAT), which keeps the content
\* of a lock file that is there already
LockOpen(p) ==
    /\ pc[p] = "lock_open"
    /\ \/ /\ lock_name[MySlot(p)] # None
          /\ lock_fd' = [lock_fd EXCEPT ![p] = lock_name[MySlot(p)]]
          /\ Goto(p, "lock_set")
          /\ UNCHANGED <<lock_name, file>>
       \/ /\ lock_name[MySlot(p)] = None
          /\ \E i \in Inode :
                /\ Unused(i)
                /\ lock_name' = [lock_name EXCEPT ![MySlot(p)] = i]
                /\ file' = [file EXCEPT ![i] = EmptyFile(now)]
                /\ lock_fd' = [lock_fd EXCEPT ![p] = i]
          /\ Goto(p, "lock_set")
       \/ /\ Faults
          /\ Goto(p, NoLock(p))
          /\ UNCHANGED <<lock_name, file, lock_fd>>
    /\ UNCHANGED <<cache_name, owner, now, key, cache_fd, cache_st, match, stdout,
                   page, written, response, mishaps>>

\* Mutant of LockSet: no lock is taken, the descriptor alone lets a process write
LockSetUnchecked(p) ==
    /\ pc[p] = "lock_set"
    /\ owner' = [owner EXCEPT ![lock_fd[p]] = p]
    /\ Goto(p, "lock_key")
    /\ UNCHANGED <<cache_name, lock_name, file, now, local, response, mishaps>>

\* cache_lock_slot: fcntl(F_SETLK), which never waits
LockSet(p) ==
    /\ pc[p] = "lock_set"
    /\ owner[lock_fd[p]] = None
    /\ owner' = [owner EXCEPT ![lock_fd[p]] = p]
    /\ mishaps' = IF lock_name[MySlot(p)] = lock_fd[p]
                  THEN mishaps ELSE mishaps \cup {"late"}
    /\ Goto(p, "lock_key")
    /\ UNCHANGED <<cache_name, lock_name, file, now, local, response>>

\* Mutant of LockBusy: the lock file is removed as if it were the process's own
LockBusyUnlinks(p) ==
    /\ pc[p] = "lock_set"
    /\ owner[lock_fd[p]] # None \/ Faults
    /\ lock_name' = [lock_name EXCEPT ![MySlot(p)] = None]
    /\ lock_fd' = [lock_fd EXCEPT ![p] = None]
    /\ Goto(p, NoLock(p))
    /\ UNCHANGED <<cache_name, file, owner, now, key, cache_fd, cache_st, match,
                   stdout, page, written, response, mishaps>>

LockBusy(p) ==
    /\ pc[p] = "lock_set"
    /\ owner[lock_fd[p]] # None \/ Faults
    /\ lock_fd' = [lock_fd EXCEPT ![p] = None]
    /\ Goto(p, NoLock(p))
    /\ UNCHANGED <<fs, key, cache_fd, cache_st, match, stdout, page, written,
                   response, mishaps>>

\* cache_lock_slot: write the key at the start of the lock file
LockKey(p) ==
    /\ pc[p] = "lock_key"
    /\ file' = [file EXCEPT ![lock_fd[p]] = WriteKey(@, key[p])]
    /\ Goto(p, IF match[p] THEN "check" ELSE "redirect")
    /\ UNCHANGED <<cache_name, lock_name, owner, now, local, response, mishaps>>

\* ... which may fail: the descriptor stays open, and the lock stays with it
LockKeyFails(p) ==
    /\ Faults
    /\ pc[p] = "lock_key"
    /\ Goto(p, NoLock(p))
    /\ UNCHANGED <<fs, local, response, mishaps>>

\* Mutant of CheckModified: the published slot is not looked at again
CheckNothing(p) ==
    /\ pc[p] = "check"
    /\ Goto(p, "redirect")
    /\ UNCHANGED <<fs, local, response, mishaps>>

\* cache_is_modified
CheckModified(p) ==
    /\ pc[p] = "check"
    /\ \/ /\ cache_name[MySlot(p)] # None
          /\ StatOf(cache_name[MySlot(p)]) = cache_st[p]
          /\ Goto(p, "redirect")
       \/ /\ \/ cache_name[MySlot(p)] = None
             \/ StatOf(cache_name[MySlot(p)]) # cache_st[p]
             \/ Faults
          /\ Goto(p, "prune")
    /\ UNCHANGED <<fs, local, response, mishaps>>

\* cache_fill_slot: stdout becomes the lock file, and fn() begins a page
Redirect(p) ==
    /\ pc[p] = "redirect"
    /\ \E n \in Pos : page' = [page EXCEPT ![p] = n]
    /\ written' = [written EXCEPT ![p] = 0]
    /\ stdout' = [stdout EXCEPT ![p] = "lock"]
    /\ Goto(p, "fill")
    /\ UNCHANGED <<fs, key, cache_fd, lock_fd, cache_st, match, response, mishaps>>

RedirectFails(p) ==
    /\ Faults
    /\ pc[p] = "redirect"
    /\ Goto(p, "prune")
    /\ UNCHANGED <<fs, local, response, mishaps>>

\* What fn() writes
MyChunk(p) == [by |-> p, key |-> key[p], of |-> page[p]]

\* Mutant of Fill: a chunk too many
FillTooFar(p) ==
    /\ pc[p] = "fill"
    /\ written[p] <= page[p]
    /\ written' = [written EXCEPT ![p] = @ + 1]
    /\ file' = [file EXCEPT ![lock_fd[p]] = Overwrite(@, written[p] + 1, MyChunk(p))]
    /\ UNCHANGED <<cache_name, lock_name, owner, now, pc, key, cache_fd, lock_fd,
                   cache_st, match, stdout, page, response, mishaps>>

\* fn() writes the next chunk over whatever the lock file holds there
Fill(p) ==
    /\ pc[p] = "fill"
    /\ written[p] < page[p]
    /\ written' = [written EXCEPT ![p] = @ + 1]
    /\ file' = [file EXCEPT ![lock_fd[p]] = Overwrite(@, written[p] + 1, MyChunk(p))]
    /\ UNCHANGED <<cache_name, lock_name, owner, now, pc, key, cache_fd, lock_fd,
                   cache_st, match, stdout, page, response, mishaps>>

\* open_exec_filter: dup2 of the pipe over stdout closes a descriptor of the
\* lock file, and with it goes the lock
FillOpensFilter(p) ==
    /\ pc[p] = "fill"
    /\ key[p] \in FilterKey
    /\ owner[lock_fd[p]] = p
    /\ Release(p, lock_fd[p])
    /\ mishaps' = mishaps \cup {"dropped"}
    /\ UNCHANGED <<cache_name, lock_name, file, now, pc, local, response>>

\* Mutants of FillDone: no fflush; no fstat; stdout restored before the rename
FillDoneUnflushed(p) ==
    /\ pc[p] = "fill"
    /\ cache_st' = [cache_st EXCEPT ![p] = StatOf(lock_fd[p])]
    /\ Goto(p, "publish")
    /\ UNCHANGED <<fs, key, cache_fd, lock_fd, match, stdout, page, written,
                   response, mishaps>>

FillDoneNoStat(p) ==
    /\ pc[p] = "fill"
    /\ written[p] = page[p]
    /\ Goto(p, "publish")
    /\ UNCHANGED <<fs, local, response, mishaps>>

FillDoneUnlocks(p) ==
    /\ pc[p] = "fill"
    /\ written[p] = page[p]
    /\ cache_st' = [cache_st EXCEPT ![p] = StatOf(lock_fd[p])]
    /\ Release(p, lock_fd[p])
    /\ Goto(p, "publish")
    /\ UNCHANGED <<cache_name, lock_name, file, now, key, cache_fd, lock_fd, match,
                   stdout, page, written, response, mishaps>>

\* fn() has returned: fflush, and fstat into cache_st
FillDone(p) ==
    /\ pc[p] = "fill"
    /\ written[p] = page[p]
    /\ cache_st' = [cache_st EXCEPT ![p] = StatOf(lock_fd[p])]
    /\ Goto(p, "publish")
    /\ UNCHANGED <<fs, key, cache_fd, lock_fd, match, stdout, page, written,
                   response, mishaps>>

\* ... one of which fails
FillFails(p) ==
    /\ Faults
    /\ pc[p] = "fill"
    /\ written[p] = page[p]
    /\ Goto(p, "prune")
    /\ UNCHANGED <<fs, local, response, mishaps>>

\* cache_unlock_slot(slot, 1): the rename, whose failure nobody looks at.  The
\* page is served from the lock file from now on; the old slot is closed.
Publish(p) ==
    /\ pc[p] = "publish"
    /\ \/ /\ lock_name[MySlot(p)] # None
          /\ cache_name' = [cache_name EXCEPT ![MySlot(p)] = lock_name[MySlot(p)]]
          /\ lock_name' = [lock_name EXCEPT ![MySlot(p)] = None]
          /\ UNCHANGED mishaps
       \/ /\ lock_name[MySlot(p)] = None
          /\ UNCHANGED <<cache_name, lock_name, mishaps>>
       \/ /\ Faults /\ lock_name[MySlot(p)] # None
          /\ mishaps' = mishaps \cup {"stranded"}
          /\ UNCHANGED <<cache_name, lock_name>>
    /\ cache_fd' = [cache_fd EXCEPT ![p] = lock_fd[p]]
    /\ Goto(p, "restore_new")
    /\ UNCHANGED <<file, owner, now, key, lock_fd, cache_st, match, stdout, page,
                   written, response>>

\* Mutant of RestoreNew: a failed rename returns before stdout is restored
RestoreNewUnlessError(p) ==
    /\ pc[p] = "restore_new"
    /\ stdout' = IF lock_name[MySlot(p)] = lock_fd[p]
                 THEN stdout ELSE [stdout EXCEPT ![p] = "client"]
    /\ Release(p, lock_fd[p])
    /\ Goto(p, "print")
    /\ UNCHANGED <<cache_name, lock_name, file, now, key, cache_fd, lock_fd,
                   cache_st, match, page, written, response, mishaps>>

\* cache_unlock_slot: dup2 of the saved descriptor over stdout closes a
\* descriptor of the lock file, and with it goes the lock.  The code does not look
\* at the result of this dup2; between two open descriptors it is taken to succeed,
\* here and in RestoreOld.
RestoreNew(p) ==
    /\ pc[p] = "restore_new"
    /\ stdout' = [stdout EXCEPT ![p] = "client"]
    /\ Release(p, lock_fd[p])
    /\ Goto(p, "print")
    /\ UNCHANGED <<cache_name, lock_name, file, now, key, cache_fd, lock_fd,
                   cache_st, match, page, written, response, mishaps>>

\* cache_unlock_slot(slot, 0): unlink lock_name
Prune(p) ==
    /\ pc[p] = "prune"
    /\ \/ lock_name' = [lock_name EXCEPT ![MySlot(p)] = None]
       \/ Faults /\ UNCHANGED lock_name
    /\ Goto(p, "restore_old")
    /\ UNCHANGED <<cache_name, file, owner, now, local, response, mishaps>>

\* Mutant of RestoreOld: the lock file is not closed
RestoreOldKeepsLock(p) ==
    /\ pc[p] = "restore_old"
    /\ stdout' = [stdout EXCEPT ![p] = "client"]
    /\ Goto(p, NoLock(p))
    /\ UNCHANGED <<fs, key, cache_fd, lock_fd, cache_st, match, page, written,
                   response, mishaps>>

\* cache_unlock_slot restores stdout if it was redirected (by a dup2 that succeeds, as
\* in RestoreNew); cache_close_lock
RestoreOld(p) ==
    /\ pc[p] = "restore_old"
    /\ stdout' = [stdout EXCEPT ![p] = "client"]
    /\ Release(p, lock_fd[p])
    /\ lock_fd' = [lock_fd EXCEPT ![p] = None]
    /\ Goto(p, NoLock(p))
    /\ UNCHANGED <<cache_name, lock_name, file, now, key, cache_fd, cache_st, match,
                   page, written, response, mishaps>>

\* The process ends: its descriptors are closed and its locks released
Exit(p, l) ==
    /\ Goto(p, l)
    /\ cache_fd' = [cache_fd EXCEPT ![p] = None]
    /\ lock_fd' = [lock_fd EXCEPT ![p] = None]
    /\ cache_st' = [cache_st EXCEPT ![p] = NoStat]
    /\ match' = [match EXCEPT ![p] = FALSE]
    /\ stdout' = [stdout EXCEPT ![p] = "client"]
    /\ page' = [page EXCEPT ![p] = 0]
    /\ written' = [written EXCEPT ![p] = 0]
    /\ ReleaseAll(p)
    /\ UNCHANGED <<cache_name, lock_name, file, now, key, mishaps>>

\* cache_print_slot: sendfile stops at the size in cache_st; read, which is also
\* the fallback when the key already ends beyond that size, at the end of the file
SendEnd(p) ==
    IF Sendfile /\ cache_st[p].size >= 1
    THEN cache_st[p].size - 1
    ELSE file[cache_fd[p]].len

Send(p) ==
    /\ pc[p] = "print"
    /\ sent[p] < SendEnd(p)
    /\ sent[p] < file[cache_fd[p]].len
    /\ sent' = [sent EXCEPT ![p] = @ + 1]
    /\ out' = [out EXCEPT ![p][sent[p] + 1] = file[cache_fd[p]].body[sent[p] + 1]]
    /\ UNCHANGED <<fs, pc, local, mishaps>>

SendDone(p) ==
    /\ pc[p] = "print"
    /\ sent[p] = SendEnd(p)
    /\ Exit(p, "done")
    /\ UNCHANGED response

\* process_slot returns the error, and of the page no more is sent (cmd_main adds a
\* message to what has been sent)
SendFails(p) ==
    /\ Faults
    /\ pc[p] = "print"
    /\ Exit(p, "failed")
    /\ UNCHANGED response

\* fn() with stdout at the client
Direct(p) ==
    /\ pc[p] = "direct"
    /\ \E n \in Pos :
          /\ out' = [out EXCEPT ![p] = PageOf(p, key[p], n)]
          /\ sent' = [sent EXCEPT ![p] = n]
    /\ Exit(p, "done")

\* die(), a signal, or the web server's timeout: what is in the file system stays
Crash(p) ==
    /\ Crashes
    /\ pc[p] \notin {"idle", "done", "failed", "crashed"}
    /\ Exit(p, "crashed")
    /\ UNCHANGED response

Step(p) ==
    \/ Request(p) \/ Open(p) \/ Fstat(p) \/ ReadHit(p) \/ ReadMiss(p)
    \/ LockOpen(p) \/ LockSet(p) \/ LockBusy(p) \/ LockKey(p) \/ CheckModified(p)
    \/ Redirect(p) \/ Fill(p) \/ FillOpensFilter(p) \/ FillDone(p)
    \/ Publish(p) \/ RestoreNew(p) \/ Prune(p) \/ RestoreOld(p)
    \/ Send(p) \/ SendDone(p) \/ Direct(p)

Fail(p) ==
    \/ OpenFails(p) \/ LockKeyFails(p) \/ RedirectFails(p) \/ FillFails(p)
    \/ SendFails(p) \/ Crash(p)

Next == Tick \/ \E p \in Proc : Step(p) \/ Fail(p)

Spec == Init /\ [][Next]_vars

\* The operating system runs every process; nothing makes one fail.
FairSpec == Spec /\ \A p \in Proc : WF_vars(Step(p))

-----------------------------------------------------------------------------
(* Properties *)

TypeOK ==
    /\ cache_name \in [Slot -> Inode \cup {None}]
    /\ lock_name \in [Slot -> Inode \cup {None}]
    /\ file \in [Inode -> File]
    /\ owner \in [Inode -> Proc \cup {None}]
    /\ now \in 0 .. MaxNow
    /\ pc \in [Proc -> {"idle", "open", "fstat", "read", "lock_open", "lock_set",
                       "lock_key", "check", "redirect", "fill", "publish",
                       "restore_new", "prune", "restore_old", "print", "direct",
                       "done", "failed", "crashed"}]
    /\ key \in [Proc -> Key]
    /\ cache_fd \in [Proc -> Inode \cup {None}]
    /\ lock_fd \in [Proc -> Inode \cup {None}]
    /\ cache_st \in [Proc -> Stat]
    /\ match \in [Proc -> BOOLEAN]
    /\ stdout \in [Proc -> {"client", "lock"}]
    /\ page \in [Proc -> 0 .. MaxLen]
    /\ written \in [Proc -> 0 .. MaxLen]
    /\ out \in [Proc -> Cells]
    /\ sent \in [Proc -> 0 .. MaxLen]
    /\ mishaps \subseteq {"late", "dropped", "stranded"}

\* Between the lock and its release
Locked == {"lock_key", "check", "redirect", "fill", "publish", "restore_new",
           "prune", "restore_old"}

\* The lock file has always been its owner's alone.  The violation runs show what
\* happens otherwise.
Clean == mishaps = {}

\* Two processes between cache_lock_slot and cache_unlock_slot never hold the
\* same inode, whether or not it is still linked at lock_name.
WriterExclusion ==
    "dropped" \notin mishaps =>
        \A p, q \in Proc :
            p # q /\ pc[p] \in Locked /\ pc[q] \in Locked => lock_fd[p] # lock_fd[q]

\* What is at cache_name begins with a whole page, generated for a key of that
\* slot: a crash, a failed call or a lost race never publishes half a page.
SlotHoldsPage ==
    Clean =>
        \A s \in Slot :
            cache_name[s] # None =>
                LET f == file[cache_name[s]] IN
                /\ f.key # None /\ SlotOf[f.key] = s
                /\ StartsWithPage(f.body, f.len, f.key)

\* A request that is answered is answered with a page for its own key, from one
\* generation, although two keys share the slot.
ServesOwnPage ==
    Clean =>
        \A p \in Proc : pc[p] = "done" => StartsWithPage(out[p], sent[p], key[p])

\* ... and as long as nothing crashes or fails, with nothing but that page: no
\* page is left with the tail of a longer one.
ServesWholePage ==
    Clean /\ ~Crashes /\ ~Faults =>
        \A p \in Proc : pc[p] = "done" => IsPage(out[p], sent[p], key[p])

\* A file at cache_name is never written to: readers stream from it unlocked.
PublishedImmutable ==
    [][Clean' => \A s \in Slot :
          cache_name[s] # None => file'[cache_name[s]] = file[cache_name[s]]]_vars

\* What a rename puts at cache_name is the file the renaming process filled; a
\* refresh replaces the expired page it opened and nothing newer.
PublishesOwnFile ==
    [][Clean' => \A s \in Slot :
          cache_name'[s] # cache_name[s] =>
              \E p \in Proc :
                  /\ pc[p] = "publish"
                  /\ cache_name'[s] = lock_fd[p]
                  /\ match[p] => cache_name[s] = cache_fd[p]]_vars

\* The lock file a process removes is its own, not one that another process
\* has created under the same name in the meantime.
RemovesOwnLock ==
    [][Clean' => \A s \in Slot :
          lock_name[s] # None /\ lock_name'[s] # lock_name[s] =>
              \E p \in Proc :
                  pc[p] \in {"publish", "prune"} /\ lock_name[s] = lock_fd[p]]_vars

\* On every path to a response, those of failed calls included, stdout is the
\* client's again: a response never ends up in a lock file.
StdoutRestored ==
    \A p \in Proc : pc[p] \in {"print", "direct", "done"} => stdout[p] = "client"

\* The lock is given up before the response is sent, so that a slow client or a
\* dead process keeps nobody from refreshing the slot.
LockNotHeldWhileSending ==
    ~Faults =>
        \A i \in Inode :
            owner[i] # None => lock_fd[owner[i]] = i /\ pc[owner[i]] \in Locked

\* Every request is answered or dies: nothing in the cache waits for another
\* process, and the sendfile loop comes to the size it compares with.
Termination ==
    \A p \in Proc : pc[p] = "open" ~> pc[p] \in {"done", "failed", "crashed"}

-----------------------------------------------------------------------------
(* What the comments in the source promise and the code does not keep *)

\* cache-processing.c:103: printing the content of the lock file avoids the race
\* with a concurrent writer for the same slot with a different key.
PrintsOwnLockFile ==
    Crashes \/ Faults \/
        \A p \in Proc : pc[p] = "done" => StartsWithPage(out[p], sent[p], key[p])

\* cache.c:11: each file contains the full key followed by the cached content
\* for that key - and nothing after it, also when an earlier writer has died.
SlotHoldsOnePage ==
    Clean =>
        \A s \in Slot :
            cache_name[s] # None =>
                LET f == file[cache_name[s]] IN IsPage(f.body, f.len, f.key)

\* cache-processing.c:101: it is a valid cache slot in the lock file that is about
\* to replace the old slot - also when generating it ran a filter.
ValidSlotInLockFile ==
    mishaps \subseteq {"dropped"} =>
        \A p \in Proc :
            pc[p] = "publish" =>
                LET f == file[lock_fd[p]] IN
                /\ f.key = key[p]
                /\ StartsWithPage(f.body, f.len, key[p])
=============================================================================
