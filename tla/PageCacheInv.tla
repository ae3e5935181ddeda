---------------------------- MODULE PageCacheInv ----------------------------
(***************************************************************************)
(* The inductive invariant behind the safety properties of PageCache.  The *)
(* properties alone are not inductive: that a reader gets a whole page     *)
(* depends on who may write to an inode, which depends on who holds its    *)
(* lock and under which names it is linked.                                *)
(***************************************************************************)
EXTENDS PageCache

\* A descriptor that the code is about to use is open, and match is set only
\* once the header has been read.
FdOK ==
    \A p \in Proc :
        /\ pc[p] \in {"fstat", "read", "restore_new", "print"} => cache_fd[p] \in Inode
        /\ pc[p] \in Locked \cup {"lock_set"} => lock_fd[p] \in Inode
        /\ match[p] /\ pc[p] \in Locked \cup {"lock_open", "lock_set"} =>
              cache_fd[p] \in Inode
        /\ match[p] => pc[p] \in Locked \cup {"lock_open", "lock_set", "print"}

\* Who is between the lock and its release holds the lock
OwnerOK ==
    "dropped" \notin mishaps =>
        \A p \in Proc : pc[p] \in Locked => owner[lock_fd[p]] = p

\* An inode has one name at most
NamesOK ==
    \A s, t \in Slot :
        /\ lock_name[s] # None => lock_name[s] # cache_name[t]
        /\ lock_name[s] # None /\ lock_name[s] = lock_name[t] => s = t
        /\ cache_name[s] # None /\ cache_name[s] = cache_name[t] => s = t

\* The steps at which the lock file has neither been renamed nor unlinked
Unpublished == Locked \ {"restore_new", "restore_old"}

LockLinked ==
    \A p \in Proc : pc[p] \in Unpublished => lock_name[MySlot(p)] = lock_fd[p]

\* A file that has been published is never a lock file again
ReadNotLocked ==
    \A p \in Proc, s \in Slot : cache_fd[p] # None => lock_name[s] # cache_fd[p]

PageFile(i) ==
    /\ file[i].key \in Key
    /\ StartsWithPage(file[i].body, file[i].len, file[i].key)

SlotPages ==
    \A s \in Slot :
        cache_name[s] # None =>
            PageFile(cache_name[s]) /\ SlotOf[file[cache_name[s]].key] = s

ReaderPages == \A p \in Proc : cache_fd[p] # None => PageFile(cache_fd[p])

\* What process_slot will send is the page it compared the key of, or its own
Sending(p) ==
    \/ pc[p] \in {"restore_new", "print"}
    \/ match[p] /\ pc[p] \in (Locked \ {"publish"}) \cup {"lock_open", "lock_set"}

ReaderStat ==
    \A p \in Proc :
        /\ pc[p] = "read" => cache_st[p].size = Size(file[cache_fd[p]])
        /\ Sending(p) => /\ file[cache_fd[p]].key = key[p]
                         /\ cache_st[p].size = Size(file[cache_fd[p]])

WriterPage(p) ==
    /\ pc[p] \in Locked \ {"lock_key"} => file[lock_fd[p]].key = key[p]
    /\ pc[p] \in {"fill", "publish"} =>
          /\ page[p] \in Pos
          /\ written[p] <= page[p]
          /\ written[p] <= file[lock_fd[p]].len
          /\ \A j \in 1 .. written[p] : file[lock_fd[p]].body[j] = MyChunk(p)
    /\ pc[p] = "publish" =>
          /\ written[p] = page[p]
          /\ cache_st[p].size = Size(file[lock_fd[p]])

\* The lock file holds what its owner has written so far
WriterPages == \A p \in Proc : WriterPage(p)

SentOK ==
    \A p \in Proc :
        /\ pc[p] \notin {"print", "done", "failed", "crashed"} => sent[p] = 0
        /\ pc[p] = "print" =>
              /\ sent[p] <= file[cache_fd[p]].len
              /\ \A j \in 1 .. sent[p] : out[p][j] = file[cache_fd[p]].body[j]
        /\ pc[p] = "done" => StartsWithPage(out[p], sent[p], key[p])

\* Once cache_is_modified has said no, the slot stays as it was opened
RefreshOK ==
    \A p \in Proc :
        /\ pc[p] = "read" => cache_st[p].ino = cache_fd[p]
        /\ match[p] /\ pc[p] \in {"lock_open", "lock_set", "lock_key", "check"} =>
              cache_st[p].ino = cache_fd[p]
        /\ match[p] /\ pc[p] \in {"redirect", "fill", "publish"} =>
              cache_name[MySlot(p)] = cache_fd[p]

CleanInv ==
    /\ LockLinked
    /\ ReadNotLocked
    /\ SlotPages
    /\ ReaderPages
    /\ ReaderStat
    /\ WriterPages
    /\ RefreshOK
    /\ SentOK

\* Nobody holds a lock, or has its stdout redirected, outside the steps for it
SendOK ==
    /\ ~Faults =>
          \A i \in Inode :
              owner[i] # None => lock_fd[owner[i]] = i /\ pc[owner[i]] \in Locked
    /\ \A p \in Proc :
          stdout[p] = "lock" =>
              pc[p] \in {"fill", "publish", "restore_new", "prune", "restore_old"}

\* All of it: what the properties rest on and what keeps it true.  From here
\* no crash, no failed call and no other process leads to half a page.
IInv ==
    /\ TypeOK
    /\ FdOK
    /\ OwnerOK
    /\ NamesOK
    /\ SendOK
    /\ Clean => CleanInv

\* The published file is open only from the open until the keys are compared, after
\* a match, and while a page is sent.
ReadsClosed ==
    \A p \in Proc :
        ~match[p] /\ pc[p] \notin {"fstat", "read", "restore_new", "print"} =>
            cache_fd[p] = None
-----------------------------------------------------------------------------
(* When no process dies and no system call fails, a lock file without an owner is *)
(* one that nobody has written to yet                                             *)

EmptyLocks ==
    \A s \in Slot :
        lock_name[s] # None /\ owner[lock_name[s]] = None =>
            file[lock_name[s]].len = 0

\* After the rename or the unlink the file has no lock name any more
Unlinked ==
    \A p \in Proc, s \in Slot :
        pc[p] \in {"restore_new", "restore_old"} => lock_name[s] # lock_fd[p]

\* A lock file holds what its owner has written and nothing of a page before
WholeWrites ==
    \A p \in Proc :
        /\ pc[p] \in {"lock_key", "check", "redirect"} => file[lock_fd[p]].len = 0
        /\ pc[p] \in {"fill", "publish"} => file[lock_fd[p]].len = written[p]

\* The length of a file is that of the page it begins with
WholeFile(i) == file[i].body[1].of = file[i].len

WholeSlots == \A s \in Slot : cache_name[s] # None => WholeFile(cache_name[s])
WholeReads == \A p \in Proc : cache_fd[p] # None => WholeFile(cache_fd[p])
WholeAnswers == \A p \in Proc : pc[p] = "done" => out[p][1].of = sent[p]

WholeInv ==
    Clean /\ ~Crashes /\ ~Faults =>
        /\ EmptyLocks
        /\ Unlinked
        /\ WholeWrites
        /\ WholeSlots
        /\ WholeReads
        /\ WholeAnswers
=============================================================================
