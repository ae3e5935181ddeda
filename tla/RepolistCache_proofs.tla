------------------------- MODULE RepolistCache_proofs -------------------------
(***************************************************************************)
(* Proofs about the cached repository list, for every number of requests,  *)
(* children, files and repositories.  First, at most one process generates *)
(* it, although processes may die at any point and leave the lock file     *)
(* behind; then what the files hold, which rests on that.                  *)
(***************************************************************************)
EXTENDS RepolistCache, TLAPS

\* The part of the type invariant that the argument uses
NamesType ==
    /\ rc \in Inode \cup {None}
    /\ lock \in Inode \cup {None}
    /\ pc \in [Proc -> {"idle", "stat", "parse", "read", "age", "lock", "scan",
                       "print", "close"}]
    /\ fd \in [Proc -> Inode \cup {None}]

\* A generator works on the file that has the lock file's name, so Lock, which
\* requires that there is none, cannot be taken while somebody generates.
Inv ==
    /\ NamesType
    /\ \A p \in Proc : Generating(p) => fd[p] # None
    /\ OneGenerator

\* Nobody generates in an initial state.
LEMMA InvInit == Init => Inv
  BY DEF Init, Inv, NamesType, OneGenerator, Generating

\* A step that makes nobody generate and leaves the files of those who do alone
\* preserves the invariant: the names are the only thing left to disturb.
LEMMA InvFrame ==
    ASSUME Inv, NamesType', lock' = lock,
           \A p \in Proc : Generating(p)' => Generating(p) /\ fd'[p] = fd[p]
    PROVE  Inv'
  BY DEF Inv, OneGenerator

\* Every step preserves the invariant; Lock and Rename are the ones that change
\* the lock file's name.
LEMMA InvStep == Inv /\ [Next]_vars => Inv'
<1> SUFFICES ASSUME Inv, [Next]_vars PROVE Inv'
  OBVIOUS
<1> USE NoneAssumption DEF Proc
<1>1. ASSUME NEW p \in Proc, Leave(p), rc' = rc, lock' = lock
      PROVE  Inv'
  <2>1. NamesType'
    BY <1>1 DEF Leave, Goto, Inv, NamesType
  <2>2. \A q \in Proc : Generating(q)' => Generating(q) /\ fd'[q] = fd[q]
    BY <1>1 DEF Leave, Goto, Inv, NamesType, Generating
  <2> QED BY <1>1, <2>1, <2>2, InvFrame
<1>2. ASSUME NEW f \in Inode, Age(f)
      PROVE  Inv'
  BY <1>2 DEF Age, Inv, NamesType, OneGenerator, Generating
<1>3. ASSUME NEW p \in Proc, Start(p) \/ Stat(p) \/ ParseOpen(p) \/ ParseEnd(p)
      PROVE  Inv'
  <2>1. NamesType' /\ lock' = lock
    BY <1>3 DEF Start, Stat, ParseOpen, ParseEnd, Goto, files, Inv, NamesType
  <2>2. \A q \in Proc : Generating(q)' => Generating(q) /\ fd'[q] = fd[q]
    BY <1>3 DEF Start, Stat, ParseOpen, ParseEnd, Goto, files, Inv, NamesType,
                Generating
  <2> QED BY <2>1, <2>2, InvFrame
<1>4. ASSUME NEW p \in Proc,
             \/ StillGood(p) \/ ForkFails(p) \/ LockExists(p) \/ Close(p)
             \/ Crash(p)
      PROVE  Inv'
  <2>1. Leave(p) /\ rc' = rc /\ lock' = lock
    BY <1>4 DEF StillGood, ForkFails, LockExists, Close, Crash
  <2> QED BY <1>1, <2>1
<1>5. ASSUME NEW p \in Proc, Fork(p)
      PROVE  Inv'
  <2>1. NamesType' /\ lock' = lock
    BY <1>5 DEF Fork, Inv, NamesType
  <2>2. \A q \in Proc : Generating(q)' => Generating(q) /\ fd'[q] = fd[q]
    BY <1>5 DEF Fork, Inv, NamesType, Generating
  <2> QED BY <2>1, <2>2, InvFrame
<1>6. ASSUME NEW p \in Proc, Lock(p)
      PROVE  Inv'
  <2>1. PICK f \in Inode : lock' = f /\ fd' = [fd EXCEPT ![p] = f]
    BY <1>6 DEF Lock
  <2>2. \A q \in Proc : ~Generating(q)
    BY <1>6 DEF Lock, Inv, OneGenerator
  <2>3. \A q \in Proc : Generating(q)' => q = p
    BY <1>6, <2>2 DEF Lock, Goto, Inv, NamesType, Generating
  <2>4. NamesType'
    BY <1>6, <2>1 DEF Lock, Goto, Inv, NamesType
  <2>5. fd'[p] = lock' /\ lock' # None
    BY <2>1 DEF Inv, NamesType
  <2> QED BY <2>3, <2>4, <2>5 DEF Inv, OneGenerator
<1>7. ASSUME NEW p \in Proc, Scan(p) \/ Flush(p)
      PROVE  Inv'
  <2>1. NamesType' /\ lock' = lock
    BY <1>7 DEF Scan, Flush, Goto, Inv, NamesType
  <2>2. \A q \in Proc : Generating(q)' => Generating(q) /\ fd'[q] = fd[q]
    BY <1>7 DEF Scan, Flush, Goto, Inv, NamesType, Generating
  <2> QED BY <2>1, <2>2, InvFrame
<1>8. ASSUME NEW p \in Proc, Rename(p)
      PROVE  Inv'
  <2>1. NamesType'
    BY <1>8 DEF Rename, Goto, Inv, NamesType
  <2>2. \A q \in Proc : ~Generating(q)'
    BY <1>8 DEF Rename, Goto, Inv, NamesType, OneGenerator, Generating
  <2> QED BY <2>1, <2>2 DEF Inv, OneGenerator
<1>9. ASSUME NEW p \in Proc, RenameFails(p)
      PROVE  Inv'
  <2>1. NamesType' /\ lock' = lock
    BY <1>9 DEF RenameFails, Goto, files, Inv, NamesType
  <2>2. \A q \in Proc : Generating(q)' => Generating(q) /\ fd'[q] = fd[q]
    BY <1>9 DEF RenameFails, Goto, files, Inv, NamesType, Generating
  <2> QED BY <2>1, <2>2, InvFrame
<1>10. CASE UNCHANGED vars
  BY <1>10 DEF vars, Inv, NamesType, OneGenerator, Generating
<1> QED
  BY <1>2, <1>3, <1>4, <1>5, <1>6, <1>7, <1>8, <1>9, <1>10 DEF Next, Step

\* Whatever processes die, no two processes generate the list at a time, and the
\* file a generator will rename is the one it writes (cgit-repolist.c:141-158).
THEOREM OneGeneratorAlways == Spec => []OneGenerator
<1>1. Inv => OneGenerator
  BY DEF Inv
<1> QED
  BY InvInit, InvStep, <1>1, PTL DEF Spec
-----------------------------------------------------------------------------
(* What the files hold *)

File == [scan : SUBSET Repo, data : SUBSET Repo, old : BOOLEAN]

\* A process has the files open that it is about to use, and no others: there is
\* something at cached_rc from the first rename on.
FilesOpen ==
    \A p \in Proc :
        /\ pc[p] = "parse" => rc # None
        /\ pc[p] \in {"parse", "read", "age"} => st[p] # None
        /\ pc[p] \in {"idle", "stat"} => st[p] = None
        /\ pc[p] \in {"read", "age", "scan", "print", "close"} <=> fd[p] # None

\* The lock file is neither at cached_rc nor open for reading
LockUnread ==
    /\ lock # None => lock # rc
    /\ \A p \in Proc : pc[p] \in {"read", "age"} => fd[p] # lock

\* A file nobody uses is gone, so a new lock file is empty until the scan is done.
FreshEmpty ==
    /\ \A f \in Inode : f \notin Used => file[f] = EmptyFile
    /\ \A p \in Proc : pc[p] = "scan" => file[fd[p]].scan = {}

\* What holds of the files, apart from who generates the list
FilesHold ==
    /\ TypeOK
    /\ FilesOpen
    /\ LockUnread
    /\ FreshEmpty
    /\ ListFromOneScan
    /\ IncompleteOnlyUntilClose
    /\ LockMeansConcurrent

FilesInv == Inv /\ FilesHold

\* Release leaves a file that is in use as g has it, and empties the others.
LEMMA ReleaseKeeps ==
    ASSUME NEW g, Release(g)
    PROVE  /\ file' = [f \in Inode |-> file'[f]]
           /\ \A f \in Inode : file'[f] = g[f] \/ file'[f] = EmptyFile
           /\ \A f \in Inode : f \in Used' => file'[f] = g[f]
BY DEF Release

\* The files keep their type and their data come from their scan.
LEMMA ReleaseType ==
    ASSUME NEW g \in [Inode -> File], \A f \in Inode : g[f].data \subseteq g[f].scan,
           Release(g)
    PROVE  file' \in [Inode -> File] /\ \A f \in Inode : file'[f].data \subseteq file'[f].scan
<1>1. EmptyFile \in File /\ EmptyFile.data \subseteq EmptyFile.scan
  BY DEF EmptyFile, File
<1>2. /\ file' = [f \in Inode |-> file'[f]]
      /\ \A f \in Inode : file'[f] = g[f] \/ file'[f] = EmptyFile
  BY ReleaseKeeps
<1> QED BY <1>1, <1>2

LEMMA FilesInit == Init => FilesInv
<1> SUFFICES ASSUME Init PROVE FilesInv
  OBVIOUS
<1>1. Inv
  BY InvInit
<1>2. TypeOK
  BY DEF Init, TypeOK, EmptyFile
<1> QED
  BY <1>1, <1>2 DEF Init, FilesInv, FilesHold, FilesOpen, LockUnread, FreshEmpty,
     ListFromOneScan, IncompleteOnlyUntilClose, LockMeansConcurrent

\* A process that leaves takes no file with it that another one uses.
LEMMA LeaveStep ==
    ASSUME FilesInv, NEW p \in Proc, Leave(p), rc' = rc, lock' = lock, Release(file),
           ~Crashes => pc[p] \in {"stat", "parse", "read", "age", "lock"}
    PROVE  FilesHold'
<1> USE DEF FilesInv, FilesHold, TypeOK, Leave, Goto
<1>1. TypeOK'
  BY ReleaseType DEF File
<1>2. FilesOpen' /\ LockUnread'
  BY DEF FilesOpen, LockUnread
<1>3. \A f \in Inode : f \in Used' => file'[f] = file[f]
  BY ReleaseKeeps
<1>4. FreshEmpty'
  <2>1. \A f \in Inode : f \notin Used' => file'[f] = EmptyFile
    BY DEF Release
  <2>2. ASSUME NEW q \in Proc, pc'[q] = "scan"
        PROVE  file'[fd'[q]].scan = {}
    <3>1. q # p /\ fd'[q] = fd[q] /\ fd[q] \in Inode
      BY <2>2 DEF FilesOpen
    <3>2. file'[fd[q]] = file[fd[q]]
      BY <1>3, <3>1 DEF Used
    <3> QED BY <2>2, <3>1, <3>2 DEF FreshEmpty
  <2> QED BY <2>1, <2>2 DEF FreshEmpty
<1>5. ListFromOneScan'
  <2> SUFFICES ASSUME NEW q \in Proc, pc'[q] = "age"
               PROVE  list'[q] \subseteq file'[fd'[q]].scan
    BY DEF ListFromOneScan
  <2>1. q # p /\ fd'[q] = fd[q] /\ list'[q] = list[q] /\ fd[q] \in Inode
    BY NoneAssumption DEF FilesOpen
  <2>2. file'[fd[q]] = file[fd[q]]
    BY <1>3, <2>1 DEF Used
  <2> QED BY <2>1, <2>2 DEF ListFromOneScan
<1>6. IncompleteOnlyUntilClose'
  BY <1>3 DEF IncompleteOnlyUntilClose, Complete, Used
<1>7. LockMeansConcurrent'
  BY DEF LockMeansConcurrent, Generating
<1> QED BY <1>1, <1>2, <1>4, <1>5, <1>6, <1>7

\* A process that moves on without leaving, and changes neither a name nor a file.
LEMMA ReaderStep ==
    ASSUME FilesInv, NEW p \in Proc,
           Start(p) \/ Stat(p) \/ ParseOpen(p) \/ ParseEnd(p)
    PROVE  FilesHold'
<1> USE NoneAssumption
    DEF Start, Stat, ParseOpen, ParseEnd, Goto, files, FilesInv, FilesHold, TypeOK
<1>1. /\ rc' = rc /\ lock' = lock /\ file' = file
      /\ pc' = [pc EXCEPT ![p] = pc'[p]] /\ st' = [st EXCEPT ![p] = st'[p]]
      /\ fd' = [fd EXCEPT ![p] = fd'[p]] /\ list' = [list EXCEPT ![p] = list'[p]]
  OBVIOUS
<1>2. pc[p] \in {"idle", "stat", "parse", "read"}
      /\ pc'[p] \in {"stat", "parse", "read", "age", "lock"}
  OBVIOUS
<1>3. TypeOK'
  <2>1. pc' \in [Proc -> {"idle", "stat", "parse", "read", "age", "lock", "scan",
                          "print", "close"}]
    BY <1>1, <1>2
  <2>2. st' \in [Proc -> Inode \cup {None}] /\ fd' \in [Proc -> Inode \cup {None}]
    OBVIOUS
  <2>3. list' \in [Proc -> SUBSET Repo]
    <3>1. CASE ParseEnd(p)
      <4>1. file[fd[p]].data \in SUBSET Repo
        BY <3>1 DEF FilesOpen
      <4> QED BY <3>1, <4>1
    <3>2. CASE ~ParseEnd(p)
      BY <3>2
    <3> QED BY <3>1, <3>2
  <2> QED BY <1>1, <2>1, <2>2, <2>3
<1>4. FilesOpen'
  BY DEF FilesOpen
<1>5. LockUnread'
  BY DEF LockUnread, FilesOpen
<1>6. FreshEmpty'
  <2>1. \A f \in Inode : f \in Used => f \in Used'
    <3> SUFFICES ASSUME NEW f \in Inode, f \in Used PROVE f \in Used'
      OBVIOUS
    <3>1. CASE f \in {rc, lock}
      BY <1>1, <3>1 DEF Used
    <3>2. CASE \E q \in Proc : f = fd[q]
      <4>1. PICK q \in Proc : f = fd[q]
        BY <3>2
      <4>2. fd'[q] = fd[q]
        BY <4>1 DEF FilesOpen
      <4> QED BY <4>1, <4>2 DEF Used
    <3>3. CASE \E q \in Proc : f = st[q]
      <4>1. PICK q \in Proc : f = st[q]
        BY <3>3
      <4>2. st'[q] = st[q]
        BY <4>1 DEF FilesOpen
      <4> QED BY <4>1, <4>2 DEF Used
    <3> QED BY <3>1, <3>2, <3>3 DEF Used
  <2>2. \A q \in Proc : pc'[q] = "scan" => q # p /\ pc[q] = "scan" /\ fd'[q] = fd[q]
    BY <1>1, <1>2
  <2> QED BY <1>1, <2>1, <2>2 DEF FreshEmpty
<1>7. ListFromOneScan'
  <2> SUFFICES ASSUME NEW q \in Proc, pc'[q] = "age"
               PROVE  list'[q] \subseteq file'[fd'[q]].scan
    BY DEF ListFromOneScan
  <2>1. CASE q = p
    <3>1. ParseEnd(p)
      BY <2>1
    <3>2. fd[p] \in Inode
      BY <3>1 DEF FilesOpen
    <3> QED BY <2>1, <3>1, <3>2
  <2>2. CASE q # p
    BY <1>1, <2>2 DEF ListFromOneScan
  <2> QED BY <2>1, <2>2
<1>8. \A q \in Proc : pc[q] \in {"scan", "print", "close"} => pc'[q] = pc[q] /\ fd'[q] = fd[q]
  BY <1>1, <1>2
<1>9. IncompleteOnlyUntilClose'
  BY <1>1, <1>8 DEF IncompleteOnlyUntilClose, Complete
<1>10. LockMeansConcurrent'
  BY <1>1, <1>8 DEF LockMeansConcurrent, Generating
<1> QED BY <1>3, <1>4, <1>5, <1>6, <1>7, <1>9, <1>10

\* A child that a request forks finds nothing open.
LEMMA ForkStep ==
    ASSUME FilesInv, NEW p \in Proc, Fork(p)
    PROVE  FilesHold'
<1> USE NoneAssumption DEF FilesInv, FilesHold, TypeOK
<1>1. PICK c \in Child : pc[c] = "idle" /\ pc' = [pc EXCEPT ![p] = "idle", ![c] = "lock"]
  BY DEF Fork
<1>2. /\ c \in Proc /\ c # p /\ pc[p] = "age" /\ rc' = rc /\ lock' = lock /\ Release(file)
      /\ st' = [st EXCEPT ![p] = None] /\ fd' = [fd EXCEPT ![p] = None]
      /\ list' = [list EXCEPT ![p] = {}]
  BY <1>1 DEF Fork, Proc
<1>3. TypeOK'
  <2>1. /\ rc' \in Inode \cup {None} /\ lock' \in Inode \cup {None}
        /\ st' \in [Proc -> Inode \cup {None}] /\ fd' \in [Proc -> Inode \cup {None}]
        /\ list' \in [Proc -> SUBSET Repo]
    BY <1>2
  <2>2. pc' \in [Proc -> {"idle", "stat", "parse", "read", "age", "lock", "scan",
                          "print", "close"}]
    BY <1>1, <1>2
  <2> QED BY <1>2, <2>1, <2>2, ReleaseType DEF File
<1>4. FilesOpen' /\ LockUnread'
  BY <1>1, <1>2 DEF FilesOpen, LockUnread
<1>5. \A f \in Inode : f \in Used' => file'[f] = file[f]
  BY <1>2, ReleaseKeeps
<1>6. \A f \in Inode : f \notin Used' => file'[f] = EmptyFile
  BY <1>2 DEF Release
<1>7. \A q \in Proc : q # p /\ q # c =>
          /\ pc'[q] = pc[q] /\ fd'[q] = fd[q] /\ list'[q] = list[q]
          /\ fd[q] \in Inode => file'[fd[q]] = file[fd[q]]
  BY <1>1, <1>2, <1>5 DEF Used
<1>8. pc'[p] = "idle" /\ pc'[c] = "lock"
  BY <1>1, <1>2
<1>9. FreshEmpty'
  BY <1>6, <1>7, <1>8 DEF FreshEmpty, FilesOpen
<1>10. ListFromOneScan'
  BY <1>7, <1>8 DEF ListFromOneScan, FilesOpen
<1>11. IncompleteOnlyUntilClose'
  <2>1. rc \in Inode => file'[rc] = file[rc]
    BY <1>2, <1>5 DEF Used
  <2>2. \A q \in Proc : pc[q] = "close" => q # p /\ q # c
    BY <1>1, <1>2
  <2> QED BY <1>2, <1>7, <2>1, <2>2 DEF IncompleteOnlyUntilClose, Complete
<1>12. LockMeansConcurrent'
  <2>1. \A q \in Proc : Generating(q) => q # p /\ q # c
    BY <1>1, <1>2 DEF Generating
  <2> QED BY <1>2, <1>7, <2>1 DEF LockMeansConcurrent, Generating
<1> QED BY <1>3, <1>4, <1>9, <1>10, <1>11, <1>12

\* The process that holds the lock file writes to it, and nobody reads it.
LEMMA WriterStep ==
    ASSUME FilesInv, NEW p \in Proc, Scan(p) \/ Flush(p)
    PROVE  FilesHold'
<1> USE NoneAssumption DEF FilesInv, FilesHold, TypeOK
<1> DEFINE f == fd[p]
<1>1. f \in Inode /\ f = lock /\ Generating(p)
  BY DEF Scan, Flush, Inv, OneGenerator, FilesOpen, Generating
<1>2. /\ rc' = rc /\ lock' = lock /\ st' = st /\ fd' = fd /\ list' = list
      /\ pc' = [pc EXCEPT ![p] = "print"]
  BY DEF Scan, Flush, Goto
<1>3. /\ file' \in [Inode -> File] /\ \A g \in Inode : g # f => file'[g] = file[g]
      /\ file'[f].data \subseteq file'[f].scan
  <2>1. CASE Scan(p)
    <3>1. PICK repos \in SUBSET Repo : file' = [file EXCEPT ![f].scan = repos]
      BY <2>1 DEF Scan
    <3>2. file[f].scan = {} /\ file[f].data \subseteq file[f].scan
      BY <1>1, <2>1 DEF Scan, FreshEmpty
    <3> QED BY <1>1, <3>1, <3>2 DEF File
  <2>2. CASE Flush(p)
    <3>1. PICK r \in file[f].scan \ file[f].data :
              file' = [file EXCEPT ![f].data = @ \cup {r}]
      BY <2>2 DEF Flush
    <3> QED BY <1>1, <3>1 DEF File
  <2> QED BY <2>1, <2>2
<1>4. TypeOK'
  BY <1>2, <1>3 DEF File
<1>5. FilesOpen' /\ LockUnread'
  BY <1>1, <1>2 DEF FilesOpen, LockUnread, Generating
<1>6. Used' = Used
  BY <1>2 DEF Used
<1>7. f \in Used
  BY <1>1 DEF Used
<1>8. FreshEmpty'
  <2>1. \A q \in Proc : pc'[q] = "scan" => q # p /\ pc[q] = "scan"
    BY <1>2
  <2>2. \A q \in Proc : pc'[q] = "scan" => FALSE
    BY <1>1, <2>1 DEF Inv, OneGenerator, Generating
  <2> QED BY <1>3, <1>6, <1>7, <2>2 DEF FreshEmpty
<1>9. ListFromOneScan'
  <2> SUFFICES ASSUME NEW q \in Proc, pc'[q] = "age"
               PROVE  list'[q] \subseteq file'[fd'[q]].scan
    BY DEF ListFromOneScan
  <2>1. pc[q] = "age" /\ fd[q] # f /\ fd[q] \in Inode
    BY <1>1, <1>2 DEF LockUnread, FilesOpen
  <2> QED BY <1>2, <1>3, <2>1 DEF ListFromOneScan
<1>10. IncompleteOnlyUntilClose'
  <2>1. rc # f
    BY <1>1 DEF LockUnread
  <2>2. \A q \in Proc : pc[q] = "close" => pc'[q] = "close"
    BY <1>1, <1>2 DEF Generating
  <2> QED BY <1>2, <1>3, <2>1, <2>2 DEF IncompleteOnlyUntilClose, Complete
<1>11. LockMeansConcurrent'
  BY <1>1, <1>2 DEF LockMeansConcurrent, Generating
<1> QED BY <1>4, <1>5, <1>8, <1>9, <1>10, <1>11

\* The lock file becomes the list: until the process closes it, it may lack
\* repositories.
LEMMA RenameStep ==
    ASSUME FilesInv, NEW p \in Proc, Rename(p)
    PROVE  FilesHold'
<1> USE NoneAssumption DEF FilesInv, FilesHold, TypeOK
<1>1. /\ rc' = lock /\ lock' = None /\ st' = st /\ fd' = fd /\ list' = list
      /\ pc[p] = "print" /\ pc' = [pc EXCEPT ![p] = "close"] /\ Release(file)
  BY DEF Rename, Goto
<1>2. fd[p] \in Inode /\ fd[p] = lock
  BY <1>1 DEF Inv, OneGenerator, FilesOpen, Generating
<1>3. \A f \in Inode : f \in Used' => file'[f] = file[f]
  BY <1>1, ReleaseKeeps
<1>4. TypeOK'
  BY <1>1, ReleaseType DEF File
<1>5. FilesOpen' /\ LockUnread'
  BY <1>1, <1>2 DEF FilesOpen, LockUnread
<1>6. FreshEmpty'
  <2>1. \A f \in Inode : f \notin Used' => file'[f] = EmptyFile
    BY <1>1 DEF Release
  <2>2. \A q \in Proc : pc'[q] = "scan" => FALSE
    BY <1>1 DEF Inv, OneGenerator, Generating
  <2> QED BY <2>1, <2>2 DEF FreshEmpty
<1>7. ListFromOneScan'
  <2> SUFFICES ASSUME NEW q \in Proc, pc'[q] = "age"
               PROVE  list'[q] \subseteq file'[fd'[q]].scan
    BY DEF ListFromOneScan
  <2>1. pc[q] = "age" /\ fd'[q] = fd[q] /\ fd[q] \in Inode /\ fd[q] \in Used'
    BY <1>1 DEF FilesOpen, Used
  <2> QED BY <1>1, <1>3, <2>1 DEF ListFromOneScan
<1>8. IncompleteOnlyUntilClose'
  BY <1>1, <1>2 DEF IncompleteOnlyUntilClose
<1>9. LockMeansConcurrent'
  BY <1>1 DEF LockMeansConcurrent
<1> QED BY <1>4, <1>5, <1>6, <1>7, <1>8, <1>9

\* Closing the file writes the rest of it.
LEMMA CloseStep ==
    ASSUME FilesInv, NEW p \in Proc, Close(p)
    PROVE  FilesHold'
<1> USE NoneAssumption DEF FilesInv, FilesHold, TypeOK
<1> DEFINE g == [file EXCEPT ![fd[p]].data = file[fd[p]].scan]
<1>1. /\ rc' = rc /\ lock' = lock /\ pc[p] = "close" /\ Release(g)
      /\ pc' = [pc EXCEPT ![p] = "idle"] /\ st' = [st EXCEPT ![p] = None]
      /\ fd' = [fd EXCEPT ![p] = None] /\ list' = [list EXCEPT ![p] = {}]
  BY DEF Close, Leave, Goto
<1>2. fd[p] \in Inode
  BY <1>1 DEF FilesOpen
<1>3. /\ g \in [Inode -> File] /\ \A f \in Inode : g[f].scan = file[f].scan
      /\ \A f \in Inode : g[f].data \subseteq g[f].scan
      /\ \A f \in Inode : Complete(f) => g[f].data = g[f].scan
      /\ g[fd[p]].data = g[fd[p]].scan
  BY <1>2 DEF File, Complete
<1> HIDE DEF g
<1>4. \A f \in Inode : f \in Used' => file'[f] = g[f]
  BY <1>1, ReleaseKeeps
<1>5. TypeOK'
  BY <1>1, <1>3, ReleaseType DEF File
<1>6. FilesOpen' /\ LockUnread'
  BY <1>1 DEF FilesOpen, LockUnread
<1>7. \A q \in Proc : q # p =>
          /\ pc'[q] = pc[q] /\ fd'[q] = fd[q] /\ list'[q] = list[q]
          /\ fd[q] \in Inode => file'[fd[q]] = g[fd[q]]
  BY <1>1, <1>4 DEF Used
<1>8. pc'[p] = "idle"
  BY <1>1
<1>9. FreshEmpty'
  <2>1. \A f \in Inode : f \notin Used' => file'[f] = EmptyFile
    BY <1>1 DEF Release
  <2>2. \A q \in Proc : pc'[q] = "scan" => file'[fd'[q]].scan = {}
    BY <1>3, <1>7, <1>8 DEF FreshEmpty, FilesOpen
  <2> QED BY <2>1, <2>2 DEF FreshEmpty
<1>10. ListFromOneScan'
  BY <1>3, <1>7, <1>8 DEF ListFromOneScan, FilesOpen
<1>11. IncompleteOnlyUntilClose'
  <2>1. rc \in Inode => file'[rc] = g[rc]
    BY <1>1, <1>4 DEF Used
  <2> SUFFICES ASSUME ~Crashes, rc \in Inode, ~(file'[rc].data = file'[rc].scan)
               PROVE  \E q \in Proc : pc'[q] = "close" /\ fd'[q] = rc
    BY <1>1 DEF IncompleteOnlyUntilClose, Complete
  <2>2. ~Complete(rc) /\ rc # fd[p]
    BY <1>3, <2>1
  <2>3. PICK q \in Proc : pc[q] = "close" /\ fd[q] = rc
    BY <2>2 DEF IncompleteOnlyUntilClose
  <2> QED BY <1>7, <2>2, <2>3
<1>12. LockMeansConcurrent'
  BY <1>1 DEF LockMeansConcurrent, Generating
<1> QED BY <1>5, <1>6, <1>9, <1>10, <1>11, <1>12

\* Every step preserves what holds of the files.
LEMMA FilesStep == FilesInv /\ [Next]_vars => FilesInv'
<1> SUFFICES ASSUME FilesInv, [Next]_vars PROVE FilesHold'
  BY InvStep DEF FilesInv
<1> USE NoneAssumption
<1>1. ASSUME NEW f \in Inode, Age(f)
      PROVE  FilesHold'
  <2>1. /\ rc' = rc /\ lock' = lock /\ pc' = pc /\ st' = st /\ fd' = fd /\ list' = list
        /\ file' = [file EXCEPT ![f].old = TRUE] /\ f \in Used
    BY <1>1 DEF Age, Used
  <2>2. /\ file' \in [Inode -> File]
        /\ \A g \in Inode : file'[g].scan = file[g].scan /\ file'[g].data = file[g].data
        /\ \A g \in Inode : g # f => file'[g] = file[g]
    BY <2>1 DEF FilesInv, FilesHold, TypeOK, File
  <2>3. Used' = Used
    BY <2>1 DEF Used
  <2>4. TypeOK' /\ FilesOpen' /\ LockUnread'
    BY <2>1, <2>2 DEF FilesInv, FilesHold, TypeOK, File, FilesOpen, LockUnread
  <2>5. FreshEmpty'
    BY <2>1, <2>2, <2>3 DEF FilesInv, FilesHold, TypeOK, FreshEmpty, FilesOpen
  <2>6. ListFromOneScan'
    BY <2>1, <2>2 DEF FilesInv, FilesHold, TypeOK, ListFromOneScan, FilesOpen
  <2>7. IncompleteOnlyUntilClose' /\ LockMeansConcurrent'
    BY <2>1, <2>2 DEF FilesInv, FilesHold, TypeOK, IncompleteOnlyUntilClose, Complete,
                      LockMeansConcurrent, Generating
  <2> QED BY <2>4, <2>5, <2>6, <2>7 DEF FilesHold
<1>2. ASSUME NEW p \in Proc, StillGood(p) \/ ForkFails(p) \/ LockExists(p) \/ Crash(p)
      PROVE  FilesHold'
  <2>1. Leave(p) /\ rc' = rc /\ lock' = lock /\ Release(file)
    BY <1>2 DEF StillGood, ForkFails, LockExists, Crash
  <2>2. ~Crashes => pc[p] \in {"stat", "parse", "read", "age", "lock"}
    BY <1>2 DEF StillGood, ForkFails, LockExists, Crash
  <2> QED BY <2>1, <2>2, LeaveStep
<1>3. ASSUME NEW p \in Proc, Lock(p)
      PROVE  FilesHold'
  <2> USE DEF FilesInv, FilesHold, TypeOK
  <2>1. PICK f \in Inode \ Used : lock' = f /\ fd' = [fd EXCEPT ![p] = f]
    BY <1>3 DEF Lock
  <2>2. /\ rc' = rc /\ file' = file /\ st' = st /\ list' = list /\ lock = None
        /\ pc[p] = "lock" /\ pc' = [pc EXCEPT ![p] = "scan"]
    BY <1>3 DEF Lock, Goto
  <2>3. f # rc /\ f # None /\ \A q \in Proc : fd[q] # f
    BY DEF Used
  <2>4. TypeOK'
    BY <2>1, <2>2
  <2>7. FilesOpen'
    BY <2>1, <2>2, <2>3 DEF FilesOpen
  <2>8. LockUnread'
    BY <2>1, <2>2, <2>3 DEF LockUnread
  <2>5. FreshEmpty'
    <3>1. \A g \in Inode : g \in Used => g \in Used'
      <4>1. fd[p] = None
        BY <2>2 DEF FilesOpen
      <4>2. \A q \in Proc : fd[q] # None => fd'[q] = fd[q]
        BY <2>1, <4>1
      <4>3. /\ rc' \in Used' /\ \A q \in Proc : fd'[q] \in Used' /\ st'[q] \in Used'
        BY DEF Used
      <4> QED BY <2>2, <4>2, <4>3 DEF Used
    <3>2. file[f].scan = {}
      BY DEF FreshEmpty, EmptyFile
    <3> QED BY <2>1, <2>2, <3>1, <3>2 DEF FreshEmpty
  <2>6. ListFromOneScan' /\ LockMeansConcurrent'
    BY <2>1, <2>2 DEF ListFromOneScan, LockMeansConcurrent, Generating
  <2>9. IncompleteOnlyUntilClose'
    <3>1. \A q \in Proc : pc[q] = "close" => pc'[q] = "close" /\ fd'[q] = fd[q]
      BY <2>1, <2>2
    <3> QED BY <2>2, <3>1 DEF IncompleteOnlyUntilClose, Complete
  <2> QED BY <2>4, <2>5, <2>6, <2>7, <2>8, <2>9
<1>4. ASSUME NEW p \in Proc, RenameFails(p)
      PROVE  FilesHold'
  BY <1>4 DEF RenameFails, Goto, files, FilesInv, FilesHold, TypeOK, FilesOpen, LockUnread,
              FreshEmpty, Used, ListFromOneScan, IncompleteOnlyUntilClose,
              LockMeansConcurrent
<1>5. CASE UNCHANGED vars
  BY <1>5 DEF vars, FilesInv, FilesHold, TypeOK, FilesOpen, LockUnread, FreshEmpty, Used,
              ListFromOneScan, IncompleteOnlyUntilClose, Complete, LockMeansConcurrent,
              Generating
<1> QED
  BY <1>1, <1>2, <1>3, <1>4, <1>5, ReaderStep, ForkStep, WriterStep, RenameStep, CloseStep
     DEF Next, Step

\* The files, the processes and the lists have their types, and no file holds
\* repositories its scan did not find.
THEOREM TypeCorrect == Spec => []TypeOK
<1>1. FilesInv => TypeOK
  BY DEF FilesInv, FilesHold
<1> QED
  BY FilesInit, FilesStep, <1>1, PTL DEF Spec

\* Where no process dies, the file at cached_rc lacks repositories only between
\* rename and fclose of the one that wrote it (cgit-repolist.c:154-158).
THEOREM IncompleteBriefly == Spec => []IncompleteOnlyUntilClose
<1>1. FilesInv => IncompleteOnlyUntilClose
  BY DEF FilesInv, FilesHold
<1> QED
  BY FilesInit, FilesStep, <1>1, PTL DEF Spec

\* Where no process dies, a lock file that exists is one that somebody writes, as
\* the comment at cgit-repolist.c:143 has it.
THEOREM LockIsConcurrent == Spec => []LockMeansConcurrent
<1>1. FilesInv => LockMeansConcurrent
  BY DEF FilesInv, FilesHold
<1> QED
  BY FilesInit, FilesStep, <1>1, PTL DEF Spec

\* A request that parsed the cached list knows repositories of one scan only,
\* whatever dies and however often the file is replaced while it is read.
THEOREM OneScan == Spec => []ListFromOneScan
<1>1. FilesInv => ListFromOneScan
  BY DEF FilesInv, FilesHold
<1> QED
  BY FilesInit, FilesStep, <1>1, PTL DEF Spec
=============================================================================
