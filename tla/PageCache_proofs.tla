-------------------------- MODULE PageCache_proofs --------------------------
(***************************************************************************)
(* Proofs about the page cache, for every number of processes, keys,       *)
(* slots and inodes, and at the end that it implements the page store,     *)
(* whatever crashes or fails.                                              *)
(***************************************************************************)
EXTENDS PageCacheRefinement, TLAPS

TypeInv == TypeOK /\ FdOK

\* The struct stat of a file is one, and so is the cell that fn() writes.
LEMMA StatType ==
    ASSUME TypeOK, NEW i \in Inode
    PROVE  StatOf(i) \in Stat
BY BoundAssumption, SMT DEF TypeOK, StatOf, Stat, Size, File

\* A page of n chunks fits into a response.
LEMMA PageType ==
    ASSUME NEW p \in Proc \cup {Past}, NEW k \in Key, NEW n \in Pos
    PROVE  PageOf(p, k, n) \in Cells
BY DEF PageOf, Cells, Chunk

LEMMA BlankType == Blank \in Cells
BY DEF Blank, Cells

LEMMA EmptyFileType ==
    ASSUME NEW t \in 0 .. MaxNow
    PROVE  EmptyFile(t) \in File
BY BlankType, BoundAssumption DEF EmptyFile, File

\* Writing the key or a chunk into a file leaves it a file.
LEMMA OverwriteType ==
    ASSUME TypeOK, NEW f \in File, NEW j \in Pos, NEW c \in Chunk
    PROVE  Overwrite(f, j, c) \in File
<1>1. [f.body EXCEPT ![j] = c] \in Cells
  BY DEF File, Cells
<1>2. (IF f.len < j THEN j ELSE f.len) \in 0 .. MaxLen
  BY BoundAssumption DEF File, Pos
<1> QED BY <1>1, <1>2 DEF Overwrite, File, TypeOK

LEMMA WriteKeyType ==
    ASSUME TypeOK, NEW f \in File, NEW k \in Key
    PROVE  WriteKey(f, k) \in File
BY DEF WriteKey, File, TypeOK

THEOREM TypeInit == Init => TypeInv
<1> SUFFICES ASSUME Init PROVE TypeInv
  OBVIOUS
<1>1. file \in [Inode -> File]
  <2>1. CASE file = [i \in Inode |-> EmptyFile(0)]
    BY <2>1, EmptyFileType, BoundAssumption
  <2>2. CASE \E k \in Key, i \in Inode, n \in Pos :
                file = [[j \in Inode |-> EmptyFile(0)] EXCEPT
                          ![i] = [key |-> k, body |-> PageOf(Past, k, n),
                                  len |-> n, mtime |-> 0]]
    <3>1. PICK k \in Key, i \in Inode, n \in Pos :
                file = [[j \in Inode |-> EmptyFile(0)] EXCEPT
                          ![i] = [key |-> k, body |-> PageOf(Past, k, n),
                                  len |-> n, mtime |-> 0]]
      BY <2>2
    <3>2. [key |-> k, body |-> PageOf(Past, k, n), len |-> n, mtime |-> 0] \in File
      BY PageType, BoundAssumption DEF File, Pos
    <3> QED BY <3>1, <3>2, EmptyFileType, BoundAssumption
  <2> QED BY <2>1, <2>2 DEF Init, InitCache
<1>2. cache_name \in [Slot -> Inode \cup {None}]
  BY SlotAssumption DEF Init, InitCache
<1>3. out \in [Proc -> Cells]
  BY BlankType DEF Init
<1>4. TypeOK
  BY <1>1, <1>2, <1>3, BoundAssumption DEF Init, TypeOK, Stat, NoStat
<1>5. FdOK
  BY DEF Init, FdOK, Locked
<1> QED BY <1>4, <1>5 DEF TypeInv

THEOREM TypeStep == TypeInv /\ [Next]_vars => TypeInv'
<1> SUFFICES ASSUME TypeInv, [Next]_vars PROVE TypeInv'
  OBVIOUS
<1> USE DEF TypeInv, TypeOK, FdOK, Locked
<1>1. CASE UNCHANGED vars
  BY <1>1 DEF vars
<1>2. CASE Tick
  BY <1>2, BoundAssumption DEF Tick, local, response
<1>3. ASSUME NEW p \in Proc, Step(p) \/ Fail(p) PROVE TypeInv'
  <2> USE DEF fs, local, response, Goto, NoLock
  <2>1. CASE Request(p) BY <2>1 DEF Request
  <2>2. CASE Open(p) BY <2>2, SlotAssumption DEF Open, MySlot
  <2>3. CASE Fstat(p) BY <2>3, StatType DEF Fstat
  <2>4. CASE ReadHit(p) BY <2>4 DEF ReadHit
  <2>5. CASE ReadMiss(p) BY <2>5 DEF ReadMiss, Release
  <2>6. CASE LockOpen(p) BY <2>6, SlotAssumption, EmptyFileType DEF LockOpen, MySlot
  <2>7. CASE LockSet(p) BY <2>7 DEF LockSet
  <2>8. CASE LockBusy(p) BY <2>8 DEF LockBusy
  <2>9. CASE LockKey(p) BY <2>9, WriteKeyType DEF LockKey
  <2>10. CASE CheckModified(p) BY <2>10 DEF CheckModified
  <2>11. CASE Redirect(p) BY <2>11, BoundAssumption DEF Redirect, Pos
  <2>12. CASE Fill(p)
    <3>1. /\ lock_fd[p] \in Inode
          /\ written[p] + 1 \in Pos /\ page[p] \in Pos
      BY <2>12, BoundAssumption DEF Fill, Pos
    <3>2. MyChunk(p) \in Chunk
      BY <3>1 DEF MyChunk, Chunk
    <3>3. file' \in [Inode -> File]
      BY <2>12, <3>1, <3>2, OverwriteType DEF Fill
    <3>4. written' \in [Proc -> 0 .. MaxLen]
      BY <2>12, <3>1 DEF Fill, Pos
    <3> QED BY <2>12, <3>3, <3>4 DEF Fill
  <2>13. CASE FillOpensFilter(p) BY <2>13 DEF FillOpensFilter, Release
  <2>14. CASE FillDone(p) BY <2>14, StatType DEF FillDone
  <2>15. CASE Publish(p) BY <2>15, SlotAssumption DEF Publish, MySlot
  <2>16. CASE RestoreNew(p) BY <2>16 DEF RestoreNew, Release
  <2>17. CASE Prune(p) BY <2>17, SlotAssumption DEF Prune, MySlot
  <2>18. CASE RestoreOld(p) BY <2>18 DEF RestoreOld, Release
  <2>19. CASE Send(p)
    <3>1. /\ cache_fd[p] \in Inode
          /\ sent[p] + 1 \in Pos
      BY <2>19, BoundAssumption DEF Send, File, Pos
    <3>2. file[cache_fd[p]].body \in Cells
      BY <3>1 DEF File
    <3>3. out' \in [Proc -> Cells]
      BY <2>19, <3>1, <3>2 DEF Send, Cells
    <3>4. sent' \in [Proc -> 0 .. MaxLen]
      BY <2>19, <3>1 DEF Send, Pos
    <3> QED BY <2>19, <3>3, <3>4 DEF Send
  <2>20. CASE SendDone(p)
    BY <2>20, BoundAssumption DEF SendDone, Exit, ReleaseAll, NoStat, Stat
  <2>21. CASE Direct(p)
    BY <2>21, PageType, BoundAssumption DEF Direct, Exit, ReleaseAll, NoStat, Stat, Pos
  <2>22. CASE OpenFails(p) BY <2>22 DEF OpenFails, Release
  <2>23. CASE LockKeyFails(p) BY <2>23 DEF LockKeyFails
  <2>24. CASE RedirectFails(p) BY <2>24 DEF RedirectFails
  <2>25. CASE FillFails(p) BY <2>25 DEF FillFails
  <2>26. CASE SendFails(p)
    BY <2>26, BoundAssumption DEF SendFails, Exit, ReleaseAll, NoStat, Stat
  <2>27. CASE Crash(p)
    BY <2>27, BoundAssumption DEF Crash, Exit, ReleaseAll, NoStat, Stat
  <2> QED BY <1>3, <2>1, <2>2, <2>3, <2>4, <2>5, <2>6, <2>7, <2>8, <2>9, <2>10,
             <2>11, <2>12, <2>13, <2>14, <2>15, <2>16, <2>17, <2>18, <2>19, <2>20,
             <2>21, <2>22, <2>23, <2>24, <2>25, <2>26, <2>27 DEF Step, Fail
<1> QED BY <1>1, <1>2, <1>3 DEF Next

-----------------------------------------------------------------------------
(* The lock, the names and stdout: without any condition on what fails *)

\* When a process is about to rename, its lock file begins with its whole page.
LEMMA PublishedPage ==
    ASSUME TypeOK, FdOK, WriterPages, NEW p \in Proc, pc[p] = "publish"
    PROVE  PageFile(lock_fd[p])
<1>1. /\ lock_fd[p] \in Inode
      /\ file[lock_fd[p]].len \in 0 .. MaxLen
      /\ file[lock_fd[p]].key = key[p]
      /\ page[p] \in Pos /\ page[p] <= file[lock_fd[p]].len
      /\ \A j \in 1 .. page[p] : file[lock_fd[p]].body[j] = MyChunk(p)
  BY DEF WriterPages, WriterPage, Locked, FdOK, TypeOK, File
<1>2. file[lock_fd[p]].body[1] = MyChunk(p)
  BY <1>1, BoundAssumption DEF Pos
<1> QED BY <1>1, <1>2, BoundAssumption
        DEF PageFile, StartsWithPage, MyChunk, Chunk, Pos, TypeOK

\* The length of a file is a number of chunks.
LEMMA LenType ==
    ASSUME TypeOK, NEW i \in Inode
    PROVE  file[i].len \in 0 .. MaxLen /\ file[i].len \in Nat /\ 0 <= file[i].len
BY BoundAssumption DEF TypeOK, File

\* The lock stays with its owner until the owner gives it up: every step of
\* another process releases only its own locks.
LEMMA OwnerStep ==
    ASSUME TypeOK, FdOK, OwnerOK, [Next]_vars
    PROVE  OwnerOK'
<1> USE DEF TypeOK, FdOK, OwnerOK, Locked
<1>1. CASE UNCHANGED vars
  BY <1>1 DEF vars
<1>2. CASE Tick
  BY <1>2 DEF Tick, local, response
<1>3. ASSUME NEW p \in Proc, Step(p) \/ Fail(p) PROVE OwnerOK'
  <2> USE DEF fs, local, response, Goto, NoLock
  <2>1. CASE Request(p) BY <2>1 DEF Request
  <2>2. CASE Open(p) BY <2>2 DEF Open
  <2>3. CASE Fstat(p) BY <2>3 DEF Fstat
  <2>4. CASE ReadHit(p) BY <2>4 DEF ReadHit
  <2>5. CASE ReadMiss(p) BY <2>5 DEF ReadMiss, Release
  <2>6. CASE LockOpen(p) BY <2>6 DEF LockOpen
  <2>7. CASE LockSet(p) BY <2>7, NoneAssumption DEF LockSet
  <2>8. CASE LockBusy(p) BY <2>8 DEF LockBusy
  <2>9. CASE LockKey(p) BY <2>9 DEF LockKey
  <2>10. CASE CheckModified(p) BY <2>10 DEF CheckModified
  <2>11. CASE Redirect(p) BY <2>11 DEF Redirect
  <2>12. CASE Fill(p) BY <2>12 DEF Fill
  <2>13. CASE FillOpensFilter(p) BY <2>13 DEF FillOpensFilter, Release
  <2>14. CASE FillDone(p) BY <2>14 DEF FillDone
  <2>15. CASE Publish(p) BY <2>15 DEF Publish
  <2>16. CASE RestoreNew(p) BY <2>16 DEF RestoreNew, Release
  <2>17. CASE Prune(p) BY <2>17 DEF Prune
  <2>18. CASE RestoreOld(p) BY <2>18 DEF RestoreOld, Release
  <2>19. CASE Send(p) BY <2>19 DEF Send
  <2>20. CASE SendDone(p) BY <2>20 DEF SendDone, Exit, ReleaseAll
  <2>21. CASE Direct(p) BY <2>21 DEF Direct, Exit, ReleaseAll
  <2>22. CASE OpenFails(p) BY <2>22 DEF OpenFails, Release
  <2>23. CASE LockKeyFails(p) BY <2>23 DEF LockKeyFails
  <2>24. CASE RedirectFails(p) BY <2>24 DEF RedirectFails
  <2>25. CASE FillFails(p) BY <2>25 DEF FillFails
  <2>26. CASE SendFails(p) BY <2>26 DEF SendFails, Exit, ReleaseAll
  <2>27. CASE Crash(p) BY <2>27 DEF Crash, Exit, ReleaseAll
  <2> QED BY <1>3, <2>1, <2>2, <2>3, <2>4, <2>5, <2>6, <2>7, <2>8, <2>9, <2>10,
             <2>11, <2>12, <2>13, <2>14, <2>15, <2>16, <2>17, <2>18, <2>19,
             <2>20, <2>21, <2>22, <2>23, <2>24, <2>25, <2>26, <2>27 DEF Step, Fail
<1> QED BY <1>1, <1>2, <1>3 DEF Next

\* No inode is ever linked twice: a lock file is created on an unused inode, and
\* a rename moves it.
LEMMA NamesStep ==
    ASSUME TypeOK, FdOK, NamesOK, [Next]_vars
    PROVE  NamesOK'
<1> USE DEF TypeOK, FdOK, NamesOK, Locked, MySlot
<1>1. CASE UNCHANGED vars
  BY <1>1 DEF vars
<1>2. CASE Tick
  BY <1>2 DEF Tick, local, response
<1>3. ASSUME NEW p \in Proc, Step(p) \/ Fail(p) PROVE NamesOK'
  <2> USE DEF fs, local, response, Goto, NoLock
  <2>1. CASE Request(p) BY <2>1 DEF Request
  <2>2. CASE Open(p) BY <2>2 DEF Open
  <2>3. CASE Fstat(p) BY <2>3 DEF Fstat
  <2>4. CASE ReadHit(p) BY <2>4 DEF ReadHit
  <2>5. CASE ReadMiss(p) BY <2>5 DEF ReadMiss, Release
  <2>6. CASE LockOpen(p) BY <2>6, SlotAssumption, NoneAssumption DEF LockOpen, Unused
  <2>7. CASE LockSet(p) BY <2>7 DEF LockSet
  <2>8. CASE LockBusy(p) BY <2>8 DEF LockBusy
  <2>9. CASE LockKey(p) BY <2>9 DEF LockKey
  <2>10. CASE CheckModified(p) BY <2>10 DEF CheckModified
  <2>11. CASE Redirect(p) BY <2>11 DEF Redirect
  <2>12. CASE Fill(p) BY <2>12 DEF Fill
  <2>13. CASE FillOpensFilter(p) BY <2>13 DEF FillOpensFilter, Release
  <2>14. CASE FillDone(p) BY <2>14 DEF FillDone
  <2>15. CASE Publish(p) BY <2>15, SlotAssumption DEF Publish
  <2>16. CASE RestoreNew(p) BY <2>16 DEF RestoreNew, Release
  <2>17. CASE Prune(p) BY <2>17, SlotAssumption DEF Prune
  <2>18. CASE RestoreOld(p) BY <2>18 DEF RestoreOld, Release
  <2>19. CASE Send(p) BY <2>19 DEF Send
  <2>20. CASE SendDone(p) BY <2>20 DEF SendDone, Exit, ReleaseAll
  <2>21. CASE Direct(p) BY <2>21 DEF Direct, Exit, ReleaseAll
  <2>22. CASE OpenFails(p) BY <2>22 DEF OpenFails, Release
  <2>23. CASE LockKeyFails(p) BY <2>23 DEF LockKeyFails
  <2>24. CASE RedirectFails(p) BY <2>24 DEF RedirectFails
  <2>25. CASE FillFails(p) BY <2>25 DEF FillFails
  <2>26. CASE SendFails(p) BY <2>26 DEF SendFails, Exit, ReleaseAll
  <2>27. CASE Crash(p) BY <2>27 DEF Crash, Exit, ReleaseAll
  <2> QED BY <1>3, <2>1, <2>2, <2>3, <2>4, <2>5, <2>6, <2>7, <2>8, <2>9, <2>10,
             <2>11, <2>12, <2>13, <2>14, <2>15, <2>16, <2>17, <2>18, <2>19,
             <2>20, <2>21, <2>22, <2>23, <2>24, <2>25, <2>26, <2>27 DEF Step, Fail
<1> QED BY <1>1, <1>2, <1>3 DEF Next

\* Locks and the redirection of stdout end with the steps that need them.
LEMMA SendStep ==
    ASSUME TypeOK, FdOK, SendOK, [Next]_vars
    PROVE  SendOK'
<1> USE DEF TypeOK, FdOK, SendOK, Locked
<1>1. CASE UNCHANGED vars
  BY <1>1 DEF vars
<1>2. CASE Tick
  BY <1>2 DEF Tick, local, response
<1>3. ASSUME NEW p \in Proc, Step(p) \/ Fail(p) PROVE SendOK'
  <2> USE DEF fs, local, response, Goto, NoLock
  <2>1. CASE Request(p) BY <2>1 DEF Request
  <2>2. CASE Open(p) BY <2>2 DEF Open
  <2>3. CASE Fstat(p) BY <2>3 DEF Fstat
  <2>4. CASE ReadHit(p) BY <2>4 DEF ReadHit
  <2>5. CASE ReadMiss(p) BY <2>5 DEF ReadMiss, Release
  <2>6. CASE LockOpen(p) BY <2>6 DEF LockOpen
  <2>7. CASE LockSet(p) BY <2>7 DEF LockSet
  <2>8. CASE LockBusy(p) BY <2>8 DEF LockBusy
  <2>9. CASE LockKey(p) BY <2>9 DEF LockKey
  <2>10. CASE CheckModified(p) BY <2>10 DEF CheckModified
  <2>11. CASE Redirect(p) BY <2>11 DEF Redirect
  <2>12. CASE Fill(p) BY <2>12 DEF Fill
  <2>13. CASE FillOpensFilter(p) BY <2>13 DEF FillOpensFilter, Release
  <2>14. CASE FillDone(p) BY <2>14 DEF FillDone
  <2>15. CASE Publish(p) BY <2>15 DEF Publish
  <2>16. CASE RestoreNew(p) BY <2>16 DEF RestoreNew, Release
  <2>17. CASE Prune(p) BY <2>17 DEF Prune
  <2>18. CASE RestoreOld(p) BY <2>18 DEF RestoreOld, Release
  <2>19. CASE Send(p) BY <2>19 DEF Send
  <2>20. CASE SendDone(p) BY <2>20 DEF SendDone, Exit, ReleaseAll
  <2>21. CASE Direct(p) BY <2>21 DEF Direct, Exit, ReleaseAll
  <2>22. CASE OpenFails(p) BY <2>22 DEF OpenFails, Release
  <2>23. CASE LockKeyFails(p) BY <2>23 DEF LockKeyFails
  <2>24. CASE RedirectFails(p) BY <2>24 DEF RedirectFails
  <2>25. CASE FillFails(p) BY <2>25 DEF FillFails
  <2>26. CASE SendFails(p) BY <2>26 DEF SendFails, Exit, ReleaseAll
  <2>27. CASE Crash(p) BY <2>27 DEF Crash, Exit, ReleaseAll
  <2> QED BY <1>3, <2>1, <2>2, <2>3, <2>4, <2>5, <2>6, <2>7, <2>8, <2>9, <2>10,
             <2>11, <2>12, <2>13, <2>14, <2>15, <2>16, <2>17, <2>18, <2>19,
             <2>20, <2>21, <2>22, <2>23, <2>24, <2>25, <2>26, <2>27 DEF Step, Fail
<1> QED BY <1>1, <1>2, <1>3 DEF Next

-----------------------------------------------------------------------------
(* The files, as long as no lock file has been anybody else's *)

\* An owner's lock file stays at lock_name until the owner renames or unlinks it:
\* whoever else might do that would own the same inode.
LEMMA LinkedStep ==
    ASSUME TypeOK, FdOK, OwnerOK, NamesOK, Clean, Clean', LockLinked, [Next]_vars
    PROVE  LockLinked'
<1> USE DEF TypeOK, FdOK, OwnerOK, NamesOK, Clean, Locked, Unpublished, MySlot,
   LockLinked
<1>1. CASE UNCHANGED vars
  BY <1>1 DEF vars
<1>2. CASE Tick
  BY <1>2 DEF Tick, local, response
<1>3. ASSUME NEW p \in Proc, Step(p) \/ Fail(p) PROVE LockLinked'
  <2> USE DEF fs, local, response, Goto, NoLock
  <2>1. CASE Request(p) BY <2>1 DEF Request
  <2>2. CASE Open(p) BY <2>2 DEF Open
  <2>3. CASE Fstat(p) BY <2>3 DEF Fstat
  <2>4. CASE ReadHit(p) BY <2>4 DEF ReadHit
  <2>5. CASE ReadMiss(p) BY <2>5 DEF ReadMiss, Release
  <2>6. CASE LockOpen(p)
    BY <2>6, SlotAssumption, NoneAssumption DEF LockOpen, Unused
  <2>7. CASE LockSet(p) BY <2>7, NoneAssumption DEF LockSet
  <2>8. CASE LockBusy(p) BY <2>8 DEF LockBusy
  <2>9. CASE LockKey(p) BY <2>9 DEF LockKey
  <2>10. CASE CheckModified(p) BY <2>10 DEF CheckModified
  <2>11. CASE Redirect(p) BY <2>11 DEF Redirect
  <2>12. CASE Fill(p) BY <2>12 DEF Fill
  <2>13. CASE FillOpensFilter(p) BY <2>13 DEF FillOpensFilter, Release
  <2>14. CASE FillDone(p) BY <2>14 DEF FillDone
  <2>15. CASE Publish(p) BY <2>15, SlotAssumption, NoneAssumption DEF Publish
  <2>16. CASE RestoreNew(p) BY <2>16 DEF RestoreNew, Release
  <2>17. CASE Prune(p)
    <3>1. ASSUME NEW q \in Proc, q # p, pc[q] \in Unpublished
          PROVE  MySlot(q) # MySlot(p)
      BY <3>1, <2>17 DEF Prune
    <3> QED BY <3>1, <2>17, SlotAssumption DEF Prune
  <2>18. CASE RestoreOld(p) BY <2>18 DEF RestoreOld, Release
  <2>19. CASE Send(p) BY <2>19 DEF Send
  <2>20. CASE SendDone(p) BY <2>20 DEF SendDone, Exit, ReleaseAll
  <2>21. CASE Direct(p) BY <2>21 DEF Direct, Exit, ReleaseAll
  <2>22. CASE OpenFails(p) BY <2>22 DEF OpenFails, Release
  <2>23. CASE LockKeyFails(p) BY <2>23 DEF LockKeyFails
  <2>24. CASE RedirectFails(p) BY <2>24 DEF RedirectFails
  <2>25. CASE FillFails(p) BY <2>25 DEF FillFails
  <2>26. CASE SendFails(p) BY <2>26 DEF SendFails, Exit, ReleaseAll
  <2>27. CASE Crash(p) BY <2>27 DEF Crash, Exit, ReleaseAll
  <2> QED BY <1>3, <2>1, <2>2, <2>3, <2>4, <2>5, <2>6, <2>7, <2>8, <2>9, <2>10,
             <2>11, <2>12, <2>13, <2>14, <2>15, <2>16, <2>17, <2>18, <2>19,
             <2>20, <2>21, <2>22, <2>23, <2>24, <2>25, <2>26, <2>27 DEF Step, Fail
<1> QED BY <1>1, <1>2, <1>3 DEF Next

\* A descriptor to read from never comes to refer to a lock file.
LEMMA ReadNotLockedStep ==
    ASSUME TypeOK, FdOK, OwnerOK, NamesOK, Clean, Clean', LockLinked, ReadNotLocked,
       [Next]_vars
    PROVE  ReadNotLocked'
<1> USE DEF TypeOK, FdOK, OwnerOK, NamesOK, Clean, Locked, Unpublished, MySlot,
   LockLinked, ReadNotLocked
<1>1. CASE UNCHANGED vars
  BY <1>1 DEF vars
<1>2. CASE Tick
  BY <1>2 DEF Tick, local, response
<1>3. ASSUME NEW p \in Proc, Step(p) \/ Fail(p) PROVE ReadNotLocked'
  <2> USE DEF fs, local, response, Goto, NoLock
  <2>1. CASE Request(p) BY <2>1 DEF Request
  <2>2. CASE Open(p) BY <2>2, SlotAssumption, NoneAssumption DEF Open
  <2>3. CASE Fstat(p) BY <2>3 DEF Fstat
  <2>4. CASE ReadHit(p) BY <2>4 DEF ReadHit
  <2>5. CASE ReadMiss(p) BY <2>5 DEF ReadMiss, Release
  <2>6. CASE LockOpen(p)
    BY <2>6, SlotAssumption, NoneAssumption DEF LockOpen, Unused
  <2>7. CASE LockSet(p) BY <2>7 DEF LockSet
  <2>8. CASE LockBusy(p) BY <2>8 DEF LockBusy
  <2>9. CASE LockKey(p) BY <2>9 DEF LockKey
  <2>10. CASE CheckModified(p) BY <2>10 DEF CheckModified
  <2>11. CASE Redirect(p) BY <2>11 DEF Redirect
  <2>12. CASE Fill(p) BY <2>12 DEF Fill
  <2>13. CASE FillOpensFilter(p) BY <2>13 DEF FillOpensFilter, Release
  <2>14. CASE FillDone(p) BY <2>14 DEF FillDone
  <2>15. CASE Publish(p) BY <2>15, SlotAssumption, NoneAssumption DEF Publish
  <2>16. CASE RestoreNew(p) BY <2>16 DEF RestoreNew, Release
  <2>17. CASE Prune(p) BY <2>17, SlotAssumption, NoneAssumption DEF Prune
  <2>18. CASE RestoreOld(p) BY <2>18 DEF RestoreOld, Release
  <2>19. CASE Send(p) BY <2>19 DEF Send
  <2>20. CASE SendDone(p) BY <2>20 DEF SendDone, Exit, ReleaseAll
  <2>21. CASE Direct(p) BY <2>21 DEF Direct, Exit, ReleaseAll
  <2>22. CASE OpenFails(p) BY <2>22 DEF OpenFails, Release
  <2>23. CASE LockKeyFails(p) BY <2>23 DEF LockKeyFails
  <2>24. CASE RedirectFails(p) BY <2>24 DEF RedirectFails
  <2>25. CASE FillFails(p) BY <2>25 DEF FillFails
  <2>26. CASE SendFails(p) BY <2>26 DEF SendFails, Exit, ReleaseAll
  <2>27. CASE Crash(p) BY <2>27 DEF Crash, Exit, ReleaseAll
  <2> QED BY <1>3, <2>1, <2>2, <2>3, <2>4, <2>5, <2>6, <2>7, <2>8, <2>9, <2>10,
             <2>11, <2>12, <2>13, <2>14, <2>15, <2>16, <2>17, <2>18, <2>19,
             <2>20, <2>21, <2>22, <2>23, <2>24, <2>25, <2>26, <2>27 DEF Step, Fail
<1> QED BY <1>1, <1>2, <1>3 DEF Next

\* Whoever writes to its lock file writes neither to a published file nor to one
\* that is open for reading.
LEMMA PublishedUntouched ==
    ASSUME TypeOK, FdOK, NamesOK, LockLinked, NEW p \in Proc, LockKey(p) \/ Fill(p)
    PROVE  \A s \in Slot :
              cache_name[s] # None => file'[cache_name[s]] = file[cache_name[s]]
<1>1. lock_fd[p] \in Inode /\ lock_name[MySlot(p)] = lock_fd[p] /\ MySlot(p) \in Slot
  BY SlotAssumption
     DEF LockKey, Fill, FdOK, LockLinked, Locked, Unpublished, MySlot, TypeOK
<1>2. \A s \in Slot : cache_name[s] # None => cache_name[s] # lock_fd[p]
  BY <1>1, NoneAssumption DEF NamesOK
<1> QED BY <1>1, <1>2 DEF LockKey, Fill, TypeOK

LEMMA ReadUntouched ==
    ASSUME TypeOK, FdOK, ReadNotLocked, LockLinked, NEW p \in Proc, LockKey(p) \/ Fill(p)
    PROVE  \A q \in Proc :
              cache_fd[q] # None => file'[cache_fd[q]] = file[cache_fd[q]]
<1>1. lock_fd[p] \in Inode /\ lock_name[MySlot(p)] = lock_fd[p] /\ MySlot(p) \in Slot
  BY SlotAssumption
     DEF LockKey, Fill, FdOK, LockLinked, Locked, Unpublished, MySlot, TypeOK
<1>2. \A q \in Proc : cache_fd[q] # None => cache_fd[q] # lock_fd[p]
  BY <1>1 DEF ReadNotLocked
<1> QED BY <1>1, <1>2 DEF LockKey, Fill, TypeOK

\* A published file begins with a whole page: writers write to lock files only.
LEMMA SlotPagesStep ==
    ASSUME TypeOK, FdOK, OwnerOK, NamesOK, Clean, Clean', LockLinked, WriterPages,
       SlotPages, [Next]_vars
    PROVE  SlotPages'
<1> USE DEF TypeOK, FdOK, OwnerOK, NamesOK, Clean, Locked, Unpublished, MySlot,
   LockLinked, SlotPages, PageFile, StartsWithPage
<1>1. CASE UNCHANGED vars
  BY <1>1 DEF vars
<1>2. CASE Tick
  BY <1>2 DEF Tick, local, response
<1>3. ASSUME NEW p \in Proc, Step(p) \/ Fail(p) PROVE SlotPages'
  <2> USE DEF fs, local, response, Goto, NoLock
  <2>1. CASE Request(p) BY <2>1 DEF Request
  <2>2. CASE Open(p) BY <2>2 DEF Open
  <2>3. CASE Fstat(p) BY <2>3 DEF Fstat
  <2>4. CASE ReadHit(p) BY <2>4 DEF ReadHit
  <2>5. CASE ReadMiss(p) BY <2>5 DEF ReadMiss, Release
  <2>6. CASE LockOpen(p)
    BY <2>6, SlotAssumption, NoneAssumption DEF LockOpen, Unused
  <2>7. CASE LockSet(p) BY <2>7 DEF LockSet
  <2>8. CASE LockBusy(p) BY <2>8 DEF LockBusy
  <2>9. CASE LockKey(p)
    <3>1. \A s \in Slot : cache_name[s] # None =>
              file'[cache_name[s]] = file[cache_name[s]]
      BY <2>9, PublishedUntouched
    <3> QED BY <3>1, <2>9 DEF LockKey
  <2>10. CASE CheckModified(p) BY <2>10 DEF CheckModified
  <2>11. CASE Redirect(p) BY <2>11 DEF Redirect
  <2>12. CASE Fill(p)
    <3>1. \A s \in Slot : cache_name[s] # None =>
              file'[cache_name[s]] = file[cache_name[s]]
      BY <2>12, PublishedUntouched
    <3> QED BY <3>1, <2>12 DEF Fill
  <2>13. CASE FillOpensFilter(p) BY <2>13 DEF FillOpensFilter, Release
  <2>14. CASE FillDone(p) BY <2>14 DEF FillDone
  <2>15. CASE Publish(p)
    <3>1. PageFile(lock_fd[p]) /\ file[lock_fd[p]].key = key[p]
      BY <2>15, PublishedPage DEF Publish, WriterPages, WriterPage
    <3>2. lock_name[MySlot(p)] = lock_fd[p] /\ lock_fd[p] \in Inode
      BY <2>15 DEF Publish
    <3> QED BY <3>1, <3>2, <2>15, SlotAssumption, NoneAssumption DEF Publish
  <2>16. CASE RestoreNew(p) BY <2>16 DEF RestoreNew, Release
  <2>17. CASE Prune(p) BY <2>17 DEF Prune
  <2>18. CASE RestoreOld(p) BY <2>18 DEF RestoreOld, Release
  <2>19. CASE Send(p) BY <2>19 DEF Send
  <2>20. CASE SendDone(p) BY <2>20 DEF SendDone, Exit, ReleaseAll
  <2>21. CASE Direct(p) BY <2>21 DEF Direct, Exit, ReleaseAll
  <2>22. CASE OpenFails(p) BY <2>22 DEF OpenFails, Release
  <2>23. CASE LockKeyFails(p) BY <2>23 DEF LockKeyFails
  <2>24. CASE RedirectFails(p) BY <2>24 DEF RedirectFails
  <2>25. CASE FillFails(p) BY <2>25 DEF FillFails
  <2>26. CASE SendFails(p) BY <2>26 DEF SendFails, Exit, ReleaseAll
  <2>27. CASE Crash(p) BY <2>27 DEF Crash, Exit, ReleaseAll
  <2> QED BY <1>3, <2>1, <2>2, <2>3, <2>4, <2>5, <2>6, <2>7, <2>8, <2>9, <2>10,
             <2>11, <2>12, <2>13, <2>14, <2>15, <2>16, <2>17, <2>18, <2>19,
             <2>20, <2>21, <2>22, <2>23, <2>24, <2>25, <2>26, <2>27 DEF Step, Fail
<1> QED BY <1>1, <1>2, <1>3 DEF Next

\* So does every file that is open for reading, replaced in the meantime or not.
LEMMA ReaderPagesStep ==
    ASSUME TypeOK, FdOK, OwnerOK, NamesOK, Clean, Clean', LockLinked, ReadNotLocked,
       WriterPages, SlotPages, ReaderPages, [Next]_vars
    PROVE  ReaderPages'
<1> USE DEF TypeOK, FdOK, OwnerOK, NamesOK, Clean, Locked, Unpublished, MySlot,
   LockLinked, ReadNotLocked, ReaderPages, PageFile, StartsWithPage
<1>1. CASE UNCHANGED vars
  BY <1>1 DEF vars
<1>2. CASE Tick
  BY <1>2 DEF Tick, local, response
<1>3. ASSUME NEW p \in Proc, Step(p) \/ Fail(p) PROVE ReaderPages'
  <2> USE DEF fs, local, response, Goto, NoLock
  <2>1. CASE Request(p) BY <2>1 DEF Request
  <2>2. CASE Open(p) BY <2>2, SlotAssumption, NoneAssumption DEF Open, SlotPages
  <2>3. CASE Fstat(p) BY <2>3 DEF Fstat
  <2>4. CASE ReadHit(p) BY <2>4 DEF ReadHit
  <2>5. CASE ReadMiss(p) BY <2>5 DEF ReadMiss, Release
  <2>6. CASE LockOpen(p)
    BY <2>6, SlotAssumption, NoneAssumption DEF LockOpen, Unused
  <2>7. CASE LockSet(p) BY <2>7 DEF LockSet
  <2>8. CASE LockBusy(p) BY <2>8 DEF LockBusy
  <2>9. CASE LockKey(p)
    <3>1. \A q \in Proc : cache_fd[q] # None => file'[cache_fd[q]] = file[cache_fd[q]]
      BY <2>9, ReadUntouched
    <3> QED BY <3>1, <2>9, NoneAssumption DEF LockKey
  <2>10. CASE CheckModified(p) BY <2>10 DEF CheckModified
  <2>11. CASE Redirect(p) BY <2>11 DEF Redirect
  <2>12. CASE Fill(p)
    <3>1. \A q \in Proc : cache_fd[q] # None => file'[cache_fd[q]] = file[cache_fd[q]]
      BY <2>12, ReadUntouched
    <3> QED BY <3>1, <2>12, NoneAssumption DEF Fill
  <2>13. CASE FillOpensFilter(p) BY <2>13 DEF FillOpensFilter, Release
  <2>14. CASE FillDone(p) BY <2>14 DEF FillDone
  <2>15. CASE Publish(p)
    <3>1. PageFile(lock_fd[p]) /\ file[lock_fd[p]].key = key[p]
      BY <2>15, PublishedPage DEF Publish, WriterPages, WriterPage
    <3>2. lock_name[MySlot(p)] = lock_fd[p] /\ lock_fd[p] \in Inode
      BY <2>15 DEF Publish
    <3> QED BY <3>1, <3>2, <2>15, SlotAssumption, NoneAssumption DEF Publish
  <2>16. CASE RestoreNew(p) BY <2>16 DEF RestoreNew, Release
  <2>17. CASE Prune(p) BY <2>17 DEF Prune
  <2>18. CASE RestoreOld(p) BY <2>18 DEF RestoreOld, Release
  <2>19. CASE Send(p) BY <2>19 DEF Send
  <2>20. CASE SendDone(p) BY <2>20 DEF SendDone, Exit, ReleaseAll
  <2>21. CASE Direct(p) BY <2>21 DEF Direct, Exit, ReleaseAll
  <2>22. CASE OpenFails(p) BY <2>22 DEF OpenFails, Release
  <2>23. CASE LockKeyFails(p) BY <2>23 DEF LockKeyFails
  <2>24. CASE RedirectFails(p) BY <2>24 DEF RedirectFails
  <2>25. CASE FillFails(p) BY <2>25 DEF FillFails
  <2>26. CASE SendFails(p) BY <2>26 DEF SendFails, Exit, ReleaseAll
  <2>27. CASE Crash(p) BY <2>27 DEF Crash, Exit, ReleaseAll
  <2> QED BY <1>3, <2>1, <2>2, <2>3, <2>4, <2>5, <2>6, <2>7, <2>8, <2>9, <2>10,
             <2>11, <2>12, <2>13, <2>14, <2>15, <2>16, <2>17, <2>18, <2>19,
             <2>20, <2>21, <2>22, <2>23, <2>24, <2>25, <2>26, <2>27 DEF Step, Fail
<1> QED BY <1>1, <1>2, <1>3 DEF Next

\* cache_st keeps describing the file that will be sent.
LEMMA ReaderStatStep ==
    ASSUME TypeOK, FdOK, OwnerOK, NamesOK, Clean, Clean', LockLinked, ReadNotLocked,
       WriterPages, ReaderStat, [Next]_vars
    PROVE  ReaderStat'
<1> USE DEF TypeOK, FdOK, OwnerOK, NamesOK, Clean, Locked, Unpublished, MySlot,
   LockLinked, ReadNotLocked, ReaderStat, Sending
<1>1. CASE UNCHANGED vars
  BY <1>1 DEF vars
<1>2. CASE Tick
  BY <1>2 DEF Tick, local, response
<1>3. ASSUME NEW p \in Proc, Step(p) \/ Fail(p) PROVE ReaderStat'
  <2> USE DEF fs, local, response, Goto, NoLock
  <2>1. CASE Request(p) BY <2>1 DEF Request
  <2>2. CASE Open(p) BY <2>2 DEF Open
  <2>3. CASE Fstat(p) BY <2>3, NoneAssumption DEF Fstat, StatOf
  <2>4. CASE ReadHit(p) BY <2>4 DEF ReadHit
  <2>5. CASE ReadMiss(p) BY <2>5 DEF ReadMiss, Release
  <2>6. CASE LockOpen(p)
    BY <2>6, SlotAssumption, NoneAssumption DEF LockOpen, Unused, Size
  <2>7. CASE LockSet(p) BY <2>7 DEF LockSet
  <2>8. CASE LockBusy(p) BY <2>8 DEF LockBusy
  <2>9. CASE LockKey(p)
    <3>1. \A q \in Proc : cache_fd[q] # None => file'[cache_fd[q]] = file[cache_fd[q]]
      BY <2>9, ReadUntouched
    <3> QED BY <3>1, <2>9, NoneAssumption DEF LockKey
  <2>10. CASE CheckModified(p) BY <2>10 DEF CheckModified
  <2>11. CASE Redirect(p) BY <2>11 DEF Redirect
  <2>12. CASE Fill(p)
    <3>1. \A q \in Proc : cache_fd[q] # None => file'[cache_fd[q]] = file[cache_fd[q]]
      BY <2>12, ReadUntouched
    <3> QED BY <3>1, <2>12, NoneAssumption DEF Fill
  <2>13. CASE FillOpensFilter(p) BY <2>13 DEF FillOpensFilter, Release
  <2>14. CASE FillDone(p) BY <2>14 DEF FillDone
  <2>15. CASE Publish(p)
    BY <2>15, SlotAssumption, NoneAssumption DEF Publish, WriterPages, WriterPage
  <2>16. CASE RestoreNew(p) BY <2>16 DEF RestoreNew, Release
  <2>17. CASE Prune(p) BY <2>17 DEF Prune
  <2>18. CASE RestoreOld(p) BY <2>18 DEF RestoreOld, Release
  <2>19. CASE Send(p) BY <2>19 DEF Send
  <2>20. CASE SendDone(p) BY <2>20 DEF SendDone, Exit, ReleaseAll
  <2>21. CASE Direct(p) BY <2>21 DEF Direct, Exit, ReleaseAll
  <2>22. CASE OpenFails(p) BY <2>22 DEF OpenFails, Release
  <2>23. CASE LockKeyFails(p) BY <2>23 DEF LockKeyFails
  <2>24. CASE RedirectFails(p) BY <2>24 DEF RedirectFails
  <2>25. CASE FillFails(p) BY <2>25 DEF FillFails
  <2>26. CASE SendFails(p) BY <2>26 DEF SendFails, Exit, ReleaseAll
  <2>27. CASE Crash(p) BY <2>27 DEF Crash, Exit, ReleaseAll
  <2> QED BY <1>3, <2>1, <2>2, <2>3, <2>4, <2>5, <2>6, <2>7, <2>8, <2>9, <2>10,
             <2>11, <2>12, <2>13, <2>14, <2>15, <2>16, <2>17, <2>18, <2>19,
             <2>20, <2>21, <2>22, <2>23, <2>24, <2>25, <2>26, <2>27 DEF Step, Fail
<1> QED BY <1>1, <1>2, <1>3 DEF Next

\* The lock file holds what its owner has written: nobody else writes to it.
LEMMA WriterPagesStep ==
    ASSUME TypeOK, FdOK, OwnerOK, NamesOK, Clean, Clean', LockLinked, WriterPages,
       [Next]_vars
    PROVE  WriterPages'
<1> USE DEF TypeOK, FdOK, OwnerOK, NamesOK, Clean, Locked, Unpublished, MySlot,
   LockLinked, WriterPages, WriterPage, MyChunk
<1>1. CASE UNCHANGED vars
  BY <1>1 DEF vars
<1>2. CASE Tick
  <2>1. ASSUME NEW q \in Proc PROVE WriterPage(q)'
    BY <1>2, <2>1 DEF Tick, local, response
  <2> QED BY <2>1
<1>3. ASSUME NEW p \in Proc, Step(p) \/ Fail(p) PROVE WriterPages'
  <2> USE DEF fs, local, response, Goto, NoLock
  <2>1. CASE Request(p) BY <2>1 DEF Request
  <2>2. CASE Open(p) BY <2>2 DEF Open
  <2>3. CASE Fstat(p) BY <2>3 DEF Fstat
  <2>4. CASE ReadHit(p) BY <2>4 DEF ReadHit
  <2>5. CASE ReadMiss(p) BY <2>5 DEF ReadMiss, Release
  <2>6. CASE LockOpen(p)
    BY <2>6, SlotAssumption, NoneAssumption DEF LockOpen, Unused, Size
  <2>7. CASE LockSet(p) BY <2>7 DEF LockSet
  <2>8. CASE LockBusy(p) BY <2>8 DEF LockBusy
  <2>9. CASE LockKey(p)
    BY <2>9, SlotAssumption, NoneAssumption DEF LockKey, WriteKey
  <2>10. CASE CheckModified(p) BY <2>10 DEF CheckModified
  <2>11. CASE Redirect(p)
    <3>1. page'[p] \in Pos /\ written'[p] = 0 /\ pc'[p] = "fill"
      BY <2>11 DEF Redirect
    <3>2. 0 <= page'[p] /\ 0 <= file[lock_fd[p]].len
      BY <3>1, <2>11, LenType, BoundAssumption DEF Redirect, Pos
    <3>3. \A j \in 1 .. written'[p] : FALSE
      BY <3>1
    <3>4. WriterPage(p)'
      BY <3>1, <3>2, <3>3, <2>11 DEF Redirect
    <3>5. ASSUME NEW q \in Proc, q # p PROVE WriterPage(q)'
      BY <3>5, <2>11 DEF Redirect
    <3> QED BY <3>4, <3>5
  <2>12. CASE Fill(p)
    <3>1. /\ lock_fd[p] \in Inode
          /\ written[p] \in Nat /\ written[p] + 1 \in Pos
          /\ file[lock_fd[p]] \in File
      BY <2>12, BoundAssumption DEF Fill, Pos
    <3>2. ASSUME NEW q \in Proc, q # p, pc[q] \in Locked
          PROVE  file'[lock_fd[q]] = file[lock_fd[q]]
      BY <3>2, <2>12 DEF Fill
    <3>3. file'[lock_fd[p]] = Overwrite(file[lock_fd[p]], written[p] + 1,
       MyChunk(p))
      BY <2>12, <3>1 DEF Fill
    <3>4. /\ file'[lock_fd[p]].key = key[p]
          /\ written[p] + 1 <= file'[lock_fd[p]].len
          /\ file'[lock_fd[p]].body =
                [file[lock_fd[p]].body EXCEPT ![written[p] + 1] = MyChunk(p)]
      BY <2>12, <3>1, <3>3, BoundAssumption DEF Fill, Overwrite, File
    <3>5. \A j \in 1 .. written[p] + 1 : file'[lock_fd[p]].body[j] = MyChunk(p)
      BY <2>12, <3>1, <3>4, BoundAssumption DEF Fill, File, Cells, Pos
    <3>6. written'[p] = written[p] + 1 /\ written'[p] <= page[p]
      BY <2>12, <3>1, BoundAssumption DEF Fill, Pos
    <3>7. WriterPage(p)'
      BY <3>1, <3>4, <3>5, <3>6, <2>12 DEF Fill
    <3>8. ASSUME NEW q \in Proc, q # p PROVE WriterPage(q)'
      BY <3>2, <3>8, <2>12 DEF Fill
    <3> QED BY <3>7, <3>8
  <2>13. CASE FillOpensFilter(p) BY <2>13 DEF FillOpensFilter, Release
  <2>14. CASE FillDone(p) BY <2>14 DEF FillDone, StatOf
  <2>15. CASE Publish(p) BY <2>15 DEF Publish
  <2>16. CASE RestoreNew(p) BY <2>16 DEF RestoreNew, Release
  <2>17. CASE Prune(p) BY <2>17 DEF Prune
  <2>18. CASE RestoreOld(p) BY <2>18 DEF RestoreOld, Release
  <2>19. CASE Send(p) BY <2>19 DEF Send
  <2>20. CASE SendDone(p) BY <2>20 DEF SendDone, Exit, ReleaseAll
  <2>21. CASE Direct(p) BY <2>21 DEF Direct, Exit, ReleaseAll
  <2>22. CASE OpenFails(p) BY <2>22 DEF OpenFails, Release
  <2>23. CASE LockKeyFails(p) BY <2>23 DEF LockKeyFails
  <2>24. CASE RedirectFails(p) BY <2>24 DEF RedirectFails
  <2>25. CASE FillFails(p) BY <2>25 DEF FillFails
  <2>26. CASE SendFails(p) BY <2>26 DEF SendFails, Exit, ReleaseAll
  <2>27. CASE Crash(p) BY <2>27 DEF Crash, Exit, ReleaseAll
  <2> QED BY <1>3, <2>1, <2>2, <2>3, <2>4, <2>5, <2>6, <2>7, <2>8, <2>9, <2>10,
             <2>11, <2>12, <2>13, <2>14, <2>15, <2>16, <2>17, <2>18, <2>19,
             <2>20, <2>21, <2>22, <2>23, <2>24, <2>25, <2>26, <2>27 DEF Step, Fail
<1> QED BY <1>1, <1>2, <1>3 DEF Next

\* What has been sent is a prefix of the file that is read, and in the end all of
\* it.
LEMMA SentStep ==
    ASSUME TypeOK, FdOK, OwnerOK, NamesOK, Clean, Clean', LockLinked, ReadNotLocked,
       ReaderPages, ReaderStat, SentOK, [Next]_vars
    PROVE  SentOK'
<1> USE DEF TypeOK, FdOK, OwnerOK, NamesOK, Clean, Locked, Unpublished, MySlot,
   LockLinked, ReadNotLocked, SentOK, StartsWithPage
<1>1. CASE UNCHANGED vars
  BY <1>1 DEF vars
<1>2. CASE Tick
  BY <1>2 DEF Tick, local, response
<1>3. ASSUME NEW p \in Proc, Step(p) \/ Fail(p) PROVE SentOK'
  <2> USE DEF fs, local, response, Goto, NoLock
  <2>1. CASE Request(p) BY <2>1 DEF Request
  <2>2. CASE Open(p) BY <2>2 DEF Open
  <2>3. CASE Fstat(p) BY <2>3 DEF Fstat
  <2>4. CASE ReadHit(p) BY <2>4, LenType DEF ReadHit
  <2>5. CASE ReadMiss(p) BY <2>5 DEF ReadMiss, Release
  <2>6. CASE LockOpen(p)
    <3>1. ASSUME NEW q \in Proc, cache_fd[q] # None
          PROVE  file'[cache_fd[q]] = file[cache_fd[q]]
      BY <3>1, <2>6 DEF LockOpen, Unused
    <3>2. ASSUME pc'[p] = "print"
          PROVE  cache_fd[p] \in Inode /\ 0 <= file'[cache_fd[p]].len
      BY <3>1, <3>2, <2>6, LenType, NoneAssumption DEF LockOpen
    <3>3. \A q \in Proc : pc[q] = "print" => cache_fd[q] # None
      BY NoneAssumption
    <3> QED BY <3>1, <3>2, <3>3, <2>6 DEF LockOpen
  <2>7. CASE LockSet(p) BY <2>7 DEF LockSet
  <2>8. CASE LockBusy(p) BY <2>8, LenType DEF LockBusy
  <2>9. CASE LockKey(p)
    <3>1. \A q \in Proc : cache_fd[q] # None => file'[cache_fd[q]] = file[cache_fd[q]]
      BY <2>9, ReadUntouched
    <3>2. \A q \in Proc : pc[q] = "print" => cache_fd[q] # None
      BY NoneAssumption
    <3>3. ASSUME NEW q \in Proc, pc'[q] = "print"
          PROVE  pc[q] = "print" /\ file'[cache_fd[q]] = file[cache_fd[q]]
      BY <3>1, <3>2, <3>3, <2>9 DEF LockKey
    <3> QED BY <3>3, <2>9 DEF LockKey
  <2>10. CASE CheckModified(p) BY <2>10 DEF CheckModified
  <2>11. CASE Redirect(p) BY <2>11 DEF Redirect
  <2>12. CASE Fill(p)
    <3>1. \A q \in Proc : cache_fd[q] # None => file'[cache_fd[q]] = file[cache_fd[q]]
      BY <2>12, ReadUntouched
    <3>2. \A q \in Proc : pc[q] = "print" => cache_fd[q] # None
      BY NoneAssumption
    <3>3. ASSUME NEW q \in Proc, pc'[q] = "print"
          PROVE  pc[q] = "print" /\ file'[cache_fd[q]] = file[cache_fd[q]]
      BY <3>1, <3>2, <3>3, <2>12 DEF Fill
    <3> QED BY <3>3, <2>12 DEF Fill
  <2>13. CASE FillOpensFilter(p) BY <2>13 DEF FillOpensFilter, Release
  <2>14. CASE FillDone(p) BY <2>14 DEF FillDone
  <2>15. CASE Publish(p) BY <2>15 DEF Publish
  <2>16. CASE RestoreNew(p) BY <2>16, LenType DEF RestoreNew, Release
  <2>17. CASE Prune(p) BY <2>17 DEF Prune
  <2>18. CASE RestoreOld(p) BY <2>18, LenType DEF RestoreOld, Release
  <2>19. CASE Send(p)
    <3>1. /\ cache_fd[p] \in Inode
          /\ sent[p] \in Nat /\ sent[p] + 1 \in Pos
          /\ sent[p] + 1 <= file[cache_fd[p]].len
      BY <2>19, LenType, BoundAssumption DEF Send, Pos
    <3>2. out'[p] = [out[p] EXCEPT ![sent[p] + 1] = file[cache_fd[p]].body[sent[p] + 1]]
      BY <2>19 DEF Send
    <3>3. ASSUME NEW j \in 1 .. sent[p] + 1
          PROVE  out'[p][j] = file[cache_fd[p]].body[j]
      <4>1. CASE j = sent[p] + 1
        BY <4>1, <3>1, <3>2 DEF Cells
      <4>2. CASE j # sent[p] + 1
        <5>1. j \in 1 .. sent[p] /\ j \in Pos
          BY <4>2, <3>1, BoundAssumption DEF Pos
        <5>2. out'[p][j] = out[p][j]
          BY <5>1, <4>2, <3>2 DEF Cells
        <5> QED BY <5>1, <5>2, <2>19 DEF Send
      <4> QED BY <4>1, <4>2
    <3> QED BY <3>1, <3>3, <2>19 DEF Send
  <2>20. CASE SendDone(p)
    <3> DEFINE f == file[cache_fd[p]]
    <3>1. /\ cache_fd[p] \in Inode
          /\ cache_fd[p] # None
          /\ sent[p] \in Nat
          /\ f.len \in 0 .. MaxLen
      BY <2>20, LenType, NoneAssumption, BoundAssumption DEF SendDone
    <3>2. f.key = key[p] /\ cache_st[p].size = Size(f)
      BY <2>20 DEF SendDone, ReaderStat, Sending
    <3>3. StartsWithPage(f.body, f.len, key[p])
      BY <3>1, <3>2 DEF ReaderPages, PageFile
    <3>4. sent[p] = f.len
      BY <2>20, <3>1, <3>2, NoneAssumption, BoundAssumption DEF SendDone, SendEnd,
         Size
    <3>5. \A j \in 1 .. f.len : out[p][j] = f.body[j]
      BY <2>20, <3>4 DEF SendDone
    <3>6. /\ f.len >= 1 /\ f.body[1] \in Chunk
          /\ f.body[1].of \in Pos /\ f.body[1].of <= f.len
          /\ out[p][1] = f.body[1]
      BY <3>1, <3>3, <3>5, BoundAssumption DEF Chunk, Pos
    <3>7. \A j \in 1 .. f.body[1].of : j \in 1 .. f.len
      BY <3>1, <3>6, BoundAssumption DEF Pos
    <3>8. StartsWithPage(out[p], sent[p], key[p])
      BY <3>3, <3>4, <3>5, <3>6, <3>7
    <3> QED BY <3>8, <2>20 DEF SendDone, Exit, ReleaseAll
  <2>21. CASE Direct(p)
    BY <2>21, BoundAssumption DEF Direct, Exit, ReleaseAll, PageOf, Pos, Chunk
  <2>22. CASE OpenFails(p) BY <2>22 DEF OpenFails, Release
  <2>23. CASE LockKeyFails(p) BY <2>23, LenType DEF LockKeyFails
  <2>24. CASE RedirectFails(p) BY <2>24 DEF RedirectFails
  <2>25. CASE FillFails(p) BY <2>25 DEF FillFails
  <2>26. CASE SendFails(p) BY <2>26 DEF SendFails, Exit, ReleaseAll
  <2>27. CASE Crash(p) BY <2>27 DEF Crash, Exit, ReleaseAll
  <2> QED BY <1>3, <2>1, <2>2, <2>3, <2>4, <2>5, <2>6, <2>7, <2>8, <2>9, <2>10,
             <2>11, <2>12, <2>13, <2>14, <2>15, <2>16, <2>17, <2>18, <2>19,
             <2>20, <2>21, <2>22, <2>23, <2>24, <2>25, <2>26, <2>27 DEF Step, Fail
<1> QED BY <1>1, <1>2, <1>3 DEF Next

\* While an owner generates its page, nobody replaces the slot.
LEMMA RefreshStep ==
    ASSUME TypeOK, FdOK, OwnerOK, NamesOK, Clean, Clean', LockLinked, RefreshOK,
       [Next]_vars
    PROVE  RefreshOK'
<1> USE DEF TypeOK, FdOK, OwnerOK, NamesOK, Clean, Locked, Unpublished, MySlot,
   LockLinked, RefreshOK
<1>1. CASE UNCHANGED vars
  BY <1>1 DEF vars
<1>2. CASE Tick
  BY <1>2 DEF Tick, local, response
<1>3. ASSUME NEW p \in Proc, Step(p) \/ Fail(p) PROVE RefreshOK'
  <2> USE DEF fs, local, response, Goto, NoLock
  <2>1. CASE Request(p) BY <2>1 DEF Request
  <2>2. CASE Open(p) BY <2>2 DEF Open
  <2>3. CASE Fstat(p) BY <2>3 DEF Fstat, StatOf
  <2>4. CASE ReadHit(p) BY <2>4 DEF ReadHit
  <2>5. CASE ReadMiss(p) BY <2>5 DEF ReadMiss, Release
  <2>6. CASE LockOpen(p) BY <2>6, SlotAssumption, NoneAssumption DEF LockOpen
  <2>7. CASE LockSet(p) BY <2>7 DEF LockSet
  <2>8. CASE LockBusy(p) BY <2>8 DEF LockBusy
  <2>9. CASE LockKey(p) BY <2>9 DEF LockKey
  <2>10. CASE CheckModified(p) BY <2>10 DEF CheckModified, StatOf
  <2>11. CASE Redirect(p) BY <2>11 DEF Redirect
  <2>12. CASE Fill(p) BY <2>12 DEF Fill
  <2>13. CASE FillOpensFilter(p) BY <2>13 DEF FillOpensFilter, Release
  <2>14. CASE FillDone(p) BY <2>14 DEF FillDone
  <2>15. CASE Publish(p)
    <3>1. ASSUME NEW q \in Proc, q # p, pc[q] \in {"redirect", "fill", "publish"}
          PROVE  MySlot(q) # MySlot(p)
      BY <3>1, <2>15 DEF Publish
    <3> QED BY <3>1, <2>15, SlotAssumption DEF Publish
  <2>16. CASE RestoreNew(p) BY <2>16 DEF RestoreNew, Release
  <2>17. CASE Prune(p) BY <2>17 DEF Prune
  <2>18. CASE RestoreOld(p) BY <2>18 DEF RestoreOld, Release
  <2>19. CASE Send(p) BY <2>19 DEF Send
  <2>20. CASE SendDone(p) BY <2>20 DEF SendDone, Exit, ReleaseAll
  <2>21. CASE Direct(p) BY <2>21 DEF Direct, Exit, ReleaseAll
  <2>22. CASE OpenFails(p) BY <2>22 DEF OpenFails, Release
  <2>23. CASE LockKeyFails(p) BY <2>23 DEF LockKeyFails
  <2>24. CASE RedirectFails(p) BY <2>24 DEF RedirectFails
  <2>25. CASE FillFails(p) BY <2>25 DEF FillFails
  <2>26. CASE SendFails(p) BY <2>26 DEF SendFails, Exit, ReleaseAll
  <2>27. CASE Crash(p) BY <2>27 DEF Crash, Exit, ReleaseAll
  <2> QED BY <1>3, <2>1, <2>2, <2>3, <2>4, <2>5, <2>6, <2>7, <2>8, <2>9, <2>10,
             <2>11, <2>12, <2>13, <2>14, <2>15, <2>16, <2>17, <2>18, <2>19,
             <2>20, <2>21, <2>22, <2>23, <2>24, <2>25, <2>26, <2>27 DEF Step, Fail
<1> QED BY <1>1, <1>2, <1>3 DEF Next

-----------------------------------------------------------------------------
(* The invariant *)

THEOREM IInvInit == Init => IInv
<1> SUFFICES ASSUME Init PROVE IInv
  OBVIOUS
<1>1. TypeOK /\ FdOK
  BY TypeInit DEF TypeInv
<1>2. OwnerOK /\ LockLinked /\ ReadNotLocked /\ ReaderPages /\ ReaderStat
      /\ WriterPages /\ RefreshOK /\ SentOK
  BY DEF Init, OwnerOK, LockLinked, ReadNotLocked, ReaderPages, ReaderStat, WriterPages,
         WriterPage, RefreshOK, SentOK, Locked, Unpublished, Sending
<1>3. NamesOK /\ SlotPages
  <2>1. CASE cache_name = [s \in Slot |-> None]
    BY <2>1 DEF Init, NamesOK, SlotPages
  <2>2. CASE \E k \in Key, i \in Inode, n \in Pos :
                /\ cache_name = [s \in Slot |-> IF s = SlotOf[k] THEN i ELSE None]
                /\ file = [[j \in Inode |-> EmptyFile(0)] EXCEPT
                              ![i] = [key |-> k, body |-> PageOf(Past, k, n),
                                      len |-> n, mtime |-> 0]]
    <3>1. PICK k \in Key, i \in Inode, n \in Pos :
                /\ cache_name = [s \in Slot |-> IF s = SlotOf[k] THEN i ELSE None]
                /\ file = [[j \in Inode |-> EmptyFile(0)] EXCEPT
                              ![i] = [key |-> k, body |-> PageOf(Past, k, n),
                                      len |-> n, mtime |-> 0]]
      BY <2>2
    <3>2. file[i] = [key |-> k, body |-> PageOf(Past, k, n), len |-> n, mtime |-> 0]
      BY <3>1
    <3>3. StartsWithPage(PageOf(Past, k, n), n, k)
      BY BoundAssumption DEF StartsWithPage, PageOf, Chunk, Pos
    <3>4. PageFile(i) /\ file[i].key = k
      BY <3>2, <3>3 DEF PageFile
    <3> QED BY <3>1, <3>4, SlotAssumption, NoneAssumption DEF Init, NamesOK, SlotPages
  <2> QED BY <2>1, <2>2 DEF Init, InitCache
<1>4. SendOK
  BY DEF Init, SendOK
<1> QED BY <1>1, <1>2, <1>3, <1>4 DEF IInv, CleanInv

\* What has gone wrong stays on record.
LEMMA CleanBefore ==
    ASSUME [Next]_vars, Clean'
    PROVE  Clean
<1>1. CASE UNCHANGED vars
  BY <1>1 DEF vars, Clean
<1>2. CASE Tick
  BY <1>2 DEF Tick, Clean
<1>3. ASSUME NEW p \in Proc, Step(p) \/ Fail(p) PROVE Clean
  BY <1>3 DEF Clean, Step, Fail, Request, Open, Fstat, ReadHit, ReadMiss, LockOpen,
       LockSet, LockBusy, LockKey, CheckModified, Redirect, Fill, FillOpensFilter,
       FillDone, Publish, RestoreNew, Prune, RestoreOld, Send, SendDone, Direct,
       OpenFails, LockKeyFails, RedirectFails, FillFails, SendFails, Crash, Exit
<1> QED BY <1>1, <1>2, <1>3 DEF Next

THEOREM IInvStep == IInv /\ [Next]_vars => IInv'
<1> SUFFICES ASSUME IInv, [Next]_vars PROVE IInv'
  OBVIOUS
<1>1. TypeOK' /\ FdOK'
  BY TypeStep DEF IInv, TypeInv
<1>2. OwnerOK' /\ NamesOK' /\ SendOK'
  BY OwnerStep, NamesStep, SendStep DEF IInv
<1>3. ASSUME Clean' PROVE CleanInv'
  <2>1. Clean
    BY <1>3, CleanBefore
  <2>2. TypeOK /\ FdOK /\ OwnerOK /\ NamesOK /\ CleanInv
    BY <2>1 DEF IInv
  <2> USE <1>3, <2>1, <2>2 DEF CleanInv
  <2>3. LockLinked' /\ ReadNotLocked'
    BY LinkedStep, ReadNotLockedStep
  <2>4. SlotPages' /\ ReaderPages'
    BY SlotPagesStep, ReaderPagesStep
  <2>5. ReaderStat' /\ WriterPages'
    BY ReaderStatStep, WriterPagesStep
  <2>6. RefreshOK' /\ SentOK'
    BY RefreshStep, SentStep
  <2> QED BY <2>3, <2>4, <2>5, <2>6
<1> QED BY <1>1, <1>2, <1>3 DEF IInv

THEOREM Invariance == Spec => []IInv
<1> QED BY IInvInit, IInvStep, PTL DEF Spec

-----------------------------------------------------------------------------
(* The properties *)

\* Type correctness: every variable keeps its type, for all constants.
THEOREM TypeCorrect == Spec => []TypeOK
<1>1. IInv => TypeOK
  BY DEF IInv
<1> QED BY <1>1, Invariance, PTL

\* cache_lock_slot excludes writers: two processes between the lock and its
\* release hold different inodes, even when they came to the lock file late.
THEOREM Exclusion == Spec => []WriterExclusion
<1>1. IInv => WriterExclusion
  BY DEF IInv, OwnerOK, WriterExclusion
<1> QED BY <1>1, Invariance, PTL

\* A published file begins with a whole page for a key of its slot, whatever
\* crashes or fails while it is generated.
THEOREM SlotSafety == Spec => []SlotHoldsPage
<1>1. IInv => SlotHoldsPage
  BY NoneAssumption DEF IInv, CleanInv, SlotPages, PageFile, SlotHoldsPage
<1> QED BY <1>1, Invariance, PTL

\* A request that is answered gets a whole page for its own key.
THEOREM ResponseSafety == Spec => []ServesOwnPage
<1>1. IInv => ServesOwnPage
  BY DEF IInv, CleanInv, SentOK, ServesOwnPage
<1> QED BY <1>1, Invariance, PTL

\* stdout is the client's again before anything is sent.
THEOREM StdoutSafety == Spec => []StdoutRestored
<1>1. IInv => StdoutRestored
  BY DEF IInv, SendOK, TypeOK, StdoutRestored
<1> QED BY <1>1, Invariance, PTL

\* Nobody holds a lock while it sends its response or after it has ended.
THEOREM LockReleased == Spec => []LockNotHeldWhileSending
<1>1. IInv => LockNotHeldWhileSending
  BY DEF IInv, SendOK, LockNotHeldWhileSending
<1> QED BY <1>1, Invariance, PTL

\* No step writes to a published file.
THEOREM PublishedStays == Spec => PublishedImmutable
<1> DEFINE Stays == Clean' => \A s \in Slot :
              cache_name[s] # None => file'[cache_name[s]] = file[cache_name[s]]
<1>1. ASSUME IInv, [Next]_vars PROVE [Stays]_vars
  <2> SUFFICES ASSUME Clean', NEW s \in Slot, cache_name[s] # None
               PROVE  file'[cache_name[s]] = file[cache_name[s]]
    OBVIOUS
  <2>1. Clean
    BY <1>1, CleanBefore
  <2>2. TypeOK /\ FdOK /\ NamesOK /\ LockLinked
    BY <1>1, <2>1 DEF IInv, CleanInv
  <2>3. CASE UNCHANGED vars \/ Tick
    BY <2>3 DEF vars, Tick
  <2>4. ASSUME NEW p \in Proc, Step(p) \/ Fail(p)
        PROVE  file'[cache_name[s]] = file[cache_name[s]]
    <3>1. CASE LockOpen(p)
      BY <2>2, <3>1 DEF LockOpen, Unused, TypeOK
    <3>2. CASE LockKey(p) \/ Fill(p)
      BY <2>2, <3>2, PublishedUntouched
    <3>3. CASE UNCHANGED file
      BY <3>3
    <3> QED BY <2>4, <3>1, <3>2, <3>3 DEF Step, Fail, fs, Request, Open, Fstat, ReadHit,
              ReadMiss, LockSet, LockBusy, CheckModified, Redirect, FillOpensFilter,
              FillDone, Publish, RestoreNew, Prune, RestoreOld, Send, SendDone, Direct,
              OpenFails, LockKeyFails, RedirectFails, FillFails, SendFails, Crash, Exit
  <2> QED BY <1>1, <2>3, <2>4 DEF Next
<1> QED BY <1>1, Invariance, PTL DEF Spec, PublishedImmutable

\* What a rename publishes is the file its process filled, in place of the very
\* page it opened.
THEOREM PublishesOwn == Spec => PublishesOwnFile
<1> DEFINE Own == Clean' => \A s \in Slot :
          cache_name'[s] # cache_name[s] =>
              \E p \in Proc :
                  /\ pc[p] = "publish"
                  /\ cache_name'[s] = lock_fd[p]
                  /\ match[p] => cache_name[s] = cache_fd[p]
<1>1. ASSUME IInv, [Next]_vars PROVE [Own]_vars
  <2> SUFFICES ASSUME Clean', NEW s \in Slot, cache_name'[s] # cache_name[s]
               PROVE  \E p \in Proc :
                         /\ pc[p] = "publish"
                         /\ cache_name'[s] = lock_fd[p]
                         /\ match[p] => cache_name[s] = cache_fd[p]
    OBVIOUS
  <2>1. Clean
    BY <1>1, CleanBefore
  <2>2. TypeOK /\ LockLinked /\ RefreshOK
    BY <1>1, <2>1 DEF IInv, CleanInv
  <2>3. CASE UNCHANGED cache_name
    BY <2>3
  <2>4. ASSUME NEW p \in Proc, Publish(p)
        PROVE  \E q \in Proc :
                  /\ pc[q] = "publish"
                  /\ cache_name'[s] = lock_fd[q]
                  /\ match[q] => cache_name[s] = cache_fd[q]
    <3>1. s = MySlot(p) /\ pc[p] = "publish"
      BY <2>2, <2>4 DEF Publish, TypeOK
    <3>2. cache_name'[s] = lock_fd[p]
      BY <2>2, <2>4, <3>1 DEF Publish, LockLinked, Unpublished, Locked, TypeOK
    <3>3. match[p] => cache_name[s] = cache_fd[p]
      BY <2>2, <3>1 DEF RefreshOK
    <3> QED BY <3>1, <3>2, <3>3
  <2> QED BY <1>1, <2>3, <2>4 DEF Next, vars, Tick, Step, Fail, fs, Request, Open,
            Fstat, ReadHit, ReadMiss, LockOpen, LockSet, LockBusy, LockKey, CheckModified,
            Redirect, Fill, FillOpensFilter, FillDone, RestoreNew, Prune, RestoreOld,
            Send, SendDone, Direct, OpenFails, LockKeyFails, RedirectFails, FillFails,
            SendFails, Crash, Exit
<1> QED BY <1>1, Invariance, PTL DEF Spec, PublishesOwnFile

\* A name that is taken away from a lock file is taken away by the process that
\* holds it: nobody removes the lock file of another process.
THEOREM RemovesOwn == Spec => RemovesOwnLock
<1> DEFINE Own == Clean' => \A s \in Slot :
          lock_name[s] # None /\ lock_name'[s] # lock_name[s] =>
              \E p \in Proc :
                  pc[p] \in {"publish", "prune"} /\ lock_name[s] = lock_fd[p]
<1>1. ASSUME IInv, [Next]_vars PROVE [Own]_vars
  <2> SUFFICES ASSUME Clean', NEW s \in Slot, lock_name[s] # None,
                      lock_name'[s] # lock_name[s]
               PROVE  \E p \in Proc :
                         pc[p] \in {"publish", "prune"} /\ lock_name[s] = lock_fd[p]
    OBVIOUS
  <2>1. Clean
    BY <1>1, CleanBefore
  <2>2. TypeOK /\ LockLinked
    BY <1>1, <2>1 DEF IInv, CleanInv
  <2>3. CASE UNCHANGED lock_name
    BY <2>3
  <2>4. ASSUME NEW p \in Proc, LockOpen(p)
        PROVE  FALSE
    BY <2>2, <2>4 DEF LockOpen, TypeOK
  <2>5. ASSUME NEW p \in Proc, Publish(p) \/ Prune(p)
        PROVE  pc[p] \in {"publish", "prune"} /\ lock_name[s] = lock_fd[p]
    <3>1. s = MySlot(p) /\ pc[p] \in {"publish", "prune"}
      BY <2>2, <2>5 DEF Publish, Prune, TypeOK
    <3> QED BY <2>2, <3>1 DEF LockLinked, Unpublished, Locked
  <2> QED BY <1>1, <2>3, <2>4, <2>5 DEF Next, vars, Tick, Step, Fail, fs, Request, Open,
            Fstat, ReadHit, ReadMiss, LockSet, LockBusy, LockKey, CheckModified,
            Redirect, Fill, FillOpensFilter, FillDone, RestoreNew, RestoreOld,
            Send, SendDone, Direct, OpenFails, LockKeyFails, RedirectFails, FillFails,
            SendFails, Crash, Exit
<1> QED BY <1>1, Invariance, PTL DEF Spec, RemovesOwnLock

-----------------------------------------------------------------------------
(* As long as nothing dies and nothing fails, a client gets one page and   *)
(* nothing after it.  A page is left with the tail of a longer one when a  *)
(* lock file is written to a second time; that it is not rests on when a   *)
(* lock file can be without an owner.                                      *)

\* The steps there are without a failure
QuietStep(p) ==
    \/ Request(p) \/ Open(p) \/ Fstat(p) \/ ReadHit(p) \/ ReadMiss(p)
    \/ LockOpen(p) \/ LockSet(p) \/ LockBusy(p) \/ LockKey(p) \/ CheckModified(p)
    \/ Redirect(p) \/ Fill(p) \/ FillDone(p) \/ Publish(p) \/ RestoreNew(p)
    \/ Prune(p) \/ RestoreOld(p) \/ Send(p) \/ SendDone(p) \/ Direct(p)

\* A filter that drops the lock is a mishap, and every other way to fail is off.
LEMMA QuietSteps ==
    ASSUME [Next]_vars, Clean', ~Crashes, ~Faults
    PROVE  UNCHANGED vars \/ Tick \/ \E p \in Proc : QuietStep(p)
BY DEF Next, Step, Fail, QuietStep, Clean, FillOpensFilter, OpenFails, LockKeyFails,
       RedirectFails, FillFails, SendFails, Crash

\* A lock file that nobody owns has no chunks: its last owner would have renamed or
\* unlinked it.
LEMMA EmptyLocksStep ==
    ASSUME IInv, WholeInv, Clean', ~Crashes, ~Faults, [Next]_vars
    PROVE  EmptyLocks'
<1>1. Clean
  BY CleanBefore
<1>2. TypeOK /\ FdOK /\ OwnerOK /\ SendOK /\ ReadNotLocked /\ EmptyLocks /\ Unlinked
  BY <1>1 DEF IInv, CleanInv, WholeInv
<1> USE <1>2 DEF TypeOK, FdOK, OwnerOK, SendOK, Clean, Locked, EmptyLocks
<1>3. CASE UNCHANGED vars \/ Tick
  BY <1>3 DEF vars, Tick, local, response
<1>4. ASSUME NEW p \in Proc, QuietStep(p)
      PROVE  EmptyLocks'
  <2> USE DEF fs, local, response, Goto, NoLock
  <2>1. CASE Request(p) BY <2>1 DEF Request
  <2>2. CASE Open(p) BY <2>2 DEF Open
  <2>3. CASE Fstat(p) BY <2>3 DEF Fstat
  <2>4. CASE ReadHit(p) BY <2>4 DEF ReadHit
  <2>5. CASE ReadMiss(p)
    BY <2>5 DEF ReadMiss, Release, ReadNotLocked
  <2>6. CASE LockOpen(p)
    BY <2>6, SlotAssumption, NoneAssumption DEF LockOpen, Unused, MySlot, EmptyFile
  <2>7. CASE LockSet(p)
    BY <2>7, NoneAssumption DEF LockSet
  <2>8. CASE LockBusy(p) BY <2>8 DEF LockBusy
  <2>9. CASE LockKey(p)
    BY <2>9, NoneAssumption, <1>1 DEF LockKey
  <2>10. CASE CheckModified(p) BY <2>10 DEF CheckModified
  <2>11. CASE Redirect(p) BY <2>11 DEF Redirect
  <2>12. CASE Fill(p)
    BY <2>12, NoneAssumption, <1>1 DEF Fill
  <2>13. CASE FillDone(p) BY <2>13 DEF FillDone
  <2>14. CASE Publish(p)
    BY <2>14, SlotAssumption DEF Publish, MySlot
  <2>15. CASE RestoreNew(p)
    BY <2>15 DEF RestoreNew, Release, Unlinked
  <2>16. CASE Prune(p)
    BY <2>16, SlotAssumption DEF Prune, MySlot
  <2>17. CASE RestoreOld(p)
    BY <2>17 DEF RestoreOld, Release, Unlinked
  <2>18. CASE Send(p) BY <2>18 DEF Send
  <2>19. CASE SendDone(p) BY <2>19 DEF SendDone, Exit, ReleaseAll
  <2>20. CASE Direct(p) BY <2>20 DEF Direct, Exit, ReleaseAll
    <2> QED BY <1>4, <2>1, <2>2, <2>3, <2>4, <2>5, <2>6, <2>7, <2>8, <2>9, <2>10,
             <2>11, <2>12, <2>13, <2>14, <2>15, <2>16, <2>17, <2>18, <2>19, <2>20
             DEF QuietStep
<1> QED BY <1>3, <1>4, QuietSteps

\* A file that has lost its lock name does not get one again.
LEMMA UnlinkedStep ==
    ASSUME IInv, WholeInv, Clean', ~Crashes, ~Faults, [Next]_vars
    PROVE  Unlinked'
<1>1. Clean
  BY CleanBefore
<1>2. TypeOK /\ FdOK /\ NamesOK /\ LockLinked /\ Unlinked
  BY <1>1 DEF IInv, CleanInv, WholeInv
<1> USE <1>2 DEF TypeOK, FdOK, NamesOK, Locked, Unlinked
<1>3. CASE UNCHANGED vars \/ Tick
  BY <1>3 DEF vars, Tick, local, response
<1>4. ASSUME NEW p \in Proc, QuietStep(p)
      PROVE  Unlinked'
  <2> USE DEF fs, local, response, Goto, NoLock
  <2>1. CASE Request(p) BY <2>1 DEF Request
  <2>2. CASE Open(p) BY <2>2 DEF Open
  <2>3. CASE Fstat(p) BY <2>3 DEF Fstat
  <2>4. CASE ReadHit(p) BY <2>4 DEF ReadHit
  <2>5. CASE ReadMiss(p) BY <2>5 DEF ReadMiss, Release
  <2>6. CASE LockOpen(p)
    <3>1. SUFFICES ASSUME NEW q \in Proc, NEW s \in Slot,
                          pc'[q] \in {"restore_new", "restore_old"}
                   PROVE  lock_name'[s] # lock_fd'[q]
      BY DEF Unlinked
    <3>2. pc'[q] = pc[q] /\ lock_fd'[q] = lock_fd[q]
      BY <2>6, <3>1 DEF LockOpen
    <3>3. lock_name[s] # lock_fd[q]
      BY <3>1, <3>2
    <3>4. CASE lock_name'[s] = lock_name[s]
      BY <3>2, <3>3, <3>4
    <3>5. CASE lock_name'[s] # lock_name[s]
      <4>1. PICK i \in Inode : Unused(i) /\ lock_name' = [lock_name EXCEPT ![MySlot(p)] = i]
        BY <2>6, <3>5 DEF LockOpen
      <4>2. lock_name'[s] = i
        BY <3>5, <4>1
      <4> QED BY <3>2, <4>1, <4>2 DEF Unused
    <3> QED BY <3>4, <3>5
  <2>7. CASE LockSet(p) BY <2>7 DEF LockSet
  <2>8. CASE LockBusy(p) BY <2>8 DEF LockBusy
  <2>9. CASE LockKey(p) BY <2>9 DEF LockKey
  <2>10. CASE CheckModified(p) BY <2>10 DEF CheckModified
  <2>11. CASE Redirect(p) BY <2>11 DEF Redirect
  <2>12. CASE Fill(p) BY <2>12 DEF Fill
  <2>13. CASE FillDone(p) BY <2>13 DEF FillDone
  <2>14. CASE Publish(p)
    BY <2>14, SlotAssumption, NoneAssumption DEF Publish, MySlot, LockLinked, Unpublished
  <2>15. CASE RestoreNew(p) BY <2>15 DEF RestoreNew, Release
  <2>16. CASE Prune(p)
    BY <2>16, SlotAssumption, NoneAssumption DEF Prune, MySlot, LockLinked, Unpublished
  <2>17. CASE RestoreOld(p) BY <2>17 DEF RestoreOld, Release
  <2>18. CASE Send(p) BY <2>18 DEF Send
  <2>19. CASE SendDone(p) BY <2>19 DEF SendDone, Exit, ReleaseAll
  <2>20. CASE Direct(p) BY <2>20 DEF Direct, Exit, ReleaseAll
    <2> QED BY <1>4, <2>1, <2>2, <2>3, <2>4, <2>5, <2>6, <2>7, <2>8, <2>9, <2>10,
             <2>11, <2>12, <2>13, <2>14, <2>15, <2>16, <2>17, <2>18, <2>19, <2>20
             DEF QuietStep
<1> QED BY <1>3, <1>4, QuietSteps

\* The lock file of a writer is as long as what it has written: it was empty when it
\* was locked, and nobody else owns it.
LEMMA WholeWritesStep ==
    ASSUME IInv, WholeInv, Clean', ~Crashes, ~Faults, [Next]_vars
    PROVE  WholeWrites'
<1>1. Clean
  BY CleanBefore
<1>2. TypeOK /\ FdOK /\ OwnerOK /\ EmptyLocks /\ WholeWrites
  BY <1>1 DEF IInv, CleanInv, WholeInv
<1> USE <1>2 DEF TypeOK, FdOK, OwnerOK, Clean, Locked, WholeWrites
<1>3. CASE UNCHANGED vars \/ Tick
  BY <1>3 DEF vars, Tick, local, response
<1>4. ASSUME NEW p \in Proc, QuietStep(p)
      PROVE  WholeWrites'
  <2> USE DEF fs, local, response, Goto, NoLock
  <2>1. CASE Request(p) BY <2>1 DEF Request
  <2>2. CASE Open(p) BY <2>2 DEF Open
  <2>3. CASE Fstat(p) BY <2>3 DEF Fstat
  <2>4. CASE ReadHit(p) BY <2>4 DEF ReadHit
  <2>5. CASE ReadMiss(p) BY <2>5 DEF ReadMiss, Release
  <2>6. CASE LockOpen(p)
    BY <2>6, SlotAssumption, NoneAssumption DEF LockOpen, Unused
  <2>7. CASE LockSet(p)
    BY <2>7, <1>1, SlotAssumption, NoneAssumption DEF LockSet, EmptyLocks, MySlot
  <2>8. CASE LockBusy(p) BY <2>8 DEF LockBusy
  <2>9. CASE LockKey(p)
    BY <2>9, <1>1 DEF LockKey, WriteKey
  <2>10. CASE CheckModified(p) BY <2>10 DEF CheckModified
  <2>11. CASE Redirect(p) BY <2>11 DEF Redirect
  <2>12. CASE Fill(p)
    <3>1. /\ lock_fd[p] \in Inode
          /\ written[p] \in Nat /\ file[lock_fd[p]].len = written[p]
      BY <2>12, BoundAssumption DEF Fill
    <3>2. file'[lock_fd[p]] =
              Overwrite(file[lock_fd[p]], written[p] + 1, MyChunk(p))
      BY <2>12, <3>1 DEF Fill
    <3>3. file'[lock_fd[p]].len = written[p] + 1
      BY <3>1, <3>2 DEF Overwrite
    <3>4. ASSUME NEW q \in Proc, q # p, pc[q] \in Locked
          PROVE  file'[lock_fd[q]] = file[lock_fd[q]]
      BY <1>1, <3>4, <2>12 DEF Fill
    <3> QED BY <2>12, <3>3, <3>4 DEF Fill
  <2>13. CASE FillDone(p) BY <2>13 DEF FillDone
  <2>14. CASE Publish(p) BY <2>14 DEF Publish
  <2>15. CASE RestoreNew(p) BY <2>15 DEF RestoreNew, Release
  <2>16. CASE Prune(p) BY <2>16 DEF Prune
  <2>17. CASE RestoreOld(p) BY <2>17 DEF RestoreOld, Release
  <2>18. CASE Send(p) BY <2>18 DEF Send
  <2>19. CASE SendDone(p) BY <2>19 DEF SendDone, Exit, ReleaseAll
  <2>20. CASE Direct(p) BY <2>20 DEF Direct, Exit, ReleaseAll
    <2> QED BY <1>4, <2>1, <2>2, <2>3, <2>4, <2>5, <2>6, <2>7, <2>8, <2>9, <2>10,
             <2>11, <2>12, <2>13, <2>14, <2>15, <2>16, <2>17, <2>18, <2>19, <2>20
             DEF QuietStep
<1> QED BY <1>3, <1>4, QuietSteps

\* What a process is about to rename is its page from the first chunk to the last.
LEMMA WholePage ==
    ASSUME TypeOK, FdOK, WriterPages, WholeWrites, NEW p \in Proc, pc[p] = "publish"
    PROVE  WholeFile(lock_fd[p])
<1>1. /\ page[p] \in Pos /\ written[p] = page[p]
      /\ \A j \in 1 .. written[p] : file[lock_fd[p]].body[j] = MyChunk(p)
  BY DEF WriterPages, WriterPage
<1>2. file[lock_fd[p]].body[1].of = page[p]
  BY <1>1, BoundAssumption DEF Pos, MyChunk
<1> QED BY <1>1, <1>2 DEF WholeWrites, WholeFile

\* A rename publishes a file that is as long as its page.
LEMMA WholeSlotsStep ==
    ASSUME IInv, WholeInv, Clean', ~Crashes, ~Faults, [Next]_vars
    PROVE  WholeSlots'
<1>1. Clean
  BY CleanBefore
<1>2. TypeOK /\ FdOK /\ NamesOK /\ LockLinked /\ WriterPages /\ WholeWrites /\ WholeSlots
  BY <1>1 DEF IInv, CleanInv, WholeInv
<1> USE <1>2 DEF TypeOK, FdOK, Locked, WholeSlots, WholeFile
<1>3. CASE UNCHANGED vars \/ Tick
  BY <1>3 DEF vars, Tick, local, response
<1>4. ASSUME NEW p \in Proc, QuietStep(p)
      PROVE  WholeSlots'
  <2> USE DEF fs, local, response, Goto, NoLock
  <2>1. CASE Request(p) BY <2>1 DEF Request
  <2>2. CASE Open(p) BY <2>2 DEF Open
  <2>3. CASE Fstat(p) BY <2>3 DEF Fstat
  <2>4. CASE ReadHit(p) BY <2>4 DEF ReadHit
  <2>5. CASE ReadMiss(p) BY <2>5 DEF ReadMiss, Release
  <2>6. CASE LockOpen(p)
    BY <2>6, SlotAssumption, NoneAssumption DEF LockOpen, Unused
  <2>7. CASE LockSet(p) BY <2>7 DEF LockSet
  <2>8. CASE LockBusy(p) BY <2>8 DEF LockBusy
  <2>9. CASE LockKey(p)
    <3>1. \A s \in Slot : cache_name[s] # None => file'[cache_name[s]] = file[cache_name[s]]
      BY <2>9, PublishedUntouched
    <3> QED BY <2>9, <3>1 DEF LockKey
  <2>10. CASE CheckModified(p) BY <2>10 DEF CheckModified
  <2>11. CASE Redirect(p) BY <2>11 DEF Redirect
  <2>12. CASE Fill(p)
    <3>1. \A s \in Slot : cache_name[s] # None => file'[cache_name[s]] = file[cache_name[s]]
      BY <2>12, PublishedUntouched
    <3> QED BY <2>12, <3>1 DEF Fill
  <2>13. CASE FillDone(p) BY <2>13 DEF FillDone
  <2>14. CASE Publish(p)
    <3>1. WholeFile(lock_fd[p])
      BY <2>14, WholePage DEF Publish
    <3>2. lock_name[MySlot(p)] = lock_fd[p]
      BY <2>14 DEF Publish, LockLinked, Unpublished
    <3> QED BY <2>14, <3>1, <3>2, SlotAssumption DEF Publish, MySlot
  <2>15. CASE RestoreNew(p) BY <2>15 DEF RestoreNew, Release
  <2>16. CASE Prune(p) BY <2>16 DEF Prune
  <2>17. CASE RestoreOld(p) BY <2>17 DEF RestoreOld, Release
  <2>18. CASE Send(p) BY <2>18 DEF Send
  <2>19. CASE SendDone(p) BY <2>19 DEF SendDone, Exit, ReleaseAll
  <2>20. CASE Direct(p) BY <2>20 DEF Direct, Exit, ReleaseAll
    <2> QED BY <1>4, <2>1, <2>2, <2>3, <2>4, <2>5, <2>6, <2>7, <2>8, <2>9, <2>10,
             <2>11, <2>12, <2>13, <2>14, <2>15, <2>16, <2>17, <2>18, <2>19, <2>20
             DEF QuietStep
<1> QED BY <1>3, <1>4, QuietSteps

\* So is a file that is open for reading.
LEMMA WholeReadsStep ==
    ASSUME IInv, WholeInv, Clean', ~Crashes, ~Faults, [Next]_vars
    PROVE  WholeReads'
<1>1. Clean
  BY CleanBefore
<1>2. TypeOK /\ FdOK /\ ReadNotLocked /\ LockLinked /\ WriterPages /\ WholeWrites /\ WholeSlots
        /\ WholeReads
  BY <1>1 DEF IInv, CleanInv, WholeInv
<1> USE <1>2 DEF TypeOK, FdOK, Locked, WholeReads, WholeFile
<1>3. CASE UNCHANGED vars \/ Tick
  BY <1>3 DEF vars, Tick, local, response
<1>4. ASSUME NEW p \in Proc, QuietStep(p)
      PROVE  WholeReads'
  <2> USE DEF fs, local, response, Goto, NoLock
  <2>1. CASE Request(p) BY <2>1 DEF Request
  <2>2. CASE Open(p)
    BY <2>2, SlotAssumption DEF Open, WholeSlots, MySlot
  <2>3. CASE Fstat(p) BY <2>3 DEF Fstat
  <2>4. CASE ReadHit(p) BY <2>4 DEF ReadHit
  <2>5. CASE ReadMiss(p) BY <2>5 DEF ReadMiss, Release
  <2>6. CASE LockOpen(p)
    BY <2>6, NoneAssumption DEF LockOpen, Unused
  <2>7. CASE LockSet(p) BY <2>7 DEF LockSet
  <2>8. CASE LockBusy(p) BY <2>8 DEF LockBusy
  <2>9. CASE LockKey(p)
    <3>1. \A q \in Proc : cache_fd[q] # None => file'[cache_fd[q]] = file[cache_fd[q]]
      BY <2>9, ReadUntouched
    <3> QED BY <2>9, <3>1 DEF LockKey
  <2>10. CASE CheckModified(p) BY <2>10 DEF CheckModified
  <2>11. CASE Redirect(p) BY <2>11 DEF Redirect
  <2>12. CASE Fill(p)
    <3>1. \A q \in Proc : cache_fd[q] # None => file'[cache_fd[q]] = file[cache_fd[q]]
      BY <2>12, ReadUntouched
    <3> QED BY <2>12, <3>1 DEF Fill
  <2>13. CASE FillDone(p) BY <2>13 DEF FillDone
  <2>14. CASE Publish(p)
    BY <2>14, WholePage DEF Publish
  <2>15. CASE RestoreNew(p) BY <2>15 DEF RestoreNew, Release
  <2>16. CASE Prune(p) BY <2>16 DEF Prune
  <2>17. CASE RestoreOld(p) BY <2>17 DEF RestoreOld, Release
  <2>18. CASE Send(p) BY <2>18 DEF Send
  <2>19. CASE SendDone(p) BY <2>19 DEF SendDone, Exit, ReleaseAll
  <2>20. CASE Direct(p) BY <2>20 DEF Direct, Exit, ReleaseAll
    <2> QED BY <1>4, <2>1, <2>2, <2>3, <2>4, <2>5, <2>6, <2>7, <2>8, <2>9, <2>10,
             <2>11, <2>12, <2>13, <2>14, <2>15, <2>16, <2>17, <2>18, <2>19, <2>20
             DEF QuietStep
<1> QED BY <1>3, <1>4, QuietSteps

\* And what is sent of it is all of it.
LEMMA WholeAnswersStep ==
    ASSUME IInv, WholeInv, Clean', ~Crashes, ~Faults, [Next]_vars
    PROVE  WholeAnswers'
<1>1. Clean
  BY CleanBefore
<1>2. TypeOK /\ FdOK /\ ReaderPages /\ ReaderStat /\ SentOK /\ WholeReads /\ WholeAnswers
  BY <1>1 DEF IInv, CleanInv, WholeInv
<1> USE <1>2 DEF TypeOK, FdOK, Locked, WholeAnswers
<1>3. CASE UNCHANGED vars \/ Tick
  BY <1>3 DEF vars, Tick, local, response
<1>4. ASSUME NEW p \in Proc, QuietStep(p)
      PROVE  WholeAnswers'
  <2> USE DEF fs, local, response, Goto, NoLock
  <2>1. CASE Request(p) BY <2>1 DEF Request
  <2>2. CASE Open(p) BY <2>2 DEF Open
  <2>3. CASE Fstat(p) BY <2>3 DEF Fstat
  <2>4. CASE ReadHit(p) BY <2>4 DEF ReadHit
  <2>5. CASE ReadMiss(p) BY <2>5 DEF ReadMiss, Release
  <2>6. CASE LockOpen(p) BY <2>6 DEF LockOpen, Unused
  <2>7. CASE LockSet(p) BY <2>7 DEF LockSet
  <2>8. CASE LockBusy(p) BY <2>8 DEF LockBusy
  <2>9. CASE LockKey(p) BY <2>9 DEF LockKey
  <2>10. CASE CheckModified(p) BY <2>10 DEF CheckModified
  <2>11. CASE Redirect(p) BY <2>11 DEF Redirect
  <2>12. CASE Fill(p) BY <2>12 DEF Fill
  <2>13. CASE FillDone(p) BY <2>13 DEF FillDone
  <2>14. CASE Publish(p) BY <2>14 DEF Publish
  <2>15. CASE RestoreNew(p) BY <2>15 DEF RestoreNew, Release
  <2>16. CASE Prune(p) BY <2>16 DEF Prune
  <2>17. CASE RestoreOld(p) BY <2>17 DEF RestoreOld, Release
  <2>18. CASE Send(p) BY <2>18 DEF Send
  <2>19. CASE SendDone(p)
    <3>1. cache_fd[p] \in Inode /\ PageFile(cache_fd[p]) /\ WholeFile(cache_fd[p])
      BY <2>19, NoneAssumption DEF SendDone, ReaderPages, WholeReads
    <3>2. cache_st[p].size = 1 + file[cache_fd[p]].len
      BY <2>19, <3>1, NoneAssumption
         DEF SendDone, ReaderStat, Sending, Size, PageFile
    <3>3. sent[p] = file[cache_fd[p]].len
      BY <2>19, <3>1, <3>2, LenType DEF SendDone, SendEnd
    <3>4. out[p][1] = file[cache_fd[p]].body[1]
      BY <2>19, <3>1, <3>3, LenType DEF SendDone, SentOK, PageFile, StartsWithPage
    <3> QED BY <2>19, <3>1, <3>3, <3>4 DEF SendDone, Exit, WholeFile
  <2>20. CASE Direct(p)
    BY <2>20, BoundAssumption DEF Direct, Exit, PageOf, Pos
    <2> QED BY <1>4, <2>1, <2>2, <2>3, <2>4, <2>5, <2>6, <2>7, <2>8, <2>9, <2>10,
             <2>11, <2>12, <2>13, <2>14, <2>15, <2>16, <2>17, <2>18, <2>19, <2>20
             DEF QuietStep
<1> QED BY <1>3, <1>4, QuietSteps

-----------------------------------------------------------------------------
THEOREM WholeInit == Init => WholeInv
<1> SUFFICES ASSUME Init PROVE WholeInv
  OBVIOUS
<1>1. WholeSlots
  <2>1. CASE cache_name = [s \in Slot |-> None]
    BY <2>1 DEF WholeSlots
  <2>2. ASSUME NEW k \in Key, NEW i \in Inode, NEW n \in Pos,
               cache_name = [s \in Slot |-> IF s = SlotOf[k] THEN i ELSE None],
               file = [[j \in Inode |-> EmptyFile(0)] EXCEPT
                         ![i] = [key |-> k, body |-> PageOf(Past, k, n),
                                 len |-> n, mtime |-> 0]]
        PROVE  WholeSlots
    <3>1. file[i].body[1].of = n /\ file[i].len = n
      BY <2>2, BoundAssumption DEF PageOf, Pos
    <3> QED BY <2>2, <3>1 DEF WholeSlots, WholeFile
  <2> QED BY <2>1, <2>2 DEF Init, InitCache
<1> QED BY <1>1 DEF Init, WholeInv, EmptyLocks, Unlinked, WholeWrites, WholeReads,
                    WholeAnswers

THEOREM WholeStep == IInv /\ WholeInv /\ [Next]_vars => WholeInv'
<1> SUFFICES ASSUME IInv, WholeInv, [Next]_vars, Clean', ~Crashes, ~Faults
             PROVE  /\ EmptyLocks' /\ Unlinked' /\ WholeWrites'
                    /\ WholeSlots' /\ WholeReads' /\ WholeAnswers'
  BY DEF WholeInv
<1>1. EmptyLocks' /\ Unlinked' /\ WholeWrites'
  BY EmptyLocksStep, UnlinkedStep, WholeWritesStep
<1>2. WholeSlots' /\ WholeReads' /\ WholeAnswers'
  BY WholeSlotsStep, WholeReadsStep, WholeAnswersStep
<1> QED BY <1>1, <1>2

\* As long as nothing crashes or fails, a client gets a page for its key and nothing
\* else, although two keys share a slot and pages differ in length.
THEOREM WholeResponse == Spec => []ServesWholePage
<1>1. IInv /\ WholeInv => ServesWholePage
  BY DEF IInv, CleanInv, WholeInv, SentOK, WholeAnswers, ServesWholePage, IsPage
<1> QED BY WholeInit, WholeStep, Invariance, <1>1, PTL DEF Spec

-----------------------------------------------------------------------------
(* The page cache implements the page store *)

\* The inductive invariant with what the mapping needs besides
StoreInv == IInv /\ ReadsClosed

\* The descriptor of the slot is closed wherever the slot counts as missing.
LEMMA ClosedStep ==
    ASSUME TypeOK, FdOK, ReadsClosed, [Next]_vars
    PROVE  ReadsClosed'
<1> USE DEF TypeOK, FdOK, ReadsClosed, Locked
<1>1. CASE UNCHANGED vars
  BY <1>1 DEF vars
<1>2. CASE Tick
  BY <1>2 DEF Tick, local, response
<1>3. ASSUME NEW p \in Proc, Step(p) \/ Fail(p) PROVE ReadsClosed'
  <2> USE DEF fs, local, response, Goto, NoLock
  <2>1. CASE Request(p) BY <2>1 DEF Request
  <2>2. CASE Open(p) BY <2>2 DEF Open
  <2>3. CASE Fstat(p) BY <2>3 DEF Fstat
  <2>4. CASE ReadHit(p) BY <2>4 DEF ReadHit
  <2>5. CASE ReadMiss(p) BY <2>5 DEF ReadMiss
  <2>6. CASE LockOpen(p) BY <2>6 DEF LockOpen
  <2>7. CASE LockSet(p) BY <2>7 DEF LockSet
  <2>8. CASE LockBusy(p) BY <2>8 DEF LockBusy
  <2>9. CASE LockKey(p) BY <2>9 DEF LockKey
  <2>10. CASE CheckModified(p) BY <2>10 DEF CheckModified
  <2>11. CASE Redirect(p) BY <2>11 DEF Redirect
  <2>12. CASE Fill(p) BY <2>12 DEF Fill
  <2>13. CASE FillOpensFilter(p) BY <2>13 DEF FillOpensFilter
  <2>14. CASE FillDone(p) BY <2>14 DEF FillDone
  <2>15. CASE Publish(p) BY <2>15 DEF Publish
  <2>16. CASE RestoreNew(p) BY <2>16 DEF RestoreNew
  <2>17. CASE Prune(p) BY <2>17 DEF Prune
  <2>18. CASE RestoreOld(p) BY <2>18 DEF RestoreOld
  <2>19. CASE Send(p) BY <2>19 DEF Send
  <2>20. CASE SendDone(p) BY <2>20 DEF SendDone, Exit
  <2>21. CASE Direct(p) BY <2>21 DEF Direct, Exit
  <2>22. CASE OpenFails(p) BY <2>22 DEF OpenFails
  <2>23. CASE LockKeyFails(p) BY <2>23 DEF LockKeyFails
  <2>24. CASE RedirectFails(p) BY <2>24 DEF RedirectFails
  <2>25. CASE FillFails(p) BY <2>25 DEF FillFails
  <2>26. CASE SendFails(p) BY <2>26 DEF SendFails, Exit
  <2>27. CASE Crash(p) BY <2>27 DEF Crash, Exit
  <2> QED BY <1>3, <2>1, <2>2, <2>3, <2>4, <2>5, <2>6, <2>7, <2>8, <2>9, <2>10,
             <2>11, <2>12, <2>13, <2>14, <2>15, <2>16, <2>17, <2>18, <2>19,
             <2>20, <2>21, <2>22, <2>23, <2>24, <2>25, <2>26, <2>27 DEF Step, Fail
<1> QED BY <1>1, <1>2, <1>3 DEF Next

THEOREM StoreInvariance == Spec => []StoreInv
<1>1. Init => StoreInv
  BY IInvInit DEF StoreInv, ReadsClosed, Init
<1>2. StoreInv /\ [Next]_vars => StoreInv'
  BY IInvStep, ClosedStep DEF StoreInv, IInv
<1> QED BY <1>1, <1>2, PTL DEF Spec

-----------------------------------------------------------------------------
(* The mapping *)

\* A whole page is mapped to what its first cell says of it.
LEMMA PageInIs ==
    ASSUME NEW cells, NEW n, NEW k, k # None, StartsWithPage(cells, n, k)
    PROVE  /\ PageIn(cells, n, k) = cells[1]
           /\ cells[1] \in Chunk /\ cells[1].key = k /\ cells[1] # None
<1>1. PageIn(cells, n, k) = cells[1] /\ cells[1] \in Chunk /\ cells[1].key = k
  BY DEF PageIn, StartsWithPage
<1> QED BY <1>1, PageAssumption

\* A file that is published or open for reading stays as it is.
LEMMA FilesKept ==
    ASSUME IInv, Clean, NEW p \in Proc, Step(p) \/ Fail(p),
           NEW i \in Inode,
           (\E s \in Slot : cache_name[s] = i) \/ (\E q \in Proc : cache_fd[q] = i)
    PROVE  file'[i] = file[i]
<1>1. TypeOK /\ FdOK /\ NamesOK /\ LockLinked /\ ReadNotLocked
  BY DEF IInv, CleanInv
<1>2. CASE LockOpen(p)
  BY <1>1, <1>2 DEF LockOpen, Unused, TypeOK
<1>3. CASE LockKey(p) \/ Fill(p)
  BY <1>1, <1>3, NoneAssumption, PublishedUntouched, ReadUntouched
<1>4. CASE UNCHANGED file
  BY <1>4
<1> QED BY <1>2, <1>3, <1>4 DEF Step, Fail, fs, Request, Open, Fstat, ReadHit,
          ReadMiss, LockSet, LockBusy, CheckModified, Redirect, FillOpensFilter,
          FillDone, Publish, RestoreNew, Prune, RestoreOld, Send, SendDone, Direct,
          OpenFails, LockKeyFails, RedirectFails, FillFails, SendFails, Crash, Exit

\* A step of one process changes nothing of another but the file system.
LEMMA OthersStay ==
    ASSUME TypeOK, NEW p \in Proc, Step(p) \/ Fail(p), NEW q \in Proc, q # p
    PROVE  /\ key' = key
           /\ pc'[q] = pc[q] /\ cache_fd'[q] = cache_fd[q]
           /\ out'[q] = out[q] /\ sent'[q] = sent[q]
<1> USE DEF TypeOK, fs, local, response, Goto
<1>1. CASE \/ Request(p) \/ Open(p) \/ Fstat(p) \/ ReadHit(p) \/ ReadMiss(p)
           \/ LockOpen(p) \/ LockSet(p) \/ LockBusy(p) \/ LockKey(p)
  BY <1>1 DEF Request, Open, Fstat, ReadHit, ReadMiss, LockOpen, LockSet, LockBusy,
     LockKey
<1>2. CASE \/ CheckModified(p) \/ Redirect(p) \/ Fill(p) \/ FillOpensFilter(p)
           \/ FillDone(p) \/ Publish(p) \/ RestoreNew(p) \/ Prune(p) \/ RestoreOld(p)
  BY <1>2 DEF CheckModified, Redirect, Fill, FillOpensFilter, FillDone, Publish,
     RestoreNew, Prune, RestoreOld
<1>3. CASE Send(p) \/ SendDone(p) \/ Direct(p)
  BY <1>3 DEF Send, SendDone, Direct, Exit
<1>4. CASE \/ OpenFails(p) \/ LockKeyFails(p) \/ RedirectFails(p) \/ FillFails(p)
           \/ SendFails(p) \/ Crash(p)
  BY <1>4 DEF OpenFails, LockKeyFails, RedirectFails, FillFails, SendFails, Crash, Exit
<1> QED BY <1>1, <1>2, <1>3, <1>4 DEF Step, Fail

\* Nor has it found, or answered, another page than before.
LEMMA OthersSee ==
    ASSUME IInv, Clean, NEW p \in Proc, Step(p) \/ Fail(p), NEW q \in Proc, q # p
    PROVE  SeenPage'[q] = SeenPage[q] /\ AnsweredPage'[q] = AnsweredPage[q]
<1>1. TypeOK
  BY DEF IInv
<1>2. /\ key' = key
      /\ pc'[q] = pc[q] /\ cache_fd'[q] = cache_fd[q]
      /\ out'[q] = out[q] /\ sent'[q] = sent[q]
  BY <1>1, OthersStay
<1>3. cache_fd[q] # None => file'[cache_fd[q]] = file[cache_fd[q]]
  BY <1>1, FilesKept DEF TypeOK
<1>4. SeenPage'[q] = SeenPage[q]
  BY <1>2, <1>3 DEF SeenPage, PageInFile
<1>5. AnsweredPage'[q] = AnsweredPage[q]
  BY <1>2 DEF AnsweredPage
<1> QED BY <1>4, <1>5

\* The slots hold the same pages as long as no name is linked anew.
LEMMA StoreKept ==
    ASSUME IInv, Clean, NEW p \in Proc, Step(p) \/ Fail(p), cache_name' = cache_name
    PROVE  StoredPage' = StoredPage
<1>1. TypeOK
  BY DEF IInv
<1>2. ASSUME NEW s \in Slot, cache_name[s] # None
      PROVE  file'[cache_name[s]] = file[cache_name[s]]
  BY <1>1, <1>2, FilesKept DEF TypeOK
<1> QED BY <1>2 DEF StoredPage, PageInFile

\* What a process sees is the page that its open file begins with.
LEMMA SeenIs ==
    ASSUME IInv, Clean, NEW p \in Proc
    PROVE  /\ cache_fd[p] = None => SeenPage[p] = None
           /\ cache_fd[p] # None =>
                 /\ file[cache_fd[p]].key = key[p] =>
                       /\ SeenPage[p] = file[cache_fd[p]].body[1]
                       /\ SeenPage[p] \in Chunk
                 /\ file[cache_fd[p]].key # key[p] => SeenPage[p] = None
<1>1. cache_fd[p] # None => PageFile(cache_fd[p])
  BY DEF IInv, CleanInv, ReaderPages
<1> QED BY <1>1, PageInIs, NoneAssumption DEF SeenPage, PageInFile, PageFile

\* So is the page in a slot the one that its published file begins with.
LEMMA StoredIs ==
    ASSUME IInv, Clean, NEW s \in Slot
    PROVE  /\ cache_name[s] = None => StoredPage[s] = None
           /\ cache_name[s] # None =>
                 /\ StoredPage[s] = file[cache_name[s]].body[1]
                 /\ StoredPage[s] \in Chunk
                 /\ StoredPage[s].key = file[cache_name[s]].key
<1>1. cache_name[s] # None => PageFile(cache_name[s])
  BY DEF IInv, CleanInv, SlotPages
<1> QED BY <1>1, PageInIs, NoneAssumption DEF StoredPage, PageInFile, PageFile

\* Before it is done a process has answered nothing.
LEMMA UnansweredIs ==
    ASSUME NEW p \in Proc, pc[p] # "done"
    PROVE  AnsweredPage[p] = None
BY DEF AnsweredPage

-----------------------------------------------------------------------------
(* The steps *)

\* A function that changes at p only.
LEMMA ChangesAt ==
    ASSUME NEW f, NEW g, NEW p \in Proc, NEW v,
           f = [q \in Proc |-> f[q]], g = [q \in Proc |-> g[q]],
           \A q \in Proc : q # p => g[q] = f[q], g[p] = v
    PROVE  g = [f EXCEPT ![p] = v]
OBVIOUS

\* What p does is a step of the page store as soon as what p sees and answers, and
\* its slot, are.
LEMMA SeenChanges ==
    ASSUME IInv, Clean, NEW p \in Proc, Step(p) \/ Fail(p)
    PROVE  /\ SeenPage' = [SeenPage EXCEPT ![p] = SeenPage'[p]]
           /\ AnsweredPage' = [AnsweredPage EXCEPT ![p] = AnsweredPage'[p]]
           /\ SeenPage'[p] = SeenPage[p] => SeenPage' = SeenPage
           /\ AnsweredPage'[p] = AnsweredPage[p] => AnsweredPage' = AnsweredPage
<1>1. \A q \in Proc : q # p =>
          SeenPage'[q] = SeenPage[q] /\ AnsweredPage'[q] = AnsweredPage[q]
  BY OthersSee
<1>2. /\ SeenPage = [q \in Proc |-> SeenPage[q]]
      /\ SeenPage' = [q \in Proc |-> SeenPage'[q]]
  BY DEF SeenPage
<1>3. /\ AnsweredPage = [q \in Proc |-> AnsweredPage[q]]
      /\ AnsweredPage' = [q \in Proc |-> AnsweredPage'[q]]
  BY DEF AnsweredPage
<1> HIDE DEF SeenPage, AnsweredPage
<1> QED BY <1>1, <1>2, <1>3

\* The step changes nothing that the page store knows of.
LEMMA Stutters ==
    ASSUME IInv, Clean, Clean', NEW p \in Proc, Step(p) \/ Fail(p),
           cache_name' = cache_name, cache_fd'[p] = cache_fd[p], key' = key,
           pc[p] # "done", pc'[p] # "done"
    PROVE  UNCHANGED Store!vars
<1>1. cache_fd[p] # None => file'[cache_fd[p]] = file[cache_fd[p]]
  BY FilesKept DEF IInv, TypeOK
<1>2. SeenPage'[p] = SeenPage[p]
  BY <1>1 DEF SeenPage, PageInFile
<1>3. AnsweredPage'[p] = AnsweredPage[p]
  BY DEF AnsweredPage
<1>4. SeenPage' = SeenPage /\ AnsweredPage' = AnsweredPage
  BY <1>2, <1>3, SeenChanges
<1>5. StoredPage' = StoredPage
  BY StoreKept
<1>6. Clean' = Clean
  BY DEF Clean
<1> QED BY <1>4, <1>5, <1>6 DEF Store!vars

\* The step closes what p had found, if anything, and answers nothing.
LEMMA Forgets ==
    ASSUME IInv, Clean, Clean', NEW p \in Proc, Step(p) \/ Fail(p),
           cache_name' = cache_name, cache_fd'[p] = None, key' = key,
           pc[p] # "done", pc'[p] # "done"
    PROVE  Store!Forget(p)
<1>1. SeenPage'[p] = None
  BY DEF SeenPage
<1>2. AnsweredPage'[p] = AnsweredPage[p]
  BY DEF AnsweredPage
<1>3. /\ SeenPage' = [SeenPage EXCEPT ![p] = None]
      /\ AnsweredPage' = AnsweredPage
  BY <1>1, <1>2, SeenChanges
<1>4. StoredPage' = StoredPage
  BY StoreKept
<1>5. Clean' = Clean
  BY DEF Clean
<1> QED BY <1>3, <1>4, <1>5 DEF Store!Forget

\* Opening the published file is finding its page, if it is one for the key.
LEMMA OpenFinds ==
    ASSUME IInv, ReadsClosed, Clean, Clean', NEW p \in Proc, Open(p)
    PROVE  Store!Find(p) \/ UNCHANGED Store!vars
<1>1. /\ TypeOK /\ FdOK /\ MySlot(p) \in Slot /\ pc[p] = "open"
      /\ key' = key /\ file' = file /\ cache_name' = cache_name
      /\ pc'[p] # "done" /\ Step(p)
  BY SlotAssumption DEF IInv, Open, TypeOK, fs, MySlot, Goto, Step
<1>2. CASE cache_fd'[p] = cache_fd[p]
  BY <1>1, <1>2, Stutters
<1>3. CASE cache_fd'[p] # cache_fd[p]
  <2> DEFINE i == cache_name[MySlot(p)]
  <2>1. i # None /\ cache_fd'[p] = i
    BY <1>1, <1>3 DEF Open, TypeOK
  <2>2. cache_fd[p] = None
    BY <1>1 DEF ReadsClosed, FdOK, Locked
  <2>3. /\ StoredPage[MySlot(p)] = PageInFile(i) /\ StoredPage[MySlot(p)] # None
        /\ StoredPage[MySlot(p)].key = file[i].key
    BY <1>1, <2>1, StoredIs, PageAssumption DEF StoredPage
  <2>4. SeenPage[p] = None /\ AnsweredPage[p] = None
    BY <1>1, <2>2, SeenIs, UnansweredIs
  <2>5. AnsweredPage'[p] = None
    BY <1>1 DEF AnsweredPage
  <2>6. AnsweredPage' = AnsweredPage
    BY <1>1, <2>4, <2>5, SeenChanges
  <2>7. StoredPage' = StoredPage /\ Clean' = Clean
    BY <1>1, StoreKept DEF Clean
  <2>8. CASE file[i].key = key[p]
    <3>1. SeenPage'[p] = StoredPage[MySlot(p)]
      BY <1>1, <2>1, <2>3, <2>8 DEF SeenPage, PageInFile
    <3>2. SeenPage' = [SeenPage EXCEPT ![p] = StoredPage[MySlot(p)]]
      BY <1>1, <3>1, SeenChanges
    <3> QED BY <1>1, <2>3, <2>4, <2>6, <2>7, <2>8, <3>2 DEF Store!Find, MySlot
  <2>9. CASE file[i].key # key[p]
    <3>1. SeenPage'[p] = None
      BY <1>1, <2>1, <2>9 DEF SeenPage
    <3>2. SeenPage' = SeenPage
      BY <1>1, <2>4, <3>1, SeenChanges
    <3> QED BY <1>1, <2>6, <2>7, <3>2 DEF Store!vars
  <2> QED BY <2>8, <2>9
<1> QED BY <1>2, <1>3

\* The rename stores the page: over the one that p found, if it found one.
LEMMA PublishStores ==
    ASSUME IInv, ReadsClosed, Clean, Clean', NEW p \in Proc, Publish(p)
    PROVE  Store!Store(p)
<1> DEFINE i == lock_fd[p]
           g == file[i].body[1]
<1>1. /\ TypeOK /\ FdOK /\ MySlot(p) \in Slot /\ pc[p] = "publish"
      /\ key' = key /\ file' = file /\ pc'[p] # "done" /\ Step(p)
  BY SlotAssumption DEF IInv, Publish, TypeOK, MySlot, Goto, Step
<1>2. i \in Inode /\ lock_name[MySlot(p)] = i /\ i # None
  BY <1>1, NoneAssumption DEF IInv, CleanInv, FdOK, LockLinked, Unpublished, Locked
<1>3. /\ cache_name' = [cache_name EXCEPT ![MySlot(p)] = i]
      /\ cache_fd'[p] = i
  BY <1>1, <1>2 DEF Publish, Clean, TypeOK
<1>4. PageFile(i) /\ file[i].key = key[p]
  BY <1>1, PublishedPage DEF IInv, CleanInv, WriterPages, WriterPage, Locked
<1>5. PageInFile(i) = g /\ g \in Chunk /\ g.key = key[p]
  BY <1>4, PageInIs, NoneAssumption DEF PageInFile, PageFile
<1>6. g.by = p
  <2>1. page[p] \in Pos /\ written[p] = page[p]
        /\ \A j \in 1 .. written[p] : file[i].body[j] = MyChunk(p)
    BY <1>1 DEF IInv, CleanInv, WriterPages, WriterPage
  <2>2. 1 \in 1 .. written[p]
    BY <2>1, BoundAssumption DEF Pos
  <2> QED BY <2>1, <2>2 DEF MyChunk
<1>7. g \in Store!OwnPages(p)
  BY <1>5, <1>6 DEF Store!OwnPages, Store!Page, Chunk
<1>8. SeenPage[p] \in {None, StoredPage[MySlot(p)]}
  <2>1. CASE match[p]
    <3>1. cache_name[MySlot(p)] = cache_fd[p]
      BY <1>1, <2>1 DEF IInv, CleanInv, RefreshOK
    <3> QED BY <1>1, <3>1, SeenIs, StoredIs
  <2>2. CASE ~match[p]
    <3>1. cache_fd[p] = None
      BY <1>1, <2>2 DEF ReadsClosed
    <3> QED BY <3>1, SeenIs
  <2> QED BY <2>1, <2>2
<1>9. StoredPage' = [StoredPage EXCEPT ![MySlot(p)] = g]
  <2>1. StoredPage'[MySlot(p)] = g
    BY <1>1, <1>2, <1>3, <1>5 DEF StoredPage, PageInFile, TypeOK
  <2>2. ASSUME NEW s \in Slot, s # MySlot(p)
        PROVE  StoredPage'[s] = StoredPage[s]
    BY <1>1, <1>3, <2>2 DEF StoredPage, PageInFile, TypeOK
  <2>3. /\ StoredPage = [s \in Slot |-> StoredPage[s]]
        /\ StoredPage' = [s \in Slot |-> StoredPage'[s]]
    BY DEF StoredPage
  <2> QED BY <1>1, <2>1, <2>2, <2>3
<1>10. SeenPage'[p] = g
  BY <1>1, <1>2, <1>3, <1>4, <1>5 DEF SeenPage, PageInFile
<1>11. AnsweredPage[p] = None /\ AnsweredPage'[p] = None
  BY <1>1 DEF AnsweredPage
<1>12. SeenPage' = [SeenPage EXCEPT ![p] = g] /\ AnsweredPage' = AnsweredPage
  BY <1>1, <1>10, <1>11, SeenChanges
<1>13. Clean' = Clean
  BY DEF Clean
<1> QED BY <1>1, <1>7, <1>8, <1>9, <1>11, <1>12, <1>13 DEF Store!Store, MySlot

\* Sending the last chunk answers with the page that p has found or stored.
LEMMA SendAnswers ==
    ASSUME IInv, IInv', Clean, Clean', NEW p \in Proc, SendDone(p)
    PROVE  Store!Answer(p)
<1> DEFINE f == file[cache_fd[p]]
<1>1. /\ TypeOK /\ FdOK /\ pc[p] = "print" /\ pc'[p] = "done" /\ Step(p)
      /\ key' = key /\ cache_name' = cache_name /\ cache_fd'[p] = None
      /\ out' = out /\ sent' = sent
  BY DEF IInv, SendDone, Exit, TypeOK, Goto, response, Step
<1>2. /\ cache_fd[p] \in Inode /\ cache_fd[p] # None
      /\ f.key = key[p] /\ cache_st[p].size = Size(f) /\ f.key # None
  BY <1>1, NoneAssumption DEF IInv, CleanInv, FdOK, ReaderStat, Sending, TypeOK
<1>3. SeenPage[p] = f.body[1] /\ SeenPage[p] # None
  BY <1>2, SeenIs, PageAssumption
<1>4. f.len \in Nat /\ f.len >= 1 /\ sent[p] = f.len
  <2>1. f.len \in Nat
    BY <1>1, <1>2, LenType
  <2>2. f.len >= 1
    BY <1>2 DEF IInv, CleanInv, ReaderPages, PageFile, StartsWithPage
  <2> QED BY <1>2, <2>1, <2>2 DEF SendDone, SendEnd, Size
<1>5. out[p][1] = f.body[1]
  BY <1>1, <1>4 DEF IInv, CleanInv, SentOK
<1>6. StartsWithPage(out'[p], sent'[p], key'[p])
  BY <1>1 DEF IInv, CleanInv, SentOK
<1>7. AnsweredPage'[p] = SeenPage[p]
  BY <1>1, <1>2, <1>3, <1>5, <1>6 DEF AnsweredPage, PageIn
<1>8. SeenPage'[p] = None
  BY <1>1 DEF SeenPage
<1>9. /\ SeenPage' = [SeenPage EXCEPT ![p] = None]
      /\ AnsweredPage' = [AnsweredPage EXCEPT ![p] = SeenPage[p]]
  BY <1>1, <1>7, <1>8, SeenChanges
<1>10. StoredPage' = StoredPage /\ Clean' = Clean
  BY <1>1, StoreKept DEF Clean
<1> QED BY <1>1, <1>3, <1>9, <1>10 DEF Store!Answer

\* Without the cache p answers with a page of its own that is stored nowhere.
LEMMA DirectAnswers ==
    ASSUME IInv, ReadsClosed, Clean, Clean', NEW p \in Proc, Direct(p)
    PROVE  Store!AnswerUnstored(p)
<1>1. /\ TypeOK /\ FdOK /\ pc[p] = "direct" /\ pc'[p] = "done" /\ Step(p)
      /\ key' = key /\ cache_name' = cache_name /\ cache_fd'[p] = None
      /\ key[p] \in Key
  BY DEF IInv, Direct, Exit, TypeOK, Goto, Step
<1>2. cache_fd[p] = None
  BY <1>1 DEF ReadsClosed, FdOK, Locked
<1>3. SeenPage[p] = None /\ SeenPage'[p] = None /\ AnsweredPage[p] = None
  BY <1>1, <1>2 DEF SeenPage, AnsweredPage
<1>4. PICK n \in Pos : out'[p] = PageOf(p, key[p], n) /\ sent'[p] = n
  BY DEF Direct, IInv, TypeOK
<1> DEFINE g == [by |-> p, key |-> key[p], of |-> n]
<1>5. PageIn(out'[p], sent'[p], key'[p]) = g
  <2>1. g \in Chunk /\ 1 \in Pos /\ n >= 1
    BY <1>1, BoundAssumption DEF Chunk, Pos
  <2>2. \A j \in 1 .. n : PageOf(p, key[p], n)[j] = g
    BY BoundAssumption DEF PageOf, Pos
  <2>3. PageOf(p, key[p], n)[1] = g
    BY <2>1, <2>2, BoundAssumption DEF Pos
  <2>4. StartsWithPage(PageOf(p, key[p], n), n, key[p])
    BY <2>1, <2>2, <2>3, BoundAssumption DEF StartsWithPage, Pos
  <2> QED BY <1>1, <1>4, <2>3, <2>4, PageInIs, NoneAssumption
<1>6. AnsweredPage'[p] = g
  BY <1>1, <1>5 DEF AnsweredPage
<1>7. SeenPage' = SeenPage /\ AnsweredPage' = [AnsweredPage EXCEPT ![p] = g]
  BY <1>1, <1>3, <1>6, SeenChanges
<1>8. g \in Store!OwnPages(p)
  BY <1>1 DEF Store!OwnPages, Store!Page
<1>9. StoredPage' = StoredPage /\ Clean' = Clean
  BY <1>1, StoreKept DEF Clean
<1> QED BY <1>1, <1>3, <1>7, <1>8, <1>9 DEF Store!AnswerUnstored

-----------------------------------------------------------------------------
(* The theorem *)

LEMMA StoreInit ==
    ASSUME Init
    PROVE  Store!Init
<1>1. IInv /\ Clean
  BY IInvInit DEF Init, Clean
<1>2. SeenPage = [p \in Proc |-> None] /\ AnsweredPage = [p \in Proc |-> None]
  BY DEF Init, SeenPage, AnsweredPage
<1>3. StoredPage \in [Slot -> Store!Page \cup {None}]
  BY <1>1, StoredIs DEF StoredPage, Store!Page, Chunk
<1>4. ASSUME NEW s \in Slot, StoredPage[s] # None
      PROVE  StoredPage[s].by = Past /\ SlotOf[StoredPage[s].key] = s
  <2>1. cache_name[s] # None
    BY <1>1, <1>4, StoredIs
  <2>2. PICK k \in Key, i \in Inode, n \in Pos :
            /\ cache_name = [t \in Slot |-> IF t = SlotOf[k] THEN i ELSE None]
            /\ file = [[j \in Inode |-> EmptyFile(0)] EXCEPT
                          ![i] = [key |-> k, body |-> PageOf(Past, k, n),
                                  len |-> n, mtime |-> 0]]
    BY <2>1 DEF Init, InitCache
  <2>3. s = SlotOf[k] /\ cache_name[s] = i /\ file[i].body = PageOf(Past, k, n)
    BY <2>1, <2>2
  <2>4. file[i].body[1] = [by |-> Past, key |-> k, of |-> n]
    BY <2>3, BoundAssumption DEF PageOf, Pos
  <2> QED BY <1>1, <2>1, <2>3, <2>4, StoredIs
<1>5. key \in [Proc -> Key] /\ Clean = TRUE
  BY <1>1 DEF Init
<1> QED BY <1>2, <1>3, <1>4, <1>5 DEF Store!Init

LEMMA StoreStep ==
    ASSUME StoreInv, StoreInv', [Next]_vars
    PROVE  [Store!Next]_(Store!vars)
<1> USE DEF StoreInv
<1>1. CASE ~Clean'
  BY <1>1 DEF Store!Next, Store!Unsound
<1>2. CASE UNCHANGED vars \/ Tick
  <2>1. /\ cache_name' = cache_name /\ file' = file /\ cache_fd' = cache_fd
        /\ key' = key /\ pc' = pc /\ out' = out /\ sent' = sent /\ mishaps' = mishaps
    BY <1>2 DEF vars, Tick, local, response
  <2>2. StoredPage' = StoredPage /\ SeenPage' = SeenPage /\ AnsweredPage' = AnsweredPage
    BY <2>1 DEF StoredPage, SeenPage, AnsweredPage, PageInFile
  <2>3. Clean' = Clean
    BY <2>1 DEF Clean
  <2> QED BY <2>1, <2>2, <2>3 DEF Store!vars
<1>3. ASSUME Clean', NEW p \in Proc, Step(p) \/ Fail(p)
      PROVE  \/ UNCHANGED Store!vars
             \/ Store!Find(p) \/ Store!Store(p) \/ Store!Answer(p)
             \/ Store!AnswerUnstored(p) \/ Store!Forget(p)
  <2>1. Clean /\ TypeOK
    BY <1>3, CleanBefore DEF IInv
  <2> USE <2>1
  <2>2. CASE \/ Request(p) \/ Fstat(p) \/ ReadHit(p) \/ LockOpen(p) \/ LockSet(p)
             \/ LockBusy(p) \/ LockKey(p) \/ CheckModified(p) \/ Redirect(p) \/ Fill(p)
             \/ FillOpensFilter(p) \/ FillDone(p) \/ RestoreNew(p) \/ Prune(p)
             \/ RestoreOld(p) \/ Send(p) \/ LockKeyFails(p) \/ RedirectFails(p)
             \/ FillFails(p)
    <3>1. /\ cache_name' = cache_name /\ cache_fd' = cache_fd /\ key' = key
          /\ pc[p] # "done" /\ pc'[p] # "done"
      BY <2>2 DEF TypeOK, fs, local, Goto, NoLock, Request, Fstat, ReadHit, LockOpen,
         LockSet, LockBusy, LockKey, CheckModified, Redirect, Fill, FillOpensFilter,
         FillDone, RestoreNew, Prune, RestoreOld, Send, LockKeyFails, RedirectFails,
         FillFails
    <3> QED BY <1>3, <3>1, Stutters
  <2>3. CASE ReadMiss(p) \/ OpenFails(p) \/ SendFails(p) \/ Crash(p)
    <3>1. /\ cache_name' = cache_name /\ cache_fd'[p] = None /\ key' = key
          /\ pc[p] # "done" /\ pc'[p] # "done"
      BY <2>3 DEF TypeOK, Goto, ReadMiss, OpenFails, SendFails, Crash, Exit
    <3> QED BY <1>3, <3>1, Forgets
  <2>4. CASE Open(p) BY <1>3, <2>4, OpenFinds
  <2>5. CASE Publish(p) BY <1>3, <2>5, PublishStores
  <2>6. CASE SendDone(p) BY <1>3, <2>6, SendAnswers
  <2>7. CASE Direct(p) BY <1>3, <2>7, DirectAnswers
  <2> QED BY <1>3, <2>2, <2>3, <2>4, <2>5, <2>6, <2>7 DEF Step, Fail
<1> QED BY <1>1, <1>2, <1>3 DEF Next, Store!Next

\* The page cache implements the page store: whatever the processes do between two
\* system calls, and whatever crashes or fails, a page is found, stored and answered
\* in one step, and an expired page is replaced only while it is the one in the slot.
THEOREM Implements == Spec => ImplementsPageStore
<1>1. Init => Store!Init
  BY StoreInit
<1>2. StoreInv /\ StoreInv' /\ [Next]_vars => [Store!Next]_(Store!vars)
  BY StoreStep
<1> QED BY <1>1, <1>2, StoreInvariance, PTL DEF Spec, Store!Spec, ImplementsPageStore
=============================================================================
