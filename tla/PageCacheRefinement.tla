------------------------ MODULE PageCacheRefinement ------------------------
(***************************************************************************)
(* PageCache implements PageStore.  The page of a slot is the one its      *)
(* published file begins with; a process has found a page as soon as it    *)
(* has opened a file that holds one for its key, although it compares the  *)
(* keys only two system calls later; it has answered when it is done.      *)
(***************************************************************************)
EXTENDS PageCacheInv

\* None also stands for no page.
ASSUME PageAssumption == None \notin Chunk

\* The page that n cells begin with; Hole, which is no page, when it is not whole
PageIn(cells, n, k) ==
    IF k # None /\ StartsWithPage(cells, n, k) THEN cells[1] ELSE Hole

PageInFile(i) == PageIn(file[i].body, file[i].len, file[i].key)

StoredPage == [s \in Slot |->
    IF cache_name[s] = None THEN None ELSE PageInFile(cache_name[s])]

SeenPage == [p \in Proc |->
    IF cache_fd[p] # None /\ file[cache_fd[p]].key = key[p]
    THEN PageInFile(cache_fd[p]) ELSE None]

AnsweredPage == [p \in Proc |->
    IF pc[p] = "done" THEN PageIn(out[p], sent[p], key[p]) ELSE None]

Store == INSTANCE PageStore WITH
    Length <- Pos, store <- StoredPage, seen <- SeenPage,
    answer <- AnsweredPage, sound <- Clean

\* As long as the locks hold, what the processes and the file system do looks from
\* outside like the page store: pages appear whole, a page is found or replaced in
\* one step, and an expired page is replaced only while it is still the one there.
ImplementsPageStore == Store!Spec
============================================================================
