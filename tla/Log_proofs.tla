----------------------------- MODULE Log_proofs -----------------------------
(***************************************************************************)
(* Proofs about the pages of the log, for every history, search and number *)
(* of rows on a page: what the pages show is the whole log, once and in    *)
(* order, with the links and the counts of each commit.                    *)
(***************************************************************************)
EXTENDS Log, FiniteSetTheorems, SequenceTheorems, WellFoundedInduction, TLAPS

-----------------------------------------------------------------------------
(* Numbers *)

\* A set of numbers with 0 and the successor of each of its members has them all.
LEMMA SetInduction ==
    ASSUME NEW S \in SUBSET Nat, 0 \in S, \A n \in S : n + 1 \in S
    PROVE  S = Nat
<1> SUFFICES ASSUME Nat \ S # {} PROVE FALSE
  OBVIOUS
<1> DEFINE R == OpToRel(<, Nat)
<1>1. PICK x \in Nat \ S : \A y \in Nat \ S : ~ (<<y, x>> \in R)
  <2>1. IsWellFoundedOn(R, Nat)
    BY NatLessThanWellFounded
  <2> HIDE DEF R
  <2> QED BY <2>1, WFMin
<1>2. \A y \in Nat \ S : ~ (y < x)
  <2>1. \A y \in Nat : y < x => <<y, x>> \in R
    BY DEF R, OpToRel
  <2> QED BY <1>1, <2>1
<1>3. x # 0 /\ x - 1 \in Nat
  OBVIOUS
<1>4. x - 1 \in S
  BY <1>2, <1>3
<1> QED BY <1>3, <1>4

\* The walk has a next commit as long as one is left.
LEMMA NewestIsLeft ==
    ASSUME NEW S \in SUBSET Nat, S # {}
    PROVE  Newest(S) \in S /\ \A j \in S : Newest(S) <= j
<1> DEFINE R == OpToRel(<, Nat)
<1>1. PICK x \in S : \A y \in S : ~ (<<y, x>> \in R)
  <2>1. IsWellFoundedOn(R, Nat)
    BY NatLessThanWellFounded
  <2> HIDE DEF R
  <2> QED BY <2>1, WFMin
<1>2. \A j \in S : x <= j
  <2>1. \A y \in Nat : y < x => <<y, x>> \in R
    BY DEF R, OpToRel
  <2> HIDE DEF R
  <2>2. \A y \in S : ~ (y < x)
    BY <1>1, <2>1
  <2> QED BY <2>2
<1> QED BY <1>2 DEF Newest

\* In a finite log, those before some place are as many as the number of the next.
LEMMA RankOfNext ==
    ASSUME NEW W \in SUBSET Nat, IsFiniteSet(W), NEW D \in SUBSET W,
           \A i \in D : \A j \in W \ D : i < j
    PROVE  \A i \in W : /\ Rank(W, i) \in Nat
                        /\ i \in D => Rank(W, i) < Cardinality(D)
                        /\ i \notin D => Rank(W, i) >= Cardinality(D)
<1> SUFFICES ASSUME NEW i \in W
             PROVE  /\ Rank(W, i) \in Nat
                    /\ i \in D => Rank(W, i) < Cardinality(D)
                    /\ i \notin D => Rank(W, i) >= Cardinality(D)
  OBVIOUS
<1> DEFINE B == {j \in W : j < i}
<1>1. Rank(W, i) = Cardinality(B)
  BY DEF Rank
<1>2. /\ IsFiniteSet(B) /\ Cardinality(B) \in Nat
      /\ IsFiniteSet(D) /\ Cardinality(D) \in Nat
  BY FS_Subset, FS_CardinalityType
<1>3. CASE i \in D
  <2>1. B \subseteq D \ {i}
    <3> SUFFICES ASSUME NEW j \in W, j < i, j \notin D \/ j = i PROVE FALSE
      BY <1>3
    <3> QED BY <1>3
  <2>2. IsFiniteSet(D \ {i}) /\ Cardinality(D \ {i}) = Cardinality(D) - 1
    BY <1>2, <1>3, FS_RemoveElement
  <2>3. Cardinality(B) <= Cardinality(D \ {i})
    BY <2>1, <2>2, FS_Subset
  <2> QED BY <1>1, <1>2, <1>3, <2>2, <2>3
<1>4. CASE i \notin D
  <2>1. D \subseteq B
    BY <1>4
  <2>2. Cardinality(D) <= Cardinality(B)
    BY <1>2, <2>1, FS_Subset
  <2> QED BY <1>1, <1>2, <1>4, <2>2
<1> QED BY <1>3, <1>4

-----------------------------------------------------------------------------
(* Names *)

\* The name changes with a rename only, by one
LEMMA Names ==
    ASSUME NEW h \in Seq(Commit)
    PROVE  /\ NameAt(h, 1) = 0
           /\ \A i \in DOMAIN h : NameAt(h, i) \in Nat
           /\ \A i \in DOMAIN h : i + 1 \in DOMAIN h =>
                 NameAt(h, i + 1) = NameAt(h, i) + IF h[i].kind = "rename" THEN 1 ELSE 0
           /\ \A i, j \in DOMAIN h : i <= j => NameAt(h, i) <= NameAt(h, j)
<1> DEFINE R(i) == {k \in 1 .. i - 1 : h[k].kind = "rename"}
<1>1. \A i \in DOMAIN h : IsFiniteSet(R(i)) /\ Cardinality(R(i)) \in Nat
  <2> TAKE i \in DOMAIN h
  <2>1. IsFiniteSet(1 .. i - 1)
    BY FS_Interval
  <2> QED BY <2>1, FS_Subset, FS_CardinalityType
<1>2. \A i \in Int : NameAt(h, i) = Cardinality(R(i))
  BY DEF NameAt, Renames
<1>3. NameAt(h, 1) = 0
  <2>1. R(1) = {}
    OBVIOUS
  <2> QED BY <1>2, <2>1, FS_EmptySet
<1>4. ASSUME NEW i \in DOMAIN h, i + 1 \in DOMAIN h
      PROVE  NameAt(h, i + 1) = NameAt(h, i) + IF h[i].kind = "rename" THEN 1 ELSE 0
  <2>1. i \in Nat /\ i \notin R(i)
    OBVIOUS
  <2>0. NameAt(h, i + 1) = Cardinality(R(i + 1)) /\ NameAt(h, i) = Cardinality(R(i))
    BY <1>2, <2>1
  <2>2. CASE h[i].kind = "rename"
    <3>1. R(i + 1) = R(i) \cup {i}
      BY <2>1, <2>2
    <3> HIDE DEF R
    <3>2. Cardinality(R(i) \cup {i}) = Cardinality(R(i)) + 1
      BY <1>1, <2>1, FS_AddElement
    <3> QED BY <2>0, <2>2, <3>1, <3>2
  <2>3. CASE h[i].kind # "rename"
    <3>1. R(i + 1) = R(i)
      BY <2>1, <2>3
    <3> HIDE DEF R
    <3> QED BY <1>1, <2>0, <2>3, <3>1
  <2> QED BY <2>2, <2>3
<1>5. ASSUME NEW i \in DOMAIN h, NEW j \in DOMAIN h, i <= j
      PROVE  NameAt(h, i) <= NameAt(h, j)
  <2>1. R(i) \subseteq R(j)
    BY <1>5
  <2>2. Cardinality(R(i)) <= Cardinality(R(j))
    BY <1>1, <2>1, FS_Subset
  <2> QED BY <1>2, <2>2
<1>6. \A i \in DOMAIN h : NameAt(h, i) \in Nat
  <2> HIDE DEF R
  <2> QED BY <1>1, <1>2
<1> QED BY <1>3, <1>4, <1>5, <1>6

\* What git follows when it comes to commit i, if the log is about path: the name
\* asked for, then the names of the file, until a rename is missed
Follows(h, q, i, name) ==
    IF Lost(h, q, i) THEN name < NameAt(h, i)
    ELSE name = IF NameAt(h, i) < q.path THEN q.path ELSE NameAt(h, i)

\* A commit that the walk leaves out: a rename may be missed.
LEMMA FollowsOver ==
    ASSUME NEW h \in Seq(Commit), NEW q, q.path \in Nat, NEW i \in DOMAIN h,
           i + 1 \in DOMAIN h, NEW name \in Nat,
           i \notin Revisions(h, q), Follows(h, q, i, name)
    PROVE  Follows(h, q, i + 1, name)
<1>1. /\ NameAt(h, i) \in Nat /\ i \in Nat
      /\ NameAt(h, i + 1) = NameAt(h, i) + IF h[i].kind = "rename" THEN 1 ELSE 0
  BY Names
<1>2. Lost(h, q, i + 1) <=>
          Lost(h, q, i) \/ (h[i].kind = "rename" /\ NameAt(h, i) >= q.path)
  <2>1. \A k : k \in 1 .. (i + 1) - 1 <=> k \in 1 .. i - 1 \/ k = i
    BY <1>1
  <2> QED BY <2>1 DEF Lost
<1> QED BY <1>1, <1>2 DEF Follows

\* A commit of the walk: git sees a rename of the name it follows.
LEMMA FollowsBeyond ==
    ASSUME NEW h \in Seq(Commit), NEW q, q.path \in Nat, NEW i \in DOMAIN h,
           i + 1 \in DOMAIN h, NEW name \in Nat,
           i \in Revisions(h, q), Follows(h, q, i, name)
    PROVE  Follows(h, q, i + 1,
                   IF h[i].kind = "rename" /\ name = NameAt(h, i) THEN name + 1 ELSE name)
<1>1. /\ NameAt(h, i) \in Nat /\ i \in Nat
      /\ NameAt(h, i + 1) = NameAt(h, i) + IF h[i].kind = "rename" THEN 1 ELSE 0
  BY Names
<1>2. Lost(h, q, i + 1) <=> Lost(h, q, i)
  <2>1. \A k : k \in 1 .. (i + 1) - 1 <=> k \in 1 .. i - 1 \/ k = i
    BY <1>1
  <2> QED BY <2>1 DEF Lost
<1> QED BY <1>1, <1>2 DEF Follows

\* From one commit of the walk to the next
LEMMA FollowsOn ==
    ASSUME NEW h \in Seq(Commit), NEW q, q.path \in Nat, NEW i \in DOMAIN h,
           NEW j \in DOMAIN h, i <= j, NEW name \in Nat,
           \A k \in i .. j - 1 : k \notin Revisions(h, q),
           Follows(h, q, i, name)
    PROVE  Follows(h, q, j, name)
<1> DEFINE S == {n \in Nat : i + n <= j => Follows(h, q, i + n, name)}
<1>1. i \in Nat /\ j \in Nat /\ i >= 1 /\ j <= Len(h) /\ DOMAIN h = 1 .. Len(h)
  OBVIOUS
<1>2. 0 \in S
  BY <1>1
<1>3. ASSUME NEW n \in S PROVE n + 1 \in S
  <2> SUFFICES ASSUME i + (n + 1) <= j PROVE Follows(h, q, i + (n + 1), name)
    BY <1>3
  <2>1. n \in Nat /\ Follows(h, q, i + n, name)
    BY <1>1, <1>3
  <2>2. /\ i + n \in DOMAIN h /\ (i + n) + 1 \in DOMAIN h /\ i + n \in i .. j - 1
        /\ i + (n + 1) = (i + n) + 1
    BY <1>1, <2>1
  <2> HIDE DEF S
  <2> QED BY <2>1, <2>2, FollowsOver
<1>4. S = Nat
  <2>1. S \in SUBSET Nat
    OBVIOUS
  <2> HIDE DEF S
  <2> QED BY <1>2, <1>3, <2>1, SetInduction
<1>5. j - i \in S /\ i + (j - i) = j
  BY <1>1, <1>4
<1> QED BY <1>1, <1>5

-----------------------------------------------------------------------------
(* The invariant *)

LogTyped ==
    /\ history \in Seq(Commit) /\ qry \in Request
    /\ log_pc \in {"skip", "show", "done"}
    /\ vpath \in Nat \cup {None} /\ count \in Nat /\ strayed \in BOOLEAN
    /\ qry.follow => qry.path # None /\ pathspec \in Nat /\ vpath # None
    /\ shown \in Seq([commit : Nat, path : Nat \cup {None}, counted : Nat])
    /\ seen \in Seq(Nat)
    /\ links = IF log_pc = "done" THEN Pager ELSE NoLinks

\* The walk has come down to some place, and the file is known there by pathspec.
WalkInv ==
    /\ left \subseteq Revisions(history, qry)
    /\ \A i \in Revisions(history, qry) \ left : \A j \in left : i < j
    /\ qry.follow /\ left # {} => Follows(history, qry, Newest(left), pathspec)
    /\ ~qry.follow => vpath = qry.path

Passed == WholeLog(history, qry) \ left

\* Each loop counts the commits of the log that it has passed.
CountInv ==
    /\ log_pc = "skip" => /\ count <= First /\ Cardinality(Passed) = count
                          /\ shown = <<>>
    /\ log_pc # "skip" => /\ Len(shown) = count /\ count <= PageSize
                          /\ \/ Cardinality(Passed) = First + count
                             \/ left = {} /\ count = 0 /\ Cardinality(Passed) < First
    /\ log_pc = "done" => count >= PageSize \/ left = {}

\* The commits on the pages before this one
Earlier == Len(seen) - Len(shown)

\* What is seen are the commits from some number on: those of earlier pages, and
\* those that this page has passed.
SeenInv ==
    ~strayed =>
        /\ Earlier \in 0 .. First
        /\ \A m, n \in DOMAIN seen : m < n => seen[m] < seen[n]
        /\ {seen[n] : n \in DOMAIN seen} =
               {i \in WholeLog(history, qry) :
                   LET r == Rank(WholeLog(history, qry), i)
                   IN  r >= First - Earlier
                       /\ (r < First \/ (log_pc # "skip" /\ i \notin left))}

LogInv == LogTyped /\ WalkInv /\ RowsOwnCommit /\ CountInv /\ SeenInv

\* The log is finite, and what is left of it are numbers of commits.
LEMMA LogIsFinite ==
    ASSUME NEW h \in Seq(Commit), NEW q
    PROVE  /\ WholeLog(h, q) \subseteq Revisions(h, q) /\ Revisions(h, q) \subseteq DOMAIN h
           /\ DOMAIN h = 1 .. Len(h) /\ Len(h) \in Nat
           /\ WholeLog(h, q) \in SUBSET Nat /\ Revisions(h, q) \in SUBSET Nat
           /\ IsFiniteSet(WholeLog(h, q))
<1>1. WholeLog(h, q) \subseteq Revisions(h, q) /\ Revisions(h, q) \subseteq DOMAIN h
  BY DEF WholeLog, Revisions
<1>2. DOMAIN h = 1 .. Len(h) /\ Len(h) \in Nat
  OBVIOUS
<1>3. IsFiniteSet(1 .. Len(h))
  BY <1>2, FS_Interval
<1>4. IsFiniteSet(WholeLog(h, q))
  BY <1>1, <1>2, <1>3, FS_Subset
<1> QED BY <1>1, <1>2, <1>4

\* At the start of a walk git follows the name that was asked for.
LEMMA FollowsFirst ==
    ASSUME NEW h \in Seq(Commit), NEW q, q.path \in Nat, Revisions(h, q) # {}
    PROVE  Follows(h, q, Newest(Revisions(h, q)), q.path)
<1> DEFINE j == Newest(Revisions(h, q))
<1>1. j \in Revisions(h, q) /\ \A k \in Revisions(h, q) : j <= k
  BY LogIsFinite, NewestIsLeft
<1>2. j \in DOMAIN h /\ 1 \in DOMAIN h /\ 1 <= j /\ j \in Nat
  BY <1>1, LogIsFinite
<1> HIDE DEF j
<1>3. \A k \in 1 .. j - 1 : k \notin Revisions(h, q)
  BY <1>1, <1>2
<1>4. Follows(h, q, 1, q.path)
  <2>1. ~Lost(h, q, 1)
    BY DEF Lost
  <2>2. NameAt(h, 1) = 0
    BY Names
  <2> QED BY <2>1, <2>2 DEF Follows
<1>5. Follows(h, q, j, q.path)
  BY <1>2, <1>3, <1>4, FollowsOn
<1> QED BY <1>5 DEF j

\* cgit shows a commit that it comes to when the log has it.
LEMMA ShowsTheLog ==
    ASSUME LogTyped, WalkInv, left # {}
    PROVE  /\ Newest(left) \in left /\ Newest(left) \in Nat
           /\ Newest(left) \in DOMAIN history
           /\ \A j \in left : Newest(left) <= j
           /\ Newest(left) \in Revisions(history, qry)
           /\ ShowCommit(Newest(left)) <=> Newest(left) \in WholeLog(history, qry)
<1> DEFINE i == Newest(left)
<1>1. /\ i \in left /\ i \in Nat /\ i \in DOMAIN history /\ \A j \in left : i <= j
      /\ i \in Revisions(history, qry)
  <2>1. left \in SUBSET Nat /\ left \subseteq DOMAIN history
    BY LogIsFinite DEF LogTyped, WalkInv
  <2>2. i \in left /\ \A j \in left : i <= j
    BY <2>1, NewestIsLeft
  <2> QED BY <2>1, <2>2 DEF WalkInv
<1> HIDE DEF i
<1>2. i = Newest(left)
  BY DEF i
<1>3. ShowCommit(i) <=> i \in WholeLog(history, qry)
  <2>1. CASE ~qry.follow
    BY <1>1, <2>1 DEF ShowCommit, WholeLog
  <2>2. CASE qry.follow
    <3>1. /\ Follows(history, qry, i, pathspec) /\ pathspec \in Nat /\ qry.path \in Nat
          /\ NameAt(history, i) \in Nat
      <4>1. qry.path \in Nat /\ pathspec \in Nat
        BY <2>2 DEF LogTyped, Request
      <4>2. Follows(history, qry, i, pathspec)
        BY <1>2, <2>2 DEF WalkInv
      <4>3. NameAt(history, i) \in Nat
        BY <1>1, Names DEF LogTyped
      <4> QED BY <4>1, <4>2, <4>3
    <3>2. ShowCommit(i) <=>
              /\ history[i].kind # "merge" /\ ~Root(history, i)
              /\ \/ history[i].kind = "modify" /\ pathspec = NameAt(history, i)
                 \/ /\ history[i].kind = "rename"
                    /\ pathspec \in {NameAt(history, i), NameAt(history, i) + 1}
      BY <2>2 DEF ShowCommit, Touches
    <3>3. i \in WholeLog(history, qry) <=> About(history, qry, i)
      BY <1>1, <2>2 DEF WholeLog
    <3>4. CASE Lost(history, qry, i)
      BY <3>1, <3>2, <3>3, <3>4 DEF Follows, About
    <3>5. CASE ~Lost(history, qry, i)
      BY <3>1, <3>2, <3>3, <3>5 DEF Follows, About
    <3> QED BY <3>4, <3>5
  <2> QED BY <2>1, <2>2
<1> QED BY <1>1, <1>2, <1>3

\* A commit of the walk, in either loop (get_revision, cgit_log_show_commit)
LEMMA WalkStep ==
    ASSUME LogTyped, WalkInv, left # {}, Walk(Newest(left)), UNCHANGED <<history, qry>>
    PROVE  /\ WalkInv'
           /\ qry.follow => pathspec' \in Nat
           /\ vpath' \in Nat \cup {None} /\ (qry.follow => vpath' # None)
<1> DEFINE i == Newest(left)
           j == Newest(left')
           name == IF history[i].kind = "rename" /\ pathspec = NameAt(history, i)
                   THEN pathspec + 1 ELSE pathspec
<1>1. /\ i \in left /\ i \in Nat /\ i \in DOMAIN history
      /\ \A k \in left : i <= k
      /\ i \in Revisions(history, qry)
  BY ShowsTheLog
<1>2. left' = left \ {i}
  BY DEF Walk
<1>3. /\ left \subseteq Revisions(history, qry) /\ left \in SUBSET Nat
      /\ Revisions(history, qry) \subseteq DOMAIN history
      /\ Revisions(history, qry) \in SUBSET Nat
      /\ history \in Seq(Commit) /\ DOMAIN history = 1 .. Len(history)
      /\ Len(history) \in Nat
  BY LogIsFinite DEF WalkInv, LogTyped
<1>4. \A k \in Revisions(history, qry) \ left' : \A m \in left' : k < m
  <2> SUFFICES ASSUME NEW k \in Revisions(history, qry) \ left', NEW m \in left'
               PROVE  k < m
    OBVIOUS
  <2>1. m \in left /\ m # i /\ i <= m /\ m \in Nat /\ i \in Nat
    BY <1>1, <1>2, <1>3
  <2>2. CASE k = i
    BY <2>1, <2>2
  <2>3. CASE k # i
    BY <1>2, <2>1, <2>3 DEF WalkInv
  <2> QED BY <2>2, <2>3
<1>5. ASSUME qry.follow
      PROVE  qry.path \in Nat /\ pathspec \in Nat /\ vpath \in Nat
  BY <1>5 DEF LogTyped, Request
<1>6. qry.follow => pathspec' \in Nat
  BY <1>5 DEF Walk, PathspecAfter
<1>7. vpath' \in Nat \cup {None} /\ (qry.follow => vpath' # None)
  BY <1>5, NoRequestAssumption DEF LogTyped, Walk, VpathAfter
<1>8. ~qry.follow => vpath' = qry.path
  BY DEF WalkInv, Walk, VpathAfter
<1>9. ASSUME qry.follow, left' # {}
      PROVE  Follows(history, qry, j, pathspec')
  <2>1. j \in left' /\ \A k \in left' : j <= k
    BY <1>2, <1>3, <1>9, NewestIsLeft
  <2>2. j \in left /\ j # i /\ j \in Nat /\ j \in DOMAIN history /\ i < j
    <3> HIDE DEF i, j
    <3> QED BY <1>1, <1>2, <1>3, <2>1
  <2> HIDE DEF j
  <2>3. /\ i + 1 \in DOMAIN history /\ i + 1 <= j /\ ~Root(history, i)
    BY <1>1, <1>3, <2>2 DEF Root
  <2>4. \A k \in (i + 1) .. j - 1 : k \notin Revisions(history, qry)
    <3> SUFFICES ASSUME NEW k \in (i + 1) .. j - 1, k \in Revisions(history, qry)
                 PROVE  FALSE
      OBVIOUS
    <3>1. k \in Nat /\ i < k /\ k < j
      BY <1>1, <2>2
    <3>2. k \notin left'
      BY <2>1, <2>2, <3>1
    <3>3. k \notin left
      BY <1>2, <3>1, <3>2
    <3>4. k < i
      BY <1>1, <3>3 DEF WalkInv
    <3> QED BY <1>1, <3>1, <3>4
  <2>5. pathspec' = name
    <3>1. pathspec' = PathspecAfter(i)
      BY <1>9 DEF Walk
    <3>2. history[i].kind = "rename" /\ pathspec = NameAt(history, i) => ShowCommit(i)
      BY <2>3 DEF ShowCommit, Touches
    <3> QED BY <3>1, <3>2 DEF PathspecAfter
  <2>6. Follows(history, qry, i, pathspec)
    BY <1>1, <1>9 DEF WalkInv
  <2>7. Follows(history, qry, i + 1, name) /\ name \in Nat
    <3> HIDE DEF i
    <3> QED BY <1>1, <1>3, <1>5, <1>9, <2>3, <2>6, FollowsBeyond
  <2> HIDE DEF i, name
  <2> QED BY <1>3, <1>5, <1>9, <2>2, <2>3, <2>4, <2>5, <2>7, FollowsOn
<1>10. WalkInv'
  <2> HIDE DEF i, j
  <2>1. left' \subseteq Revisions(history, qry)
    BY <1>2, <1>3
  <2>2. qry.follow /\ left' # {} => Follows(history, qry, Newest(left'), pathspec')
    BY <1>9 DEF j
  <2> QED BY <1>4, <1>8, <2>1, <2>2 DEF WalkInv
<1> QED BY <1>6, <1>7, <1>10

\* The commits that the walk has passed are the first ones of the log.
LEMMA PassedFirst ==
    ASSUME LogTyped, WalkInv
    PROVE  /\ IsFiniteSet(Passed) /\ Cardinality(Passed) \in Nat
           /\ First \in Nat
           /\ \A i \in WholeLog(history, qry) :
                 /\ Rank(WholeLog(history, qry), i) \in Nat
                 /\ i \notin left => Rank(WholeLog(history, qry), i) < Cardinality(Passed)
                 /\ i \in left => Rank(WholeLog(history, qry), i) >= Cardinality(Passed)
<1> DEFINE W == WholeLog(history, qry)
<1>1. W \in SUBSET Nat /\ IsFiniteSet(W) /\ W \subseteq Revisions(history, qry)
  BY LogIsFinite DEF LogTyped
<1>2. Passed \in SUBSET W /\ \A i \in W : i \in Passed <=> i \notin left
  BY DEF Passed
<1>3. \A i \in Passed : \A j \in W \ Passed : i < j
  BY <1>1, <1>2 DEF WalkInv
<1>4. IsFiniteSet(Passed) /\ Cardinality(Passed) \in Nat
  BY <1>1, <1>2, FS_Subset, FS_CardinalityType
<1>5. First \in Nat
  BY DEF First, LogTyped, Request
<1> HIDE DEF W
<1>6. \A i \in W : /\ Rank(W, i) \in Nat
                   /\ i \in Passed => Rank(W, i) < Cardinality(Passed)
                   /\ i \notin Passed => Rank(W, i) >= Cardinality(Passed)
  BY <1>1, <1>2, <1>3, RankOfNext
<1> QED BY <1>2, <1>4, <1>5, <1>6 DEF W

\* One more has passed when it is shown, or would be.
LEMMA PassedStep ==
    ASSUME LogTyped, WalkInv, left # {}, Walk(Newest(left)), UNCHANGED <<history, qry>>
    PROVE  Cardinality(Passed') =
               Cardinality(Passed) + (IF ShowCommit(Newest(left)) THEN 1 ELSE 0)
<1> DEFINE i == Newest(left)
<1>1. i \in left /\ (ShowCommit(i) <=> i \in WholeLog(history, qry))
  BY ShowsTheLog
<1>2. Passed' = WholeLog(history, qry) \ (left \ {i})
  BY DEF Passed, Walk
<1>3. IsFiniteSet(Passed) /\ i \notin Passed /\ Cardinality(Passed) \in Nat
  BY <1>1, PassedFirst DEF Passed
<1> HIDE DEF i
<1>4. CASE ShowCommit(i)
  <2>1. Passed' = Passed \cup {i}
    BY <1>1, <1>2, <1>4 DEF Passed
  <2>2. Cardinality(Passed \cup {i}) = Cardinality(Passed) + 1
    BY <1>3, FS_AddElement
  <2> QED BY <1>4, <2>1, <2>2 DEF i
<1>5. CASE ~ShowCommit(i)
  <2>1. Passed' = Passed
    BY <1>1, <1>2, <1>5 DEF Passed
  <2> QED BY <1>3, <1>5, <2>1 DEF i
<1> QED BY <1>4, <1>5

LEMMA StepSkip ==
    ASSUME LogInv, Skip
    PROVE  LogInv'
<1> USE DEF LogInv, Skip
<1>1. WalkInv' /\ (qry.follow => pathspec' \in Nat) /\ vpath' \in Nat \cup {None}
      /\ (qry.follow => vpath' # None)
  BY WalkStep
<1>2. /\ Cardinality(Passed') =
             Cardinality(Passed) + (IF ShowCommit(Newest(left)) THEN 1 ELSE 0)
      /\ Cardinality(Passed) \in Nat
  BY PassedStep, PassedFirst
<1>3. count' \in Nat /\ LogTyped'
  BY <1>1 DEF LogTyped
<1>4. RowsOwnCommit'
  BY DEF RowsOwnCommit
<1>5. CountInv'
  <2>1. First = qry.ofs /\ First' = First /\ qry.ofs \in Int /\ count \in Nat
    BY DEF First, LogTyped, Request
  <2>2. count' <= First' /\ Cardinality(Passed') = count'
    BY <1>2, <2>1 DEF CountInv
  <2> QED BY <2>2 DEF CountInv
<1>6. SeenInv'
  BY DEF SeenInv, First, Earlier
<1> QED BY <1>1, <1>3, <1>4, <1>5, <1>6

LEMMA StepSkipDone ==
    ASSUME LogInv, SkipDone
    PROVE  LogInv'
<1> USE DEF LogInv, SkipDone
<1>1. LogTyped'
  BY DEF LogTyped
<1>2. WalkInv'
  BY DEF WalkInv
<1>3. RowsOwnCommit'
  BY DEF RowsOwnCommit
<1>4. /\ First \in Nat /\ First' = First /\ Passed' = Passed
      /\ count <= First /\ Cardinality(Passed) = count /\ count \in Nat
      /\ shown = <<>> /\ shown' = <<>> /\ PageSize \in Nat
  BY PassedFirst, OffsetAssumption DEF First, Passed, CountInv, LogTyped
<1>5. left # {} => count = First
  BY <1>4 DEF First
<1>6. CountInv'
  <2>1. Len(shown') = 0 /\ count' = 0 /\ log_pc' = "show"
    BY <1>4
  <2> QED BY <1>4, <1>5, <2>1 DEF CountInv
<1>7. SeenInv'
  <2>1. \A i \in WholeLog(history, qry) :
            i \notin left => Rank(WholeLog(history, qry), i) < First
    BY <1>4, PassedFirst DEF LogTyped
  <2>2. Earlier' = Earlier
    BY DEF Earlier
  <2> QED BY <1>4, <2>1, <2>2 DEF SeenInv
<1> QED BY <1>1, <1>2, <1>3, <1>6, <1>7

\* A row carries the name of its commit (handle_rename) and its own counts
\* (cgit_log_reset_lines_counted).
LEMMA RowOfShow ==
    ASSUME LogInv, Show, ShowCommit(Newest(left))
    PROVE  LET i == Newest(left)
               row == [commit |-> i, path |-> VpathAfter(i), counted |-> i]
           IN  /\ shown' = Append(shown, row)
               /\ row \in [commit : Nat, path : Nat \cup {None}, counted : Nat]
               /\ VpathAfter(i) # None => Touches(history, i, VpathAfter(i))
<1> DEFINE i == Newest(left)
<1> USE DEF LogInv, Show
<1>1. /\ i \in left /\ i \in Nat /\ i \in DOMAIN history /\ i \in Revisions(history, qry)
  BY ShowsTheLog
<1>2. shown' = Append(shown, [commit |-> i, path |-> VpathAfter(i), counted |-> i])
  <2>1. lines_counted' = Diffed(i)
    OBVIOUS
  <2>2. counted' = IF ShowCommit(i) /\ ~lines_counted' THEN i ELSE CountedBy(i)
    OBVIOUS
  <2>3. counted' = i
    <3>1. CASE Diffed(i)
      BY <2>2, <3>1 DEF CountedBy
    <3>2. CASE ~Diffed(i)
      BY <2>1, <2>2, <3>2
    <3> QED BY <3>1, <3>2
  <2>4. shown' = Append(shown, [commit |-> i, path |-> VpathAfter(i), counted |-> counted'])
    OBVIOUS
  <2> QED BY <2>3, <2>4
<1>3. vpath' = VpathAfter(i) /\ vpath' \in Nat \cup {None}
  BY WalkStep DEF Walk
<1>4. VpathAfter(i) # None => Touches(history, i, VpathAfter(i))
  <2>1. CASE qry.follow
    BY <2>1 DEF VpathAfter, ShowCommit
  <2>2. CASE ~qry.follow
    <3>1. VpathAfter(i) = qry.path
      BY <2>2 DEF VpathAfter, WalkInv
    <3> QED BY <1>1, <2>2, <3>1 DEF Revisions
  <2> QED BY <2>1, <2>2
<1> QED BY <1>1, <1>2, <1>3, <1>4

\* One more at the end of a sequence of numbers of commits
LEMMA Appended ==
    ASSUME NEW T, NEW s \in Seq(T), NEW x \in T, NEW t, t = Append(s, x)
    PROVE  /\ t \in Seq(T) /\ Len(s) \in Nat /\ Len(t) = Len(s) + 1
           /\ DOMAIN s = 1 .. Len(s) /\ DOMAIN t = 1 .. Len(s) + 1
           /\ \A k \in DOMAIN s : t[k] = s[k]
           /\ t[Len(s) + 1] = x
           /\ \A k \in DOMAIN t : k \in DOMAIN s \/ k = Len(s) + 1
           /\ {t[n] : n \in DOMAIN t} = {s[n] : n \in DOMAIN s} \cup {x}
<1>1. /\ t \in Seq(T) /\ Len(s) \in Nat /\ Len(t) = Len(s) + 1
      /\ DOMAIN s = 1 .. Len(s) /\ DOMAIN t = 1 .. Len(s) + 1
      /\ \A k \in DOMAIN s : t[k] = s[k]
      /\ t[Len(s) + 1] = x
  OBVIOUS
<1>2. \A k \in DOMAIN t : k \in DOMAIN s \/ k = Len(s) + 1
  BY <1>1
<1>3. \A k \in DOMAIN s : k \in DOMAIN t
  BY <1>1
<1>4. Len(s) + 1 \in DOMAIN t
  BY <1>1
<1>5. {t[n] : n \in DOMAIN t} = {s[n] : n \in DOMAIN s} \cup {x}
  BY <1>1, <1>2, <1>3, <1>4
<1> QED BY <1>1, <1>2, <1>5

\* The rows of the page after Show
LEMMA ShowRows ==
    ASSUME LogInv, Show, ShowCommit(Newest(left))
    PROVE  /\ shown' \in Seq([commit : Nat, path : Nat \cup {None}, counted : Nat])
           /\ Len(shown') = Len(shown) + 1 /\ Len(shown) \in Nat
           /\ RowsOwnCommit'
<1> DEFINE Rows == [commit : Nat, path : Nat \cup {None}, counted : Nat]
           i == Newest(left)
           row == [commit |-> i, path |-> VpathAfter(i), counted |-> i]
<1>1. /\ shown' = Append(shown, row) /\ row \in Rows
      /\ row.path # None => Touches(history, row.commit, row.path)
      /\ row.counted = row.commit
  BY RowOfShow
<1>2. shown \in Seq(Rows) /\ RowsOwnCommit /\ history' = history
  BY DEF LogInv, LogTyped, Show
<1> HIDE DEF Rows, row
<1>3. /\ shown' \in Seq(Rows) /\ Len(shown') = Len(shown) + 1 /\ Len(shown) \in Nat
      /\ \A k \in DOMAIN shown' : k \in DOMAIN shown \/ k = Len(shown) + 1
      /\ \A k \in DOMAIN shown : shown'[k] = shown[k]
      /\ shown'[Len(shown) + 1] = row
  BY <1>1, <1>2, Appended
<1>4. RowsOwnCommit'
  BY <1>1, <1>2, <1>3 DEF RowsOwnCommit
<1> QED BY <1>3, <1>4 DEF Rows

LEMMA StepShow ==
    ASSUME LogInv, Show
    PROVE  LogInv'
<1> DEFINE i == Newest(left)
           W == WholeLog(history, qry)
           Rows == [commit : Nat, path : Nat \cup {None}, counted : Nat]
<1>0. LogTyped /\ WalkInv /\ RowsOwnCommit /\ CountInv /\ SeenInv
  BY DEF LogInv
<1>s. /\ left # {} /\ Walk(i) /\ log_pc = "show" /\ count < PageSize
      /\ UNCHANGED <<history, qry, log_pc, links, strayed>>
  BY DEF Show
<1>1. WalkInv' /\ (qry.follow => pathspec' \in Nat) /\ vpath' \in Nat \cup {None}
      /\ (qry.follow => vpath' # None)
  BY <1>0, <1>s, WalkStep
<1>2. /\ Cardinality(Passed') = Cardinality(Passed) + (IF ShowCommit(i) THEN 1 ELSE 0)
      /\ Cardinality(Passed) \in Nat /\ First \in Nat /\ First' = First
  BY <1>0, <1>s, PassedStep, PassedFirst DEF First
<1>3. /\ i \in left /\ i \in Nat /\ (ShowCommit(i) <=> i \in W)
      /\ left' = left \ {i} /\ \A j \in left : i <= j
  BY <1>0, <1>s, ShowsTheLog DEF Walk
<1>4. /\ Cardinality(Passed) = First + count /\ Len(shown) = count
      /\ count \in Nat /\ PageSize \in Nat /\ count < PageSize
  BY <1>0, <1>s, OffsetAssumption DEF CountInv, LogTyped
<1>5. \A j \in W : /\ Rank(W, j) \in Nat
                   /\ j \notin left => Rank(W, j) < First + count
                   /\ j \in left => Rank(W, j) >= First + count
  BY <1>0, <1>4, PassedFirst
<1>6. CASE ShowCommit(i)
  <2>1. shown' \in Seq(Rows) /\ Len(shown') = Len(shown) + 1 /\ RowsOwnCommit'
    BY <1>6, ShowRows
  <2>2. seen \in Seq(Nat) /\ seen' = Append(seen, i) /\ count' = count + 1
    BY <1>0, <1>6 DEF Show, LogTyped
  <2>3. /\ seen' \in Seq(Nat) /\ Len(seen) \in Nat /\ Len(seen') = Len(seen) + 1
        /\ DOMAIN seen = 1 .. Len(seen)
        /\ \A k \in DOMAIN seen : seen'[k] = seen[k]
        /\ seen'[Len(seen) + 1] = i
        /\ \A k \in DOMAIN seen' : k \in DOMAIN seen \/ k = Len(seen) + 1
        /\ {seen'[n] : n \in DOMAIN seen'} = {seen[n] : n \in DOMAIN seen} \cup {i}
    <3> HIDE DEF i
    <3> QED BY <1>3, <2>2, Appended
  <2> HIDE DEF i, W, Rows
  <2>4. LogTyped'
    <3>1. count' \in Nat
      BY <1>4, <2>2
    <3> QED BY <1>0, <1>1, <1>s, <2>1, <2>3, <3>1 DEF LogTyped, Rows
  <2>6. CountInv'
    BY <1>2, <1>4, <1>6, <1>s, <2>1, <2>2 DEF CountInv
  <2>7. ASSUME ~strayed PROVE SeenInv'
    <3>1. Earlier' = Earlier /\ Earlier \in Nat /\ Earlier <= First
      <4>1. Earlier \in 0 .. First
        BY <1>0, <2>7 DEF SeenInv
      <4>2. Earlier' = Earlier
        BY <1>4, <2>1, <2>3 DEF Earlier
      <4> QED BY <1>2, <4>1, <4>2
    <3>2. \A m \in DOMAIN seen : seen[m] < i
      <4> SUFFICES ASSUME NEW m \in DOMAIN seen PROVE seen[m] < i
        OBVIOUS
      <4>1. seen[m] \in W /\ (Rank(W, seen[m]) < First \/ seen[m] \notin left)
        BY <1>0, <2>7 DEF SeenInv, W
      <4>2. seen[m] \notin left
        BY <1>2, <1>4, <1>5, <4>1
      <4> QED BY <1>0, <1>3, <4>1, <4>2 DEF WalkInv, WholeLog, W
    <3>3. \A m, n \in DOMAIN seen' : m < n => seen'[m] < seen'[n]
      <4> SUFFICES ASSUME NEW m \in DOMAIN seen', NEW n \in DOMAIN seen', m < n
                   PROVE  seen'[m] < seen'[n]
        OBVIOUS
      <4>1. \A k \in DOMAIN seen : \A l \in DOMAIN seen : k < l => seen[k] < seen[l]
        BY <1>0, <2>7 DEF SeenInv
      <4>2. m \in DOMAIN seen \/ m = Len(seen) + 1
        BY <2>3
      <4>3. n \in DOMAIN seen \/ n = Len(seen) + 1
        BY <2>3
      <4>4. m \in DOMAIN seen
        <5>1. \A k \in DOMAIN seen : k \in Nat /\ k <= Len(seen)
          BY <2>3
        <5> QED BY <2>3, <4>2, <4>3, <5>1
      <4> QED BY <2>3, <3>2, <4>1, <4>3, <4>4
    <3>5. ASSUME NEW j \in W
          PROVE  LET r == Rank(W, j)
                 IN  (r >= First - Earlier /\ (r < First \/ j \notin left')) <=>
                     (r >= First - Earlier /\ (r < First \/ j \notin left)) \/ j = i
      <4>1. CASE j = i
        <5>1. Rank(W, j) >= First - Earlier
          BY <1>2, <1>3, <1>4, <1>5, <3>1, <4>1
        <5> QED BY <1>3, <4>1, <5>1
      <4>2. CASE j # i
        BY <1>3, <4>2
      <4> QED BY <4>1, <4>2
    <3>6. i \in W
      BY <1>3, <1>6
    <3>7. {seen[n] : n \in DOMAIN seen} =
              {j \in W : LET r == Rank(W, j)
                         IN  r >= First - Earlier /\ (r < First \/ j \notin left)}
      BY <1>0, <1>s, <2>7 DEF SeenInv, W
    <3>8. {seen'[n] : n \in DOMAIN seen'} =
              {j \in W : LET r == Rank(W, j)
                         IN  r >= First - Earlier /\ (r < First \/ j \notin left')}
      BY <2>3, <3>5, <3>6, <3>7
    <3> QED BY <1>2, <1>s, <3>1, <3>3, <3>8 DEF SeenInv, W
  <2>8. SeenInv'
    BY <1>s, <2>7 DEF SeenInv
  <2> QED BY <1>1, <2>1, <2>4, <2>6, <2>8 DEF LogInv
<1>7. CASE ~ShowCommit(i)
  <2>1. shown' = shown /\ seen' = seen /\ count' = count
    BY <1>7 DEF Show
  <2> HIDE DEF i, W, Rows
  <2>2. LogTyped'
    BY <1>0, <1>1, <1>s, <2>1 DEF LogTyped
  <2>3. RowsOwnCommit'
    BY <1>0, <1>s, <2>1 DEF RowsOwnCommit
  <2>4. CountInv'
    BY <1>2, <1>4, <1>7, <1>s, <2>1 DEF CountInv
  <2>5. SeenInv'
    <3>1. \A j \in W : j \notin left' <=> j \notin left
      BY <1>3, <1>7
    <3>2. Earlier' = Earlier /\ First' = First
      BY <1>2, <2>1 DEF Earlier
    <3> QED BY <1>0, <1>s, <2>1, <3>1, <3>2 DEF SeenInv, W
  <2> QED BY <1>1, <2>2, <2>3, <2>4, <2>5 DEF LogInv
<1> QED BY <1>6, <1>7

LEMMA StepEndPage ==
    ASSUME LogInv, EndPage
    PROVE  LogInv'
<1> USE DEF LogInv, EndPage
<1>1. links' = Pager'
  BY DEF Pager
<1>2. LogTyped'
  BY <1>1 DEF LogTyped
<1>3. WalkInv' /\ RowsOwnCommit' /\ CountInv'
  BY DEF WalkInv, RowsOwnCommit, CountInv, First, Passed
<1>4. SeenInv'
  BY DEF SeenInv, First, Earlier
<1> QED BY <1>2, <1>3, <1>4

\* The next request starts with what the link carries (cgit_print_log up to its loops).
LEMMA BeginTyped ==
    ASSUME NEW q \in Request, q.follow => q.path # None, BeginPage(q), history' = history,
           history \in Seq(Commit), strayed' \in BOOLEAN, seen' \in Seq(Nat)
    PROVE  LogTyped' /\ WalkInv' /\ RowsOwnCommit' /\ CountInv' /\ qry' = q
<1>1. qry' = q
  BY DEF BeginPage, Request
<1>2. LogTyped'
  BY <1>1, NoRequestAssumption DEF BeginPage, LogTyped, Request
<1>3. WalkInv'
  <2>1. left' = Revisions(history, q) /\ pathspec' = q.path /\ vpath' = q.path
    BY <1>1 DEF BeginPage
  <2>2. ASSUME q.follow, Revisions(history, q) # {}
        PROVE  Follows(history, q, Newest(Revisions(history, q)), q.path)
    BY <2>2, FollowsFirst DEF Request
  <2> QED BY <1>1, <2>1, <2>2 DEF WalkInv
<1>4. RowsOwnCommit'
  BY DEF BeginPage, RowsOwnCommit
<1>5. CountInv'
  <2>1. Passed' = {}
    BY DEF BeginPage, Passed, WholeLog
  <2>2. Cardinality(Passed') = 0
    BY <2>1, FS_EmptySet
  <2>3. First' \in Nat
    BY <1>1 DEF First, Request
  <2> QED BY <2>2, <2>3 DEF CountInv, BeginPage
<1> QED BY <1>1, <1>2, <1>3, <1>4, <1>5

\* What the pager links to is a request like any other.
LEMMA PagerTyped ==
    ASSUME LogTyped, log_pc = "done", NEW l \in {"prev", "next", "more"}, links[l] # None
    PROVE  /\ links[l] \in Request
           /\ links[l].path = vpath /\ links[l].follow = qry.follow
           /\ l = "next" => /\ qry.pager /\ left # {}
                            /\ links[l] = [qry EXCEPT !.path = vpath, !.ofs = First + PageSize]
<1> DEFINE to(o) == [qry EXCEPT !.path = vpath, !.ofs = IF o > 0 THEN o ELSE 0]
<1>1. links = Pager
  BY DEF LogTyped
<1>2. First \in Nat /\ PageSize \in Nat /\ First = IF qry.ofs < 0 THEN 0 ELSE qry.ofs
  BY OffsetAssumption DEF First, LogTyped, Request
<1>3. ASSUME NEW o \in Int
      PROVE  to(o) \in Request /\ to(o).path = vpath /\ to(o).follow = qry.follow
  <2>1. (IF o > 0 THEN o ELSE 0) \in Int
    OBVIOUS
  <2>2. qry \in Request /\ vpath \in Nat \cup {None}
    BY DEF LogTyped
  <2>3. ASSUME NEW q \in Request, NEW v \in Nat \cup {None}, NEW m \in Int
        PROVE  LET r == [q EXCEPT !.path = v, !.ofs = m]
               IN  r \in Request /\ r.path = v /\ r.follow = q.follow
    BY DEF Request
  <2> QED BY <2>1, <2>2, <2>3
<1>4. CASE l = "prev"
  <2>1. links[l] = to(First - PageSize)
    BY <1>1, <1>2, <1>4 DEF Pager
  <2>2. First - PageSize \in Int
    BY <1>2
  <2> HIDE DEF to
  <2> QED BY <1>3, <1>4, <2>1, <2>2
<1>5. CASE l = "next"
  <2>1. links[l] = to(First + PageSize) /\ qry.pager /\ left # {}
    BY <1>1, <1>2, <1>5 DEF Pager
  <2>2. First + PageSize \in Int /\ (First + PageSize > 0 \/ First + PageSize = 0)
    BY <1>2
  <2>3. to(First + PageSize) = [qry EXCEPT !.path = vpath, !.ofs = First + PageSize]
    BY <2>2
  <2> HIDE DEF to
  <2> QED BY <1>3, <1>5, <2>1, <2>2, <2>3
<1>6. CASE l = "more"
  <2>1. links[l] = [to(0) EXCEPT !.search = FALSE]
    BY <1>1, <1>6 DEF Pager
  <2> HIDE DEF to
  <2>2. to(0) \in Request /\ to(0).path = vpath /\ to(0).follow = qry.follow
    BY <1>3
  <2> QED BY <1>6, <2>1, <2>2 DEF Request
<1> QED BY <1>4, <1>5, <1>6

\* A page that links to the next one is full.
LEMMA FullPage ==
    ASSUME LogInv, log_pc = "done", left # {}
    PROVE  count = PageSize /\ Len(shown) = PageSize
           /\ Cardinality(Passed) = First + PageSize
BY OffsetAssumption DEF LogInv, LogTyped, CountInv

\* The numbers of a log's commits, and where nothing has been seen of it
LEMMA NothingSeen ==
    ASSUME NEW h \in Seq(Commit), NEW q, NEW n \in Nat
    PROVE  /\ \A i \in WholeLog(h, q) : Rank(WholeLog(h, q), i) \in Nat
           /\ {i \in WholeLog(h, q) :
                  LET r == Rank(WholeLog(h, q), i) IN  r >= n - 0 /\ r < n} = {}
<1>1. \A i \in WholeLog(h, q) : Rank(WholeLog(h, q), i) \in Nat
  <2>1. WholeLog(h, q) \in SUBSET Nat /\ IsFiniteSet(WholeLog(h, q))
    BY LogIsFinite
  <2> QED BY <2>1, RankOfNext
<1> QED BY <1>1

\* A request with nothing seen yet, the first one or one that goes elsewhere
LEMMA SeesNothing ==
    ASSUME LogTyped, log_pc = "skip", seen = <<>>, shown = <<>>
    PROVE  SeenInv
<1>1. First \in Nat /\ Earlier = 0 /\ DOMAIN seen = {}
  BY DEF First, Earlier, LogTyped, Request
<1>2. {seen[n] : n \in DOMAIN seen} = {}
  BY <1>1
<1>3. {i \in WholeLog(history, qry) :
          LET r == Rank(WholeLog(history, qry), i)
          IN  r >= First - Earlier /\ (r < First \/ (log_pc # "skip" /\ i \notin left))} = {}
  BY <1>1, NothingSeen DEF LogTyped
<1> QED BY <1>1, <1>2, <1>3 DEF SeenInv

LEMMA StepGoNext ==
    ASSUME LogInv, GoNext
    PROVE  LogInv'
<1> DEFINE q == links.next
           W == WholeLog(history, qry)
<1>1. /\ LogTyped /\ log_pc = "done" /\ links["next"] # None /\ BeginPage(q)
      /\ strayed' = (strayed \/ q.path # qry.path)
      /\ history' = history /\ seen' = seen
  BY DEF GoNext, LogInv
<1>2. /\ q \in Request /\ q.path = vpath /\ q.follow = qry.follow /\ left # {}
      /\ q = [qry EXCEPT !.path = vpath, !.ofs = First + PageSize]
  BY <1>1, PagerTyped
<1> HIDE DEF q
<1>3. /\ history \in Seq(Commit) /\ seen \in Seq(Nat) /\ strayed' \in BOOLEAN
      /\ q.follow => q.path # None
  BY <1>1, <1>2 DEF LogTyped
<1>4. LogTyped' /\ WalkInv' /\ RowsOwnCommit' /\ CountInv' /\ qry' = q
  BY <1>1, <1>2, <1>3, BeginTyped
<1>5. ASSUME ~strayed' PROVE SeenInv'
  <2>1. ~strayed /\ q.path = qry.path
    BY <1>1, <1>5
  <2>2. /\ q.search = qry.search /\ q.follow = qry.follow /\ q.path = qry.path
        /\ q.ofs = First + PageSize
    BY <1>1, <1>2, <2>1 DEF LogTyped, Request
  <2>3. WholeLog(history, q) = W
    BY <2>2 DEF WholeLog, Revisions, About, Lost
  <2>4. /\ First \in Nat /\ PageSize \in Nat /\ First' = First + PageSize
    <3>1. First \in Nat /\ PageSize \in Nat
      BY <1>1, OffsetAssumption DEF First, LogTyped, Request
    <3> QED BY <1>4, <2>2, <3>1 DEF First
  <2>5. Earlier \in 0 .. First /\ Earlier' = Earlier + PageSize
    <3>1. Len(shown) = PageSize
      BY <1>1, <1>2, FullPage
    <3>2. Len(shown') = 0
      BY <1>1 DEF BeginPage
    <3>3. Earlier \in 0 .. First /\ Len(seen) \in Nat
      BY <1>3, <2>1 DEF LogInv, SeenInv
    <3> QED BY <1>1, <2>4, <3>1, <3>2, <3>3 DEF Earlier
  <2>6. \A i \in W : /\ Rank(W, i) \in Nat
                     /\ i \notin left <=> Rank(W, i) < First + PageSize
    <3>1. Cardinality(Passed) = First + PageSize
      BY <1>1, <1>2, FullPage
    <3>2. \A i \in W : /\ Rank(W, i) \in Nat
                       /\ i \notin left => Rank(W, i) < First + PageSize
                       /\ i \in left => Rank(W, i) >= First + PageSize
      BY <3>1, PassedFirst DEF LogInv
    <3> QED BY <2>4, <3>2
  <2>7. {seen[n] : n \in DOMAIN seen} =
            {i \in W : Rank(W, i) >= First - Earlier
                       /\ (Rank(W, i) < First \/ i \notin left)}
    BY <1>1, <2>1 DEF LogInv, SeenInv
  <2> HIDE DEF W
  <2>8. {seen[n] : n \in DOMAIN seen} =
            {i \in W : Rank(W, i) >= First' - Earlier' /\ Rank(W, i) < First'}
    <3>1. First' - Earlier' = First - Earlier /\ First' = First + PageSize
      BY <2>4, <2>5
    <3>2. \A i \in W : (Rank(W, i) < First \/ i \notin left) <=> Rank(W, i) < First + PageSize
      BY <2>4, <2>6
    <3> QED BY <2>7, <3>1, <3>2
  <2>9. log_pc' = "skip" /\ WholeLog(history', qry') = W
    BY <1>1, <1>4, <2>3 DEF BeginPage
  <2>10. \A m, n \in DOMAIN seen : m < n => seen[m] < seen[n]
    BY <2>1 DEF LogInv, SeenInv
  <2>11. Earlier' \in 0 .. First'
    BY <2>4, <2>5
  <2> QED BY <1>1, <2>8, <2>9, <2>10, <2>11 DEF SeenInv
<1>6. SeenInv'
  BY <1>5 DEF SeenInv
<1> QED BY <1>4, <1>6 DEF LogInv

LEMMA StepGoElsewhere ==
    ASSUME LogInv, GoElsewhere
    PROVE  LogInv'
<1>1. PICK l \in {"prev", "more"} :
          links[l] # None /\ BeginPage([links[l] EXCEPT !.pager = TRUE])
  BY DEF GoElsewhere
<1> DEFINE q == [links[l] EXCEPT !.pager = TRUE]
<1>2. /\ LogTyped /\ log_pc = "done" /\ BeginPage(q) /\ seen' = <<>> /\ history' = history
      /\ strayed' = (strayed \/ qry'.path # qry.path)
  BY <1>1 DEF GoElsewhere, LogInv
<1>3. q \in Request /\ (q.follow => q.path # None)
  <2>1. links[l] \in Request /\ links[l].path = vpath /\ links[l].follow = qry.follow
    BY <1>1, <1>2, PagerTyped
  <2>2. qry.follow => vpath # None
    BY <1>2 DEF LogTyped
  <2> QED BY <2>1, <2>2 DEF Request
<1> HIDE DEF q
<1>4. history \in Seq(Commit) /\ seen' \in Seq(Nat) /\ strayed' \in BOOLEAN
  BY <1>2 DEF LogTyped
<1>5. LogTyped' /\ WalkInv' /\ RowsOwnCommit' /\ CountInv'
  BY <1>2, <1>3, <1>4, BeginTyped
<1>6. log_pc' = "skip" /\ shown' = <<>>
  BY <1>2 DEF BeginPage
<1>7. SeenInv'
  <2>1. First' \in Nat /\ Earlier' = 0 /\ DOMAIN seen' = {}
    BY <1>2, <1>5, <1>6 DEF First, Earlier, LogTyped, Request
  <2>2. {seen'[n] : n \in DOMAIN seen'} = {}
    BY <2>1
  <2>3. {i \in WholeLog(history', qry') :
            LET r == Rank(WholeLog(history', qry'), i)
            IN  r >= First' - 0 /\ r < First'} = {}
    BY <1>2, <1>4, <2>1, NothingSeen
  <2> QED BY <1>6, <2>1, <2>2, <2>3 DEF SeenInv
<1> QED BY <1>5, <1>7 DEF LogInv

LEMMA InitialLog ==
    ASSUME LogInit
    PROVE  LogInv
<1>1. /\ history \in Seq(Commit) /\ qry \in Request /\ vpath = qry.path /\ pathspec = qry.path
      /\ left = Revisions(history, qry) /\ (qry.follow => qry.path \in Nat)
      /\ vpath \in Nat \cup {None}
  <2>1. PICK p \in FirstPaths \cup {None}, o \in Offsets, f, s, g \in BOOLEAN :
            LET q == [path |-> p, ofs |-> o, follow |-> f /\ p # None,
                      search |-> s, pager |-> g]
            IN  qry = q /\ vpath = p /\ pathspec = p /\ left = Revisions(history, q)
    BY DEF LogInit
  <2>2. p \in Nat \cup {None} /\ o \in Int /\ (p # None => p \in Nat)
    BY PathAssumption, OffsetAssumption
  <2>3. (f /\ p # None) \in BOOLEAN
    OBVIOUS
  <2>4. qry \in Request /\ qry.path = p /\ (qry.follow => p # None)
    BY <2>1, <2>2, <2>3 DEF Request
  <2> QED BY <2>1, <2>2, <2>4, HistoryAssumption DEF LogInit
<1>2. /\ log_pc = "skip" /\ count = 0 /\ shown = <<>> /\ links = NoLinks /\ seen = <<>>
      /\ strayed = FALSE
  BY DEF LogInit
<1>3. LogTyped
  <2>1. qry.follow => qry.path # None /\ pathspec \in Nat /\ vpath # None
    BY <1>1, NoRequestAssumption
  <2>2. /\ shown \in Seq([commit : Nat, path : Nat \cup {None}, counted : Nat])
        /\ seen \in Seq(Nat)
    BY <1>2
  <2>3. /\ log_pc \in {"skip", "show", "done"} /\ strayed \in BOOLEAN /\ count \in Nat
        /\ links = IF log_pc = "done" THEN Pager ELSE NoLinks
    BY <1>2
  <2> QED BY <1>1, <2>1, <2>2, <2>3 DEF LogTyped
<1>4. WalkInv
  BY <1>1, FollowsFirst DEF WalkInv
<1>5. RowsOwnCommit
  BY <1>2 DEF RowsOwnCommit
<1>6. CountInv
  <2>1. Passed = {} /\ First \in Nat
    BY <1>1 DEF Passed, WholeLog, First, Request
  <2>2. Cardinality(Passed) = 0
    BY <2>1, FS_EmptySet
  <2> QED BY <1>2, <2>1, <2>2 DEF CountInv
<1>7. SeenInv
  BY <1>2, <1>3, SeesNothing
<1> QED BY <1>3, <1>4, <1>5, <1>6, <1>7 DEF LogInv

\* Every page and every link of the log keeps the invariant.
LEMMA LogInductive ==
    LogInv /\ [LogNext]_logvars => LogInv'
<1> SUFFICES ASSUME LogInv, [LogNext]_logvars PROVE LogInv'
  OBVIOUS
<1>1. CASE UNCHANGED logvars
  BY <1>1 DEF LogInv, LogTyped, WalkInv, RowsOwnCommit, CountInv, SeenInv, Passed, Earlier,
              First, Pager, logvars
<1>2. CASE LogNext
  BY <1>2, StepSkip, StepSkipDone, StepShow, StepEndPage, StepGoNext, StepGoElsewhere
     DEF LogNext
<1> QED BY <1>1, <1>2

LEMMA LogAlways == LogSpec => []LogInv
<1>1. LogInit => LogInv
  BY InitialLog
<1> QED BY <1>1, LogInductive, PTL DEF LogSpec

-----------------------------------------------------------------------------
(* The theorems *)

\* A page that is done has shown what the log has on it, and the pages before it, as
\* long as no link has strayed to another name of the file: every commit once and in
\* order (the two loops of cgit_print_log, the links below the list).
THEOREM PagesComplete == LogSpec => []PagesInOrder
<1>1. LogInv => PagesInOrder
  <2> SUFFICES ASSUME LogInv, log_pc = "done", ~strayed
               PROVE  /\ \A m, n \in DOMAIN seen : m < n => seen[m] < seen[n]
                      /\ {seen[n] : n \in DOMAIN seen} =
                             {i \in WholeLog(history, qry) :
                                 Rank(WholeLog(history, qry), i) \in
                                     First - (Len(seen) - Len(shown)) .. First + PageSize - 1}
    BY DEF PagesInOrder
  <2> DEFINE W == WholeLog(history, qry)
  <2>1. /\ \A m, n \in DOMAIN seen : m < n => seen[m] < seen[n]
        /\ {seen[n] : n \in DOMAIN seen} =
               {i \in W : Rank(W, i) >= First - Earlier
                          /\ (Rank(W, i) < First \/ i \notin left)}
        /\ Earlier \in 0 .. First
    BY DEF LogInv, SeenInv
  <2>2. /\ First \in Nat /\ PageSize \in Nat /\ count \in Nat /\ count <= PageSize
        /\ Cardinality(Passed) \in Nat /\ Cardinality(Passed) <= First + PageSize
        /\ left # {} => Cardinality(Passed) = First + PageSize
    BY PassedFirst, FullPage, OffsetAssumption DEF LogInv, LogTyped, CountInv
  <2>3. \A i \in W : /\ Rank(W, i) \in Nat
                     /\ i \notin left => Rank(W, i) < Cardinality(Passed)
                     /\ i \in left => Rank(W, i) >= Cardinality(Passed)
    BY PassedFirst DEF LogInv
  <2> HIDE DEF W
  <2>4. \A i \in W : (Rank(W, i) < First \/ i \notin left)
                         <=> Rank(W, i) <= First + PageSize - 1
    <3> SUFFICES ASSUME NEW i \in W
                 PROVE  (Rank(W, i) < First \/ i \notin left)
                            <=> Rank(W, i) <= First + PageSize - 1
      OBVIOUS
    <3>1. CASE i \in left
      BY <2>2, <2>3, <3>1
    <3>2. CASE i \notin left
      BY <2>2, <2>3, <3>2
    <3> QED BY <3>1, <3>2
  <2>5. \A i \in W : Rank(W, i) \in First - Earlier .. First + PageSize - 1
                         <=> /\ Rank(W, i) >= First - Earlier
                             /\ Rank(W, i) < First \/ i \notin left
    BY <2>1, <2>2, <2>3, <2>4
  <2>6. {seen[n] : n \in DOMAIN seen} =
            {i \in W : Rank(W, i) \in First - Earlier .. First + PageSize - 1}
    BY <2>1, <2>5
  <2> QED BY <2>1, <2>6 DEF W, Earlier
<1> QED BY <1>1, LogAlways, PTL

\* [next] is below a page whenever the log has more than has been seen, and without
\* follow only then (cgit_print_log).
THEOREM NextIsThere == LogSpec => []NextMeansMore
<1>1. LogInv => NextMeansMore
  <2> SUFFICES ASSUME LogInv, log_pc = "done", qry.pager
               PROVE  /\ First + PageSize < Cardinality(WholeLog(history, qry))
                             => links.next # None
                      /\ links.next # None /\ ~qry.follow
                             => First + PageSize < Cardinality(WholeLog(history, qry))
    BY DEF NextMeansMore
  <2> DEFINE W == WholeLog(history, qry)
  <2>1. LogTyped /\ WalkInv
    BY DEF LogInv
  <2>2. /\ IsFiniteSet(W) /\ W \subseteq Revisions(history, qry) /\ Cardinality(W) \in Nat
        /\ Passed = W \ left
    <3>1. IsFiniteSet(W) /\ W \subseteq Revisions(history, qry)
      BY <2>1, LogIsFinite DEF LogTyped
    <3> QED BY <3>1, FS_CardinalityType DEF Passed
  <2>3. /\ First \in Nat /\ PageSize \in Nat /\ Cardinality(Passed) \in Nat
        /\ Cardinality(Passed) <= First + PageSize
        /\ left # {} => Cardinality(Passed) = First + PageSize
    BY PassedFirst, FullPage, OffsetAssumption DEF LogInv, LogTyped, CountInv
  <2>4. left # {} => links.next # None
    <3> SUFFICES ASSUME left # {} PROVE links.next # None
      OBVIOUS
    <3>1. links.next = [qry EXCEPT !.path = vpath,
                                   !.ofs = IF First + PageSize > 0 THEN First + PageSize ELSE 0]
      BY <2>1 DEF LogTyped, Pager, First
    <3>2. links.next \in Request
      <4>1. (IF First + PageSize > 0 THEN First + PageSize ELSE 0) \in Int
        BY <2>3
      <4> QED BY <2>1, <3>1, <4>1 DEF LogTyped, Request
    <3> QED BY <3>2, NoRequestAssumption
  <2>5. links.next # None => left # {}
    BY <2>1 DEF LogTyped, Pager
  <2> HIDE DEF W
  <2>6. left = {} => Cardinality(W) <= First + PageSize
    <3>1. left = {} => Passed = W
      BY <2>2
    <3> QED BY <2>3, <3>1
  <2>7. ASSUME left # {}, ~qry.follow PROVE First + PageSize < Cardinality(W)
    <3>1. PICK i \in left : TRUE
      BY <2>7
    <3>2. W = Revisions(history, qry)
      BY <2>7 DEF W, WholeLog
    <3>3. i \in W /\ i \notin Passed /\ Passed \subseteq W
      BY <2>1, <2>2, <3>1, <3>2 DEF WalkInv
    <3>4. Cardinality(Passed) < Cardinality(W)
      <4>1. IsFiniteSet(W) /\ Passed \in SUBSET W /\ Passed # W
        BY <2>2, <3>3
      <4>2. /\ Cardinality(Passed) <= Cardinality(W)
            /\ Cardinality(W) # Cardinality(Passed)
        BY <4>1, FS_Subset
      <4> QED BY <2>2, <2>3, <4>2
    <3> QED BY <2>3, <2>7, <3>4
  <2> QED BY <2>2, <2>3, <2>4, <2>5, <2>6, <2>7 DEF W
<1> QED BY <1>1, LogAlways, PTL

\* A row's links carry a name its commit knows the file by, and its counts are those
\* of its own diff (handle_rename, cgit_log_reset_lines_counted).
THEOREM RowsAreOwn == LogSpec => []RowsOwnCommit
<1>1. LogInv => RowsOwnCommit
  BY DEF LogInv
<1> QED BY <1>1, LogAlways, PTL
=============================================================================
