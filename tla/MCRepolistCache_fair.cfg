SPECIFICATION FairSpec
CONSTANTS
    Request = {q1, q2}
    Child = {c1}
    Repo = {r1}
    Inode = {f1, f2, f3}
    None = None
    Crashes = FALSE
INVARIANT IncompleteOnlyUntilClose
INVARIANT LockMeansConcurrent
PROPERTY OldIsReplaced
