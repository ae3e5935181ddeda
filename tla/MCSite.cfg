SPECIFICATION Spec

CONSTANTS
    None = None
    Digits = {"1"}
    Diffs <- SmallDiffs
    Contexts <- FewContexts
    DefaultContext = 3
    Histories <- ShortHistories
    FirstPaths = {0}
    Offsets <- FewOffsets
    PageSize = 2
    FilteredPages <- ShortPages
    PipeSize = 2
    Procs = {p1, p2, p3}
    MaxSecrets = 3

SYMMETRY Symmetry

INVARIANT NothingLost
INVARIANT NumbersTrue
INVARIANT PairsAligned
INVARIANT StatMatchesDiff
INVARIANT PagesInOrder
INVARIANT NextMeansMore
INVARIANT RowsOwnCommit
INVARIANT FilteredInPlace
INVARIANT WaitedFilterCanEnd
INVARIANT OneSecret
INVARIANT CachedListSame
INVARIANT LinkShowsPage
INVARIANT IndexShowsAll
INVARIANT StatsAddUp
INVARIANT SnapshotRoundTrip

\* A page ends, a filter may end cgit, and a question has no next step
CHECK_DEADLOCK FALSE
