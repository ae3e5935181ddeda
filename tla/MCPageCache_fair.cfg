SPECIFICATION FairSpec
CONSTANTS
    Proc = {p1, p2}
    Past = past
    k1 = k1
    k2 = k2
    k3 = k3
    Key = {k1, k2, k3}
    Slot = {s1}
    SlotOf <- OneSlot
    Inode = {i1, i2, i3}
    None = None
    Ttl <- MCTtl
    Minute = 1
    CacheOn = TRUE
    FilterKey = {}
    Sendfile = TRUE
    Crashes = FALSE
    Faults = FALSE
    MaxLen = 2
    MaxNow = 2
ACTION_CONSTRAINT Timeless
CHECK_DEADLOCK FALSE
PROPERTY Termination
INVARIANT ServesWholePage
INVARIANT LockNotHeldWhileSending
PROPERTY PublishedImmutable
