CONSTANTS
    c1 = c1
    c2 = c2
    c3 = c3
    merge = merge
    t1 = t1
    text = text
    binary = binary
    dir = dir
    sub = sub
    master = master
    topic = topic
    v1 = v1
    TextPath = TextPath
    BinaryPath = BinaryPath
    DirPath = DirPath
    SubPath = SubPath
    None = None
    Object <- MCObject
    Branch <- MCBranch
    Tag <- MCTag
    Path <- MCPath
    Kind <- MCKind
    Tagged <- MCTagged
    Parents <- MCParents
    Entry <- MCEntry
    Unblamable = {binary}
    EnableBlame = TRUE
    Queries <- NamedQueries
    DefBranch = master
    Target <- MCTarget
    Reach <- MCReach
    Starts <- MCStarts
    Fragile = {c1, text}
    MaxChanges = 2
    AuthFilter = TRUE
    EnableHttpClone = TRUE
    Ttl <- MCTtl
SPECIFICATION Spec
INVARIANT NamedPagesExpire
